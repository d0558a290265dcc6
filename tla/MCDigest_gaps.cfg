SPECIFICATION Spec
CONSTANTS
    Null = Null
    l1 = l1
    Ids = {l1}
    Workers = {"w1"}
    FaultKinds = {}
    Forcing = {FALSE}
    MaxDay = 1
    MaxReruns = 1
    MaxFaults = 0
INVARIANT MailLinksResolve
CHECK_DEADLOCK FALSE
INVARIANT CitesItsScore
