SPECIFICATION FairSpec
CONSTANTS
    Null = Null
    l1 = l1
    Ids = {l1}
    Workers = {"w1", "w2"}
    FaultKinds = {"outage", "lost_reply", "crash"}
    Forcing = {FALSE, TRUE}
    MaxDay = 2
    MaxReruns = 1
    MaxFaults = 2
INVARIANT OneMailPerDay
INVARIANT SentMeansMailed
PROPERTY EveryDayMailed
CHECK_DEADLOCK FALSE
