SPECIFICATION Spec
CONSTANTS
    Null = Null
    Malformed = Malformed
    r1 = r1
    r2 = r2
    b1 = b1
    b2 = b2
    n1 = n1
    l1 = l1
    Regs = {r1, r2}
    Promoters = {b1, b2}
    Names = {n1}
    Pages <- OverlapPages
    Listings = {l1}
    Facts <- MCFacts
    Items <- MCItems
    Rules <- MCRules
    Workers = {"w1", "w2"}
    MaxRuns = 3
    MaxEdits = 1
    MaxFaults = 0
CHECK_DEADLOCK FALSE
INVARIANT RegistryAlwaysReplays
INVARIANT TagsAlwaysCite
