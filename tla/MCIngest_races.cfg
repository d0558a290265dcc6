SPECIFICATION Spec
CONSTANTS
    Null = Null
    p1 = p1
    p2 = p2
    a1 = a1
    a2 = a2
    Ids = {1, 2}
    Prices = {p1, p2}
    Attrs = {a1, a2}
    Workers = {w1, w2}
    Feeds <- SweptFeeds
    StaleDays = 1
    FaultKinds = {}
    MaxFaults = 1
    MaxRuns = 3
    MaxTime = 2
    MaxJobTicks = 1
CHECK_DEADLOCK FALSE
INVARIANTS
    PriceEventsChain
    RemovedWereUnseen
