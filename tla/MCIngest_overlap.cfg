SPECIFICATION FairSpec
CONSTANTS
    Null = Null
    p1 = p1
    p2 = p2
    a1 = a1
    a2 = a2
    Ids = {1, 2}
    Prices = {p1, p2}
    Attrs = {a1, a2}
    Workers = {w1, w2}
    Feeds <- LookingFeeds
    StaleDays = 1
    FaultKinds = {}
    MaxFaults = 0
    MaxRuns = 2
    MaxTime = 2
    MaxJobTicks = 2
CHECK_DEADLOCK FALSE
PROPERTY JobsEnd
INVARIANTS
    NewOnce
    LastEventIsPrice
    RemovalsAuthorised
