SPECIFICATION FairSpec
CONSTANTS
    Null = Null
    l1 = l1
    l2 = l2
    t1 = t1
    t2 = t2
    w1 = w1
    w2 = w2
    Ids <- MCIds
    Texts <- MCTexts
    Workers = {"w1"}
    Limit = 1
    Results = {"answered", "errored"}
    Readings <- TwoReadings
    FaultKinds = {"api", "stream", "lost_reply", "crash"}
    MaxFaults = 1
    MaxEdits = 1
    MaxVersion = 1
INVARIANT InFlightOnce
INVARIANT NoOrphan
PROPERTY ImplementsCache
PROPERTY EventuallySettled
