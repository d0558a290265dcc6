SPECIFICATION FairSpec
CONSTANTS
    Null = Null
    l1 = l1
    l2 = l2
    t1 = t1
    t2 = t2
    w1 = w1
    w2 = w2
    Ids <- OneId
    Texts <- MCTexts
    Workers = {"w1"}
    Limit = 2
    Results = {"answered", "errored"}
    Readings <- OneReading
    FaultKinds = {}
    MaxFaults = 0
    MaxEdits = 0
    MaxVersion = 1
PROPERTY FailuresRequeued
