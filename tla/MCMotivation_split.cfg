SPECIFICATION Spec
CONSTANTS
    Null = Null
    l1 = l1
    l2 = l2
    t1 = t1
    t2 = t2
    w1 = w1
    w2 = w2
    Ids <- MCIds
    Texts <- MCTexts
    Workers = {"w1"}
    Limit = 2
    Results = {"answered", "blank"}
    Readings <- OneReading
    FaultKinds = {"api", "stream"}
    MaxFaults = 2
    MaxEdits = 2
    MaxVersion = 1
INVARIANT InFlightAlwaysOnce
