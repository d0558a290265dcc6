SPECIFICATION Spec
CONSTANTS
    Null = Null
    l1 = l1
    l2 = l2
    t1 = t1
    t2 = t2
    w1 = w1
    w2 = w2
    Ids <- MCIds
    Texts <- OneText
    Workers <- MCWorkers
    Limit = 2
    Results = {"answered"}
    Readings <- TwoReadings
    FaultKinds = {}
    MaxFaults = 0
    MaxEdits = 0
    MaxVersion = 2
INVARIANT ColumnsAreGiven
SYMMETRY Alike
