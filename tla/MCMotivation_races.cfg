SPECIFICATION Spec
CONSTANTS
    Null = Null
    l1 = l1
    l2 = l2
    t1 = t1
    t2 = t2
    w1 = w1
    w2 = w2
    Ids <- OneId
    Texts <- MCTexts
    Workers = {"w1", "w2"}
    Limit = 1
    Results = {"answered", "errored"}
    Readings <- TwoReadings
    FaultKinds = {}
    MaxFaults = 0
    MaxEdits = 1
    MaxVersion = 2
INVARIANT ReadsItsText
INVARIANT OneVocabulary
INVARIANT ScoringSurvives
INVARIANT ReadingsAreGiven
