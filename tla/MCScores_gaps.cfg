SPECIFICATION Spec
CONSTANTS
    Ids = {l1, l2}
    Workers = {w1, w2}
    ACTIVE_FACTORS <- MCFactors
    Top = 2
    Weightings <- MCWeightings
    FirstWeights <- MCFirst
    Findings <- MCFindings
    Initially <- MCInitially
    Null = Null
    Abstained = Abstained
    Events = {"change", "release", "crash"}
    MaxVersion = 2
    MaxDay = 2
    MaxRuns = 3
    MaxEvents = 2
CHECK_DEADLOCK FALSE
INVARIANT FactorsAlwaysGiveScore
INVARIANT RankedOnce
