SPECIFICATION Spec
CONSTANTS
    None = None
    FirstSlab = 200
    SecondSlab = 450
    Exemption = 12
    Horizon = 6
    MIN_COMPS = 3
    Count = 1
    Lots <- LadderLots
    Prices <- HolderPrices
    TagSets <- LadderTagSets
    Readings = {}
    Postings = {}
    Neighbours <- MCNeighbours
    Profiles <- HolderProfiles
    Cities = {"bangalore", "mysore"}
    per_market = 1
    TOP_N = 1
    WATCHLIST_MONTHS = 6
    WATCHLIST_N = 1
    SCANNED = 2
    DaysPerTick = 30
    MaxTicks = 2
    MaxChanges = 0
    MaxPasses = 0
CHECK_DEADLOCK FALSE
INVARIANTS
    CeilingIsHighest
    UnlockIsEnough
