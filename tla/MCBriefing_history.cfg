SPECIFICATION Spec
CONSTANTS
    None = None
    FirstSlab = 200
    SecondSlab = 450
    Exemption = 12
    Horizon = 30
    MIN_COMPS = 3
    Count = 2
    Lots <- NewLots
    Prices = {240, 250, 300, 460}
    TagSets <- MCTagSets
    Readings = {8000}
    Postings <- MCPostings
    Neighbours <- MCNeighbours
    Profiles <- MCProfiles
    Cities = {"mysore"}
    per_market = 2
    TOP_N = 1
    WATCHLIST_MONTHS = 6
    WATCHLIST_N = 1
    SCANNED = 2
    DaysPerTick = 30
    MaxTicks = 1
    MaxChanges = 2
    MaxPasses = 1
INVARIANT NoHistoryNoVerdict
