SPECIFICATION Spec
CONSTANTS
    Null = Null
    Unusable = Unusable
    Ids = {"a", "b"}
    Records <- MCRecords
    Parsers <- MCParsers
    Feeds <- MCFeeds
    MaxRuns = 3
    MaxReplays = 2
CHECK_DEADLOCK FALSE
INVARIANTS
    PriceIsLastObserved
    DatesStayRecovered
    PositionIsWhole
    LeavesFreshFields
