SPECIFICATION Spec
CONSTANTS
    rera = rera
    magicbricks = magicbricks
    Rera = rera
    Portals <- OnePortal
    Shipped <- AllPortals
    Window = 1
    Jobs = {"rera", "portals", "digest"}
    Faults = {"bad run", "strand", "deploy", "cli", "crash"}
    MaxFaults = 2
    MaxDay = 2
    MaxRuns = 4
INVARIANT DayRecovered
PROPERTY OnlyOkRunsExtend
PROPERTY OnlyBadRunsBreak
PROPERTY DeadSourcesNamed
CHECK_DEADLOCK FALSE
