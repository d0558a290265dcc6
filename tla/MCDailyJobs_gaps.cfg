SPECIFICATION Spec
CONSTANTS
    rera = rera
    magicbricks = magicbricks
    Rera = rera
    Portals <- OnePortal
    Shipped <- AllPortals
    Window = 2
    Jobs = {"rera", "portals", "digest"}
    Faults = {"deploy", "crash"}
    MaxFaults = 2
    MaxDay = 1
    MaxRuns = 8
INVARIANT OffIsNotDemanded
CHECK_DEADLOCK FALSE
INVARIANT NoPreemption
