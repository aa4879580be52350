\* The event index: cursors, failures, outages, scheduling and Close.
CONSTANTS
    human = human
    vehicle = vehicle
    Codes = {human, vehicle}
    Overlap = 1
    Window = 3
    Prefetch = 9
    PerPass = 2
    TriggerCap = 2
    Goroutines = 1
    First = 12
    Worlds <- MCWorlds
SPECIFICATION FairSpec
INVARIANTS
    NoGap
    ClosedIsQuiet
PROPERTIES
    BackfillCompletes
