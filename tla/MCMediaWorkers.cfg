\* Media workers: sharing, idle stops, retention, switches, Close.
CONSTANTS
    a = a
    v1 = v1
    v2 = v2
    None = None
    Streams = {a}
    Viewers = {v1, v2}
    Slots = {1, 2}
    Worlds <- MCWorlds
SPECIFICATION FairSpec
INVARIANTS
    TypeOK
    NoStaleInput
    WithinLimits
    KeptIsReadable
    ClosedLeavesNothing
PROPERTIES
    IdleStopIsEarned
    UnusedStops
    CloseReturns
