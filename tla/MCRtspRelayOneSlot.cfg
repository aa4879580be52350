\* A relay limited to one input: demand, eviction, failing routes, settings, source changes and shutdown.
CONSTANTS
    w1 = w1
    w2 = w2
    c1 = c1
    c2 = c2
    None = None
    Keys <- ThreeKeys
    StreamOf <- Streams
    Workers = {w1, w2}
    Clients = {c1, c2}
    MaxStreams = 1
    Worlds <- OneSlot
SYMMETRY Symmetry
SPECIFICATION Spec
CONSTRAINT Within
INVARIANTS RegistryHonest IndexAgrees DemandCounted StreamsBounded WarmStartCounted TablesBounded ClosedStaysEmpty NoLostPolicy WarmWithinBudget
PROPERTIES DemandProtected PolicyNotUndone
