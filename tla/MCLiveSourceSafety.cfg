\* Queueing, checking, switching and snapshots, each in the smallest setting that shows it.
CONSTANTS
    a = a
    b = b
    w1 = w1
    w2 = w2
    q1 = q1
    q2 = q2
    None = None
    Streams = {a, b}
    Watched = {a}
    Unprobed = {a, b}
    Workers = {w1, w2}
    Requests = {q1, q2}
    Layouts <- AnyLayout
    QueueCap = 1
    Choices = {"nvr", "camera", "default"}
    MaxEvents = 3
    Scopes <- AllScopes
SYMMETRY WorkersAndRequests
SPECIFICATION ScopedSpec
INVARIANTS OneCheckEach SelectionIsCurrent ViewFollows SnapshotFollows
PROPERTIES NoBlindSwitch
\* The world may stop after its last event.
CHECK_DEADLOCK FALSE
