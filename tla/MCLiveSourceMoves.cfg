\* A route moves while its stream is on the fallback.
CONSTANTS
    a = a
    b = b
    w1 = w1
    w2 = w2
    q1 = q1
    q2 = q2
    None = None
    Streams = {a}
    Watched = {a}
    Unprobed = {}
    Workers = {w1}
    Requests = {}
    Layouts <- HomeAndAway
    QueueCap = 1
    Choices = {}
    MaxEvents = 2
SPECIFICATION FairSpec
PROPERTIES ReconnectsOnSwitch
\* The world may stop after its last event.
CHECK_DEADLOCK FALSE
