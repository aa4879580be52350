\* Failover and return, with a viewer that reports failures.
CONSTANTS
    a = a
    b = b
    w1 = w1
    w2 = w2
    q1 = q1
    q2 = q2
    None = None
    Streams = {a}
    Watched = {a}
    Unprobed = {a}
    Workers = {w1}
    Requests = {}
    Layouts <- OneHome
    QueueCap = 1
    Choices = {"camera"}
    MaxEvents = 1
SPECIFICATION FairSpec
PROPERTIES SettlesOnBest
\* The world may stop after its last event.
CHECK_DEADLOCK FALSE
