\* One input, fairly scheduled: requests are answered, connections go, Close returns.
CONSTANTS
    w1 = w1
    w2 = w2
    c1 = c1
    c2 = c2
    None = None
    Keys <- OneKey
    StreamOf <- Streams
    Workers = {w1}
    Clients = {c1}
    MaxStreams = 1
    Worlds <- Fair
SPECIFICATION FairSpec
PROPERTIES DemandAnswered HungCloses CloseTerminates UnusedDrains
