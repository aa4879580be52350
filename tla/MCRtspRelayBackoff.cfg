\* A worker fails while an invalidation is about to retire it.
CONSTANTS
    w1 = w1
    w2 = w2
    c1 = c1
    c2 = c2
    None = None
    Keys <- TwoCameras
    StreamOf <- Streams
    Workers = {w1, w2}
    Clients = {}
    MaxStreams = 2
    Worlds <- Backoff
SYMMETRY Symmetry
SPECIFICATION Spec
PROPERTIES InvalidationForgetsBackoff
