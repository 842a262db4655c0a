SPECIFICATION Spec
CONSTANTS
    Requests = {r1}
    Workers = {w1}
    Urls = {u1, u2, u3}
    Ids = {i1, i2, i3}
    QueueSize = 1
    MaxRestarts = 0
    StoreFaults = FALSE
    FileFaults = FALSE
    NoId = NoId
    NoUrl = NoUrl
SYMMETRY Symmetry
INVARIANT ActiveIsQueuedOrRunning
CHECK_DEADLOCK FALSE
