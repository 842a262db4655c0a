SPECIFICATION Spec
CONSTANTS
    Requests = {r1, r2}
    Workers = {w1, w2}
    Urls = {u1}
    Ids = {i1, i2}
    QueueSize = 2
    MaxRestarts = 0
    StoreFaults = FALSE
    FileFaults = FALSE
    NoId = NoId
    NoUrl = NoUrl
SYMMETRY Symmetry
INVARIANT OneHandlerPerClone
CHECK_DEADLOCK FALSE
