SPECIFICATION Spec
CONSTANTS
    Requests = {r1}
    Workers = {w1}
    Urls = {u1}
    Ids = {i1}
    QueueSize = 1
    MaxRestarts = 1
    StoreFaults = FALSE
    FileFaults = FALSE
    NoId = NoId
    NoUrl = NoUrl
SYMMETRY Symmetry
INVARIANT CompletedIsIndexed
CHECK_DEADLOCK FALSE
