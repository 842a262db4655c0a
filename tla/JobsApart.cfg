SPECIFICATION ApartSpec
CONSTANTS
    Requests = {r1, r2}
    Workers = {w1, w2}
    Urls = {u1, u2}
    Ids = {i1, i2, i3}
    QueueSize = 1
    MaxRestarts = 1
    StoreFaults = FALSE
    FileFaults = TRUE
    NoId = NoId
    NoUrl = NoUrl
SYMMETRY Symmetry
INVARIANT TypeOK
INVARIANT OneHandlerPerClone
INVARIANT OneRepositoryPerUrl
INVARIANT CompletedIsUsable
PROPERTY NoFinishedJobRestarts
CHECK_DEADLOCK FALSE
