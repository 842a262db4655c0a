SPECIFICATION FairSpec
CONSTANTS
    Requests = {r1}
    Workers = {w1}
    Urls = {u1, u2}
    Ids = {i1, i2}
    QueueSize = 1
    MaxRestarts = 1
    StoreFaults = TRUE
    FileFaults = FALSE
    NoId = NoId
    NoUrl = NoUrl
PROPERTY JobsEnd
PROPERTY StopEnds
CHECK_DEADLOCK FALSE
