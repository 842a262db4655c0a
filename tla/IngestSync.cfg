SPECIFICATION RoundsSpec
CONSTANTS
    FileCount = 2
    Versions = {v1, v2}
    ChunkCount <- ZeroAndTwoChunks
    Unsupported = {}
    Models = {a, b}
    FirstModel = a
    BatchSize = 1
    MaxEmbedChunks = 2
    MaxFiles = 0
    MaxPushes = 2
    MaxSwitches = 0
    MaxFaults = 1
    Faults = {"crash", "record", "embed", "store", "read", "parse", "purge", "info"}
    None = None
    v1 = v1
    v2 = v2
INVARIANT UpToDateIsIndexed
INVARIANT UpToDateForgets
INVARIANT SyncsAreFew
CHECK_DEADLOCK FALSE
