SPECIFICATION FairSpec
CONSTANTS
    FileCount = 2
    Versions = {v1, v2}
    ChunkCount <- OneAndTwoChunks
    Unsupported = {2}
    Models = {a, b}
    FirstModel = a
    BatchSize = 2
    MaxEmbedChunks = 0
    MaxFiles = 0
    MaxPushes = 1
    MaxSwitches = 0
    MaxFaults = 1
    Faults = {}
    None = None
    v1 = v1
    v2 = v2
PROPERTY Converges
CHECK_DEADLOCK FALSE
