SPECIFICATION FairSpec
CONSTANTS
    FileCount = 2
    Versions = {v2}
    ChunkCount <- OneAndTwoChunks
    Unsupported = {}
    Models = {a, b}
    FirstModel = a
    BatchSize = 3
    MaxEmbedChunks = 0
    MaxFiles = 0
    MaxPushes = 1
    MaxSwitches = 1
    MaxFaults = 2
    Faults = {"crash", "cancel", "fetch", "record", "walk", "embed"}
    None = None
    v1 = v1
    v2 = v2
INVARIANT TypeOK
INVARIANT EmbeddedIsSearchable
INVARIANT UpToDateIsIndexed
CHECK_DEADLOCK FALSE
PROPERTY Converges
