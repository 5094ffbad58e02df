SPECIFICATION ModesFairSpec
CONSTANTS
    Accounts = {a1, a2}
    Shards = {s1, s2}
    ShardOf <- MCShardOf
    Datasets <- MCDatasets
    Start = 1
    End = 4
    BATCH_SIZE = 2
    BlockInfoCap = 1
    Bench = TRUE
    MAX_HANG_LEN = 1
    FlushInterval = 2
    Modes = {"mpt", "samurai-only"}
    Uint64 = 32
    a1 = a1
    a2 = a2
    s1 = s1
    s2 = s2
INVARIANTS
    MessagesAreAwaited
    DiskHoldsAPrefix
PROPERTIES
    RootsFollowDataset
    PipelineReturns
CHECK_DEADLOCK FALSE
