SPECIFICATION ModesSpec
CONSTANTS
    Accounts = {a1, a2}
    Shards = {s1, s2}
    ShardOf <- MCShardOf
    Datasets <- MCFewDatasets
    Start = 1
    End = 3
    BATCH_SIZE = 2
    BlockInfoCap = 1
    Bench = FALSE
    MAX_HANG_LEN = 1
    FlushInterval = 2
    Modes = {"mpt"}
    Uint64 = 32
    a1 = a1
    a2 = a2
    s1 = s1
    s2 = s2
INVARIANTS
    AllBlocksIngested
CHECK_DEADLOCK FALSE
