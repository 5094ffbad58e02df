SPECIFICATION FairSpec
CONSTANTS
    Accounts = {a1, a2}
    Shards = {s1, s2}
    ShardOf <- MCShardOf
    Start = 1
    LastBuilt = 3
    LastSegmentEnd = 4
    Ends = {2, 4, 5}
    Datasets <- MCDatasets
    FlushInterval = 2
    BlockInfoCap = 1
    UpdateCap = 2
    MaxHangLen = 1
    MaxCommands = 2
    MaxCrashes = 1
    a1 = a1
    a2 = a2
    s1 = s1
    s2 = s2
INVARIANTS
    RootsAreHistory
    ReturnedWorkIsRecorded
PROPERTIES
    CommandsEnd
CHECK_DEADLOCK FALSE
