SPECIFICATION Spec
CONSTANTS
    L1BatchSize = 2
    L2BatchSize = 3
    MaxLayer = 3
    SegmentTreeSize = 8
    ChunkSize = 2
    Zero = Zero
    Garbled = Garbled
    FirstBlock = 3
    MaxBlock = 26
    MaxVersion = 19
    MaxGap = 3
    MaxSkipped = 2
    Uint64 = 64
    NoBalance = NoBalance
INVARIANTS
    EveryBlockHasOneVersion
    LoadFindsCommitments
    CachedTreesMatchHistory
    EvictedAccountLoadsBack
    FinishedBatchesArchived
PROPERTIES
    LedgerSpec
CHECK_DEADLOCK FALSE
