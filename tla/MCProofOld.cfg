SPECIFICATION ServerSpec
CONSTANTS
    L1BatchSize = 2
    L2BatchSize = 2
    MaxLayer = 3
    SegmentTreeSize = 6
    ChunkSize = 6
    Zero = Zero
    Garbled = Garbled
    FirstBlock = 2
    MaxBlock = 12
    MaxVersion = 6
    MaxGap = 3
    MaxSkipped = 60
    Uint64 = 32
    NoBalance = NoBalance
    Paths = {FALSE, TRUE}
    NoLeaf = NoLeaf
    NoQuery = NoQuery
    NoAnswer = NoAnswer
INVARIANTS
    OldPathAnswersTheSame
CHECK_DEADLOCK FALSE
