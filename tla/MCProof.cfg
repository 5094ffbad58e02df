SPECIFICATION ServerSpec
CONSTANTS
    L1BatchSize = 2
    L2BatchSize = 3
    MaxLayer = 3
    SegmentTreeSize = 8
    ChunkSize = 8
    Zero = Zero
    Garbled = Garbled
    FirstBlock = 2
    MaxBlock = 18
    MaxVersion = 12
    MaxGap = 3
    MaxSkipped = 2
    Uint64 = 64
    NoBalance = NoBalance
    Paths = {FALSE, TRUE}
    NoLeaf = NoLeaf
    NoQuery = NoQuery
    NoAnswer = NoAnswer
INVARIANTS
    AnswersCoverQuery
    PlanOpensRange
    HonestProofsVerify
CHECK_DEADLOCK FALSE
