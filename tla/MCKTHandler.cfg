SPECIFICATION FairSpec
CONSTANTS
    Clients = {c1, c2, c3}
    Users = {u1}
    Keys = {k1, k2}
    CachingModes = {FALSE}
    BatchSize = 2
    MaxRequests = 4
    EmptyStores <- BothProtocols
    ApplyUpdates <- HandlerApply
    Answer <- HandlerAnswer
    Panicked = Panicked
    NoRequest = NoRequest
    NoResponse = NoResponse
    Accepted = Accepted
    NoKey = NoKey
    L1BatchSize = 4
    L2BatchSize = 2
    MaxLayer = 1
    SegmentTreeSize = 8
    ChunkSize = 8
    Zero = Zero
    Garbled = Garbled
INVARIANTS
    TypeOK
    MutualExclusion
    CleanMeansApplied
    VersionsFollowPuts
    OptiksAnswersVerify
    SamuraiAnswersVerify
PROPERTIES
    ImplementsDirectory
    RequestsReturn
CHECK_DEADLOCK FALSE
