SPECIFICATION Spec
CONSTANTS
    Clients = {c1, c2}
    Users = {u1}
    Keys = {k1}
    CachingModes = {FALSE}
    BatchSize = 1
    MaxRequests = 3
    EmptyStores <- OnlySamurai
    ApplyUpdates <- HandlerApply
    Answer <- HandlerAnswer
    Panicked = Panicked
    NoRequest = NoRequest
    NoResponse = NoResponse
    Accepted = Accepted
    NoKey = NoKey
    L1BatchSize = 4
    L2BatchSize = 2
    MaxLayer = 1
    SegmentTreeSize = 8
    ChunkSize = 8
    Zero = Zero
    Garbled = Garbled
INVARIANTS
    GetReturns
CHECK_DEADLOCK FALSE
