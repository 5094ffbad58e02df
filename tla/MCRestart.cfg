SPECIFICATION Spec
CONSTANTS
    LAST_BLOCK = 2
    SegmentEnds = {1}
    FlushInterval = 2
    MaxRuns = 3
    MaxCrashes = 2
    NoAccount = NoAccount
    Torn = Torn
INVARIANTS
    NothingRecordedIsLost
    ProgressIsSaved
    LastHasRoot
    RunRootsHaveTries
CHECK_DEADLOCK FALSE
