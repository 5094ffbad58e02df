SPECIFICATION BaselineSpec
CONSTANTS
    Width = 2
    StemLength = 3
    NoValue = NoValue
    Zero = Zero
    Garbled = Garbled
    NotFound = NotFound
    Missing = Missing
    Stems <- ThreeStems
    LAST_BLOCK = 3
    MaxEntries = 4
    FlushEvery = 2
    MaxCrashes = 2
    Baselines = {"verklekzg"}
    LastIngested <- MCLast
    CrashesOf <- MCCrashes
    VerkleStems <- TwoStems
    MaxOfStem = 3
INVARIANTS
    ProofsReachLeaves
CHECK_DEADLOCK FALSE
