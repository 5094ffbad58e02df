SPECIFICATION BaselineSpec
CONSTANTS
    Width = 2
    StemLength = 3
    NoValue = NoValue
    Zero = Zero
    Garbled = Garbled
    NotFound = NotFound
    Missing = Missing
    Stems <- ThreeStems
    LAST_BLOCK = 4
    MaxEntries = 4
    FlushEvery = 2
    MaxCrashes = 2
    Baselines = {"verklekzg", "verkle"}
    LastIngested <- MCLast
    CrashesOf <- MCCrashes
    VerkleStems <- TwoStems
    MaxOfStem = 3
INVARIANTS
    LookupsAreHistory
    NodesChain
    CommitmentsAreSums
PROPERTIES
    VersionsAreImmutable
CHECK_DEADLOCK FALSE
