SPECIFICATION FairSpec
CONSTANTS
    Images = {"new", "old", "bad", "full", "large"}
    Attr <- MCAttr
    FactoryHeader <- MCFactory
    NBlocks = 3
    ErasedBlocks = 2
    None = None
    Erased = Erased
    Garbage = Garbage
    MaxUploads = 2
    MaxFaults = 1
    MaxReplies = 2
INVARIANTS
    TypeOK
    AckedIsWritten
PROPERTIES
    BootSafe
    CompleteTakesEffect
