SPECIFICATION Spec
CONSTANTS
    Images = {"new", "old", "bad", "large"}
    Attr <- MCAttr
    FactoryHeader <- MCFactory
    NBlocks = 3
    ErasedBlocks = 2
    None = None
    Erased = Erased
    Garbage = Garbage
    MaxUploads = 2
    MaxFaults = 0
    MaxReplies = 2
PROPERTIES
    ReservedSpaceErased
