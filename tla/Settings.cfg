\* Each component on its own instance (MCSettings); between requests every one goes on.
SPECIFICATION Spec
CONSTANTS
    CtlKinds = {"client1", "client2", "line"}
    CtlRates = {"GE", "STM1", "OTU1"}
    MaxControls = 2
    ThrCount = 2
    ThrValues = {"dflt", "low", "high"}
    ThrDefault = "dflt"
    MaxThresholds = 3
    AlsKinds = {"client", "line"}
    Requested = {0, 1, 2, 3, 6}
    PortKinds = {"client"}
    PortRates = {"STM1", "OTU1", "GE"}
    Period = 2
    MaxResets = 3
    SectionsAsked = {2, 3}
    Colours = {0, 7}
    MaxWrites = 1
    PrefCells = 4
    PrefHighBit = {"high", "blank"}
    PrefSettings = {"rate", "info"}
    PrefList <- MCList
    PrefValues = {"low", "high"}
    PrefDefault = "low"
    Signature = "signature"
    MaxCommits = 5
    LangCells = 3
    LangHighBit = {"long", "blank"}
    Packs = {"short", "long"}
    LastOf <- MCLast
    ZeroBlock = "zero"
    GarbledBlock = "garbled"
    MaxSends = 4
    ErasedCell = "blank"
    BufferSize = 2
    FlashCells = 3
    MaxCount = 3
    Bytes <- MCBytes
INVARIANTS
    TypeOK
    IsAsReported
    FlashIsWhole
PROPERTIES
    NothingUnasked
    RequestsSettle
