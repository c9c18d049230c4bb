SPECIFICATION FairSpec
CONSTANTS
    Addr = {0, 1, 2}
    Headers <- MCHeaders
    Programs <- MCPrograms
    Entry = {"main"}
    RESET = "reset"
    HALT = "halt"
    MaxPowerCycles = 1
INVARIANTS
    TypeOK
    PickIsBest
    EntryIsWhole
PROPERTIES
    BootsIfItCan
