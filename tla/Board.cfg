SPECIFICATION Spec
CONSTANTS
    INTERFACE_COUNT = 2
    FirstLine = 1
    Protocols = {"OTU", "SDH", "ETH", "FC"}
    MaxChanges = 2
    Mapped = {7, 8, 15, 16, 17}
    Rates = {"STM1", "STM16", "OTU1", "GE", "FC1"}
    Cells = 3
    Stretches = TRUE
    MaxCalls = 2
    Buses = {"bus4", "rem_bus4"}
    Refusals = TRUE
    MuxPassed = {"own", "other"}
    Outputs = 2
    Served = 5
    MaxRefusals = 3
    Clocked = {2, 3, 5}
INVARIANTS
    TypeOK
    AlarmsAreTrue
    DevicesAreReached
PROPERTIES
    StepsKeepPromises
CHECK_DEADLOCK FALSE
