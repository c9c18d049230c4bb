SPECIFICATION FairSpec
CONSTANTS
    Cap = 16
    Noise = {0}
    Packets = 2
    MaxHeld = 1
    MaxFaults = 1
    MaxStops = 1
PROPERTIES
    TimerRestarted
