SPECIFICATION FairSpec
CONSTANTS
    Cap = 18
    Noise = {0, 6}
    Packets = 2
    MaxHeld = 2
    MaxFaults = 1
    MaxStops = 1
INVARIANTS
    TypeOK
    CleanRequestSucceeds
    AnswersItsRequest
PROPERTIES
    AcceptsWhole
    Recovers
