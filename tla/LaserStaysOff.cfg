SPECIFICATION FairSpec
CONSTANTS
    Kinds = {"client1"}
    Rates = {"STM1"}
    MaxRequests = 1
INVARIANT LaserStaysOff
