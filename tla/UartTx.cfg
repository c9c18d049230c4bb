SPECIFICATION FairSpec
CONSTANTS
    NElem = 4
    Wrap = 8
    Blank = Blank
    MaxLen = 3
    ArmLens = {3}
    KursLens = {2, 3}
    MaxPackets = 2
INVARIANTS
    TypeOK
    RingConsistent
    NoStrandedByte
    UnbrokenReplies
PROPERTIES
    QueueIsFifo
    LineGoesQuiet
CHECK_DEADLOCK FALSE
