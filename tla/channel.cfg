SPECIFICATION FairSpec
CONSTANTS
    Frame = 8
    Block = 3
    MaxMessages = 5
    MaxRepeats = 2
INVARIANTS
    ChannelTypeOK
    EndsForCause
PROPERTIES
    InOrder
    EverythingArrives
CHECK_DEADLOCK FALSE
