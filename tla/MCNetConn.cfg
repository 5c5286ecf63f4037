SPECIFICATION FairSpec
CONSTANTS
    SeqMod = 2
    MaxRetries = 2
    MaxMsgs = 2
INVARIANTS
    TypeOK
    RemoteMeansPeerLeft
PROPERTIES
    ImplementsFifo
    DeliveredWhileUp
    HangUpEnds
    NoHalfOpen
CHECK_DEADLOCK FALSE
