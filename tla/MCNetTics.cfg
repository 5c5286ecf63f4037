SPECIFICATION Spec
CONSTANTS
    p1 = p1
    p2 = p2
    d1 = d1
    Clients = {p1, p2}
    Drones = {}
    BackupTics = 3
    MaxUnacked = 1
    SoloAhead = 1
    MaxAhead = 0
    FirstTic = 8
    MaxTics = 11
    TicMod = 9
    TicLow = 3
    TicHigh = 5
SYMMETRY Symmetry
INVARIANTS
    TicsUnderstood
    AckTruthful
    NothingForgotten
    NothingOverwritten
    NobodySkipped
    NoStandoff
PROPERTY ImplementsLockstep
CHECK_DEADLOCK FALSE
