SPECIFICATION Spec
CONSTANTS
    p1 = p1
    p2 = p2
    d1 = d1
    Clients = {p1, p2, d1}
    Drones = {d1}
    BackupTics = 3
    MaxUnacked = 1
    SoloAhead = 1
    MaxAhead = 0
    FirstTic = 0
    MaxTics = 1
    TicMod = 9
    TicLow = 3
    TicHigh = 5
SYMMETRY Symmetry
INVARIANTS
    Lockstep
CHECK_DEADLOCK FALSE
