SPECIFICATION FairSpec
CONSTANTS
    BackupTics = 3
    MaxUnacked = 1
    MaxAhead = 0
    ExtraTics = 0
    DeadlockTics = 0
    Slots = 1
    MaxTics = 2
INVARIANTS
    HolesAsked
    RequestsWhole
    NoDeadEnd
PROPERTY
    GameGoesOn
CHECK_DEADLOCK FALSE
