SPECIFICATION FairSpec
CONSTANTS
    ZoneSize = 8
    MinFragment = 1
    Sizes = {2, 3}
    Users = {u1, u2}
    None = None
INVARIANTS
    HeapOK
    OwnersAgree
PROPERTIES
    LevelGone
    CallsEnd
    ImplementsContract
CHECK_DEADLOCK FALSE
