SPECIFICATION FairSpec
CONSTANTS
    f1 = f1
    f2 = f2
    fire = fire
    look = look
    menu = menu
    l0 = l0
    l1 = l1
    Pointers = {f1, f2}
    Controls = {fire, look, menu}
    Kind <- KindOf
    Editable = {fire, look, menu}
    Layouts = {l0}
    DefaultLayout = l0
    MaxPulse = 1
    None = None
    Fire = fire
    Look = look
    Menu = menu
    MaxQueue = 2
    RingSize = 6
    MaxAhead = 0
INVARIANTS
    Ownership
    NoStuckKey
    HeldForAReason
    NoTapInEditor
PROPERTIES
    TapShoots
    LiftedLetsGo
CHECK_DEADLOCK FALSE
