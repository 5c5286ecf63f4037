SPECIFICATION TapOnlySpec
CONSTANTS
    f1 = f1
    f2 = f2
    fire = fire
    look = look
    menu = menu
    l0 = l0
    l1 = l1
    Pointers = {f1}
    Controls = {fire, look, menu}
    Kind <- KindOf
    Editable = {fire, look, menu}
    Layouts = {l0}
    DefaultLayout = l0
    MaxPulse = 1
    None = None
    Fire = fire
    Look = look
    Menu = menu
    MaxQueue = 2
    RingSize = 6
    MaxAhead = 0
PROPERTY TapIsReleased
CHECK_DEADLOCK FALSE
