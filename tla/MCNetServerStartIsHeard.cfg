SPECIFICATION Spec
CONSTANTS
    p1 = p1
    p2 = p2
    p3 = p3
    d1 = d1
    modeA = modeA
    modeB = modeB
    Clients = {p1, p2}
    Drones = {}
    ModeOf <- OneMode
    MaxPlayers <- TwoPlayers
    BadSettings = {}
    NumSlots = 2
    None = None
PROPERTIES
    StartIsHeard
CHECK_DEADLOCK FALSE
