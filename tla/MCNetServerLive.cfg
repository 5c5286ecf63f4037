SPECIFICATION FairSpec
CONSTANTS
    p1 = p1
    p2 = p2
    p3 = p3
    d1 = d1
    modeA = modeA
    modeB = modeB
    Clients = {p1, d1}
    Drones = {d1}
    ModeOf <- OneMode
    MaxPlayers <- OnePlayer
    BadSettings = {}
    NumSlots = 2
    None = None
PROPERTIES
    StartupEnds
    ServerRecovers
CHECK_DEADLOCK FALSE
