SPECIFICATION Spec
CONSTANTS
    p1 = p1
    p2 = p2
    p3 = p3
    d1 = d1
    modeA = modeA
    modeB = modeB
    Clients = {p1, p2, p3}
    Drones = {}
    ModeOf <- RivalMode
    MaxPlayers <- TwoPlayers
    BadSettings = {p3}
    NumSlots = 2
    None = None
INVARIANTS
    NobodyLeftBehind
    OneGame
    EmptyMeansWaiting
    NumbersArePlaces
    PlayersAgreeOnMode
PROPERTIES
    NumberingFrozen
SYMMETRY Twins
CHECK_DEADLOCK FALSE
