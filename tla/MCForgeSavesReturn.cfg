CONSTANTS
    Recipes = {r1}
    Slots = {s1, s2}
    None = None
    MaxMade = 2
    MaxQueue = 1
SPECIFICATION Spec

PROPERTY ReturnFlushes
CHECK_DEADLOCK FALSE
