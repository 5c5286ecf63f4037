CONSTANTS
    Recipes = {r1}
    Slots = {s1, s2}
    None = None
    MaxMade = 2
    MaxQueue = 1
SPECIFICATION FairSpec
INVARIANTS TypeOK ClearedStaysCleared
PROPERTIES NeverOlder SavedEventually
CHECK_DEADLOCK FALSE
