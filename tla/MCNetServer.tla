----------------------------- MODULE MCNetServer -----------------------------
(* The lobby: players p1 and p2 of one game, p3 of another, a drone.       *)
EXTENDS NetServer, TLC

CONSTANTS p1, p2, p3, d1, modeA, modeB

Twins == Permutations({p1, p2})
OneMode == [c \in Clients |-> modeA]
RivalMode == [c \in Clients |-> IF c = p3 THEN modeB ELSE modeA]
TwoPlayers == [c \in Clients |-> 2]
OnePlayer == [c \in Clients |-> 1]
=============================================================================
