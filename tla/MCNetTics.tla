------------------------------ MODULE MCNetTics ------------------------------
(* A game of two players, or of two players and a drone.                   *)
EXTENDS NetTics, TLC

CONSTANTS p1, p2, d1

Symmetry == Permutations(Players)
=============================================================================
