------------------------------ MODULE MCNetConn ------------------------------
(* NetConn for TLC: the constants are given values by the .cfg files.      *)
EXTENDS NetConn
=============================================================================
