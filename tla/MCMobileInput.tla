--------------------------- MODULE MCMobileInput ---------------------------
(* The shell's controls, for TLC. *)
EXTENDS MobileInput, TLC

CONSTANTS f1, f2, fire, look, menu, l0, l1

KindOf == (fire :> "hold") @@ (look :> "relative1d") @@ (menu :> "pulse")
(* A player who never touches the FIRE button itself and is not interrupted. *)
TapOnly ==
    /\ Next
    /\ ~active'[fire]
    /\ ~(Interrupt \/ PickProfile \/ EditToggle \/ ResetControls)
TapOnlySpec == Init /\ [][TapOnly]_vars
=============================================================================
