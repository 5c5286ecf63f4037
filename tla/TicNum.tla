-------------------------------- MODULE TicNum --------------------------------
(***************************************************************************)
(* The wire carries one byte of a tic number; NET_ExpandTicNum finds the   *)
(* rest from a number that the receiver knows to be near (net_common.c).   *)
(* The code's arithmetic is unsigned: a result below 0 stands for one that *)
(* is far beyond every window, as it is there.                             *)
(***************************************************************************)
EXTENDS Integers

CONSTANTS
    TicMod,   \* 256: numbers in a byte
    TicLow,   \* 0x40
    TicHigh   \* 0xb0

ASSUME TicNumAssumption ==
    /\ TicMod \in Nat /\ TicLow \in Nat /\ TicHigh \in Nat
    /\ TicLow > 0 /\ TicLow + TicHigh < TicMod /\ 2 * TicLow < TicHigh + 2

TicByte(tic) == tic % TicMod

\* Mutant: no byte is taken for one of the next 256.
ExpandTicNumUnwrapped(relative, b) ==
    LET l == relative % TicMod
    IN  (relative - l) + b - (IF l < TicLow /\ b > TicHigh THEN TicMod ELSE 0)

ExpandTicNum(relative, b) ==
    LET l == relative % TicMod
        h == relative - l
    IN  CASE l < TicLow /\ b > TicHigh -> h + b - TicMod
          [] l > TicHigh /\ b < TicLow -> h + b + TicMod
          [] OTHER -> h + b
=============================================================================
