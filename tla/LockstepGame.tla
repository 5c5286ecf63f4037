----------------------------- MODULE LockstepGame -----------------------------
(***************************************************************************)
(* What the exchange of ticcmds promises the game (d_loop.c): every client *)
(* runs one tic after another, each with a ticcmd of every player that is  *)
(* still in the game, and only with ticcmds that were made.  There is no   *)
(* network, no server and no window here.                                  *)
(***************************************************************************)
EXTENDS Integers, Sequences

CONSTANTS
    Clients,
    Drones,    \* clients that make no ticcmds
    MaxAhead,  \* how far a player makes ticcmds ahead of its game
    FirstTic   \* tics that everybody has run at first

VARIABLES
    in,    \* the players that are in the game
    made,  \* made[c]: ticcmds that c has made, for the tics 0..made[c] - 1
    seen   \* seen[c]: the tics that c has run, each the other players in it

gameVars == <<in, made, seen>>

Players == Clients \ Drones

Init ==
    /\ in = Players
    /\ made = [c \in Clients |-> IF c \in Drones THEN 0 ELSE FirstTic]
    /\ seen = [c \in Clients |-> [t \in 1..FirstTic |-> Players \ {c}]]

\* A player reads its controls, at most MaxAhead tics ahead of what it sees.
Make(p) ==
    /\ made[p] - Len(seen[p]) <= MaxAhead
    /\ made' = [made EXCEPT ![p] = @ + 1]
    /\ UNCHANGED <<in, seen>>

\* A tic is run when all that are in the game have made their ticcmds for it.
\* Of those that have left, some may be in it.
Run(c) ==
    LET tic == Len(seen[c]) IN
    /\ c \in Players => made[c] > tic
    /\ \E others \in SUBSET (Players \ {c}) :
         /\ in \ {c} \subseteq others
         /\ \A p \in others : made[p] > tic
         /\ seen' = [seen EXCEPT ![c] = Append(@, others)]
    /\ UNCHANGED <<in, made>>

\* Players leave the game, together or alone, and never come back.
Leave(some) ==
    /\ some \subseteq in
    /\ in' = in \ some
    /\ UNCHANGED <<made, seen>>

Next ==
    \/ \E some \in SUBSET in : Leave(some)
    \/ \E p \in Players : Make(p)
    \/ \E c \in Clients : Run(c)

Spec == Init /\ [][Next]_gameVars
=============================================================================
