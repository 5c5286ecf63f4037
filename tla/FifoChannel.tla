----------------------------- MODULE FifoChannel -----------------------------
(***************************************************************************)
(* What "reliable" promises about a pair of ends: a perfect FIFO channel   *)
(* in each direction.  A message, once sent, waits in the channel until it *)
(* is delivered, exactly once and in the order of the sends.  Nothing says *)
(* that it is delivered: an end may leave first.                           *)
(***************************************************************************)
EXTENDS Integers, Sequences

CONSTANTS Ends, Peer(_)

VARIABLES
    sent,      \* number of messages each end has sent: its messages are 1..sent
    chan,      \* chan[e]: the messages of e on their way to Peer(e)
    got        \* got[e]: the messages e has received

fifoVars == <<sent, chan, got>>

Init ==
    /\ sent = [e \in Ends |-> 0]
    /\ chan = [e \in Ends |-> << >>]
    /\ got = [e \in Ends |-> << >>]

Send(e) ==
    /\ sent' = [sent EXCEPT ![e] = @ + 1]
    /\ chan' = [chan EXCEPT ![e] = Append(@, sent[e] + 1)]
    /\ UNCHANGED got

Deliver(e) ==
    /\ chan[e] # << >>
    /\ got' = [got EXCEPT ![Peer(e)] = Append(@, Head(chan[e]))]
    /\ chan' = [chan EXCEPT ![e] = Tail(@)]
    /\ UNCHANGED sent

Next == \E e \in Ends : Send(e) \/ Deliver(e)

Spec == Init /\ [][Next]_fifoVars
=============================================================================
