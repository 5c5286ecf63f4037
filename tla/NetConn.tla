------------------------------- MODULE NetConn -------------------------------
(***************************************************************************)
(* One connection of the netgame: the client's net_connection_t and the    *)
(* server's, the code both share (net_common.c), and the drivers that call *)
(* it (NET_CL_Connect, NET_CL_Run, NET_CL_Disconnect on one side,          *)
(* NET_SV_Packet, NET_SV_RunClient and NET_SV_Shutdown on the other).      *)
(*                                                                         *)
(* The network is UDP: net holds every packet ever sent, and a delivery    *)
(* leaves it there, so a packet may be lost (never delivered), duplicated  *)
(* (delivered again) and reordered.  The one thing assumed is a bounded    *)
(* lifetime, Fresh: a copy does not survive SeqMod newer messages.         *)
(*                                                                         *)
(* Time is abstracted: a timer (1 s resend, 5 s sleep, 5 s give-up, 30 s   *)
(* silence) may be found expired by any call that tests it.                *)
(***************************************************************************)
EXTENDS Integers, Sequences

CONSTANTS
    SeqMod,      \* sequence numbers are bytes: 256 in the code (& 0xff)
    MaxRetries,  \* MAX_RETRIES: DISCONNECT packets sent before giving up
    MaxMsgs      \* bound: reliable messages one end queues

ASSUME SeqModAssumption == SeqMod \in Nat /\ SeqMod > 1
ASSUME BoundsAssumption == MaxRetries \in Nat /\ MaxMsgs \in Nat \ {0}

Ends == {"client", "server"}
Peer(e) == IF e = "client" THEN "server" ELSE "client"

ConnState == {"CONNECTING", "CONNECTED", "DISCONNECTING", "DISCONNECTED",
              "DISCONNECTED_SLEEP"}
Gone == {"DISCONNECTED", "DISCONNECTED_SLEEP"}
Reason == {"NONE", "LOCAL", "REMOTE", "TIMEOUT"}

VARIABLES
    life,       \* "unborn"; "open" (net_client_connected, client->active);
                \* "closed"
    state,      \* conn->state
    reason,     \* conn->disconnect_reason
    retries,    \* conn->num_retries
    queue,      \* conn->reliable_packets, oldest first: [seq, msg] records
    sendSeq,    \* conn->reliable_send_seq
    recvSeq,    \* conn->reliable_recv_seq
    net,        \* every packet sent so far
    submitted,  \* history: number of reliable messages queued by each end
    delivered   \* history: messages handed to the handlers of each end

vars == <<life, state, reason, retries, queue, sendSeq, recvSeq, net,
          submitted, delivered>>
connVars == <<life, state, reason, retries>>
sendVars == <<queue, sendSeq, submitted>>
recvVars == <<recvSeq, delivered>>

\* A packet's msg is what its wire form does not say: the number, from 1, of
\* the reliable message it carries, or of the messages an ACK covers.
Packet(to, type, seq, msg) == [to |-> to, type |-> type, seq |-> seq, msg |-> msg]
PacketType == {"SYN", "REJECTED", "RELIABLE", "RELIABLE_ACK", "DISCONNECT",
               "DISCONNECT_ACK"}
Plain(to, type) == Packet(to, type, 0, 0)

\* The SYN reply is the server's first reliable message.
SynReply == 1

Acked(e) == submitted[e] - Len(queue[e])

TypeOK ==
    /\ life \in [Ends -> {"unborn", "open", "closed"}]
    /\ state \in [Ends -> ConnState]
    /\ reason \in [Ends -> Reason]
    /\ retries \in [Ends -> 0..MaxRetries]
    /\ queue \in [Ends -> Seq([seq : 0..SeqMod - 1, msg : 1..MaxMsgs])]
    /\ sendSeq \in [Ends -> 0..SeqMod - 1]
    /\ recvSeq \in [Ends -> 0..SeqMod - 1]
    /\ net \subseteq [to : Ends, type : PacketType, seq : 0..SeqMod - 1,
                      msg : 0..MaxMsgs]
    /\ submitted \in [Ends -> 0..MaxMsgs]
    /\ delivered \in [Ends -> Seq(1..MaxMsgs)]

\* NET_CL_Connect has created the client's end; the server knows nothing yet.
Init ==
    /\ life = [e \in Ends |-> IF e = "client" THEN "open" ELSE "unborn"]
    /\ state = [e \in Ends |-> "CONNECTING"]
    /\ reason = [e \in Ends |-> "NONE"]
    /\ retries = [e \in Ends |-> 0]
    /\ queue = [e \in Ends |-> << >>]
    /\ sendSeq = [e \in Ends |-> 0]
    /\ recvSeq = [e \in Ends |-> 0]
    /\ net = {}
    /\ submitted = [e \in Ends |-> 0]
    /\ delivered = [e \in Ends |-> << >>]

-----------------------------------------------------------------------------
(* Connecting: the loop of NET_CL_Connect and NET_SV_ParseSYN.             *)

ClientSendSYN ==
    /\ life["client"] = "open" /\ state["client"] = "CONNECTING"
    /\ net' = net \cup {Plain("server", "SYN")}
    /\ UNCHANGED <<connVars, sendVars, recvVars>>

\* No answer for 5 s: "No response from server".
ClientConnectTimeout ==
    /\ life["client"] = "open" /\ state["client"] = "CONNECTING"
    /\ life' = [life EXCEPT !["client"] = "closed"]
    /\ UNCHANGED <<state, reason, retries, sendVars, recvVars, net>>

\* Mutant: the counter of a byte never wraps.
NewReliableUnwrapped(e) ==
    /\ queue' = [queue EXCEPT ![e] =
                    Append(@, [seq |-> sendSeq[e], msg |-> submitted[e] + 1])]
    /\ sendSeq' = [sendSeq EXCEPT ![e] = @ + 1]
    /\ submitted' = [submitted EXCEPT ![e] = @ + 1]

\* NET_Conn_NewReliable: append to the list, count along the sequence.
NewReliable(e) ==
    /\ queue' = [queue EXCEPT ![e] =
                    Append(@, [seq |-> sendSeq[e], msg |-> submitted[e] + 1])]
    /\ sendSeq' = [sendSeq EXCEPT ![e] = (@ + 1) % SeqMod]
    /\ submitted' = [submitted EXCEPT ![e] = @ + 1]

\* The first SYN creates the server's end and queues the SYN reply.
ServerAcceptSYN ==
    /\ Plain("server", "SYN") \in net
    /\ life["server"] = "unborn"
    /\ life' = [life EXCEPT !["server"] = "open"]
    /\ state' = [state EXCEPT !["server"] = "CONNECTED"]
    /\ NewReliable("server")
    /\ UNCHANGED <<reason, retries, recvVars, net>>

\* The server takes nobody (launched, or full), whether or not it already has
\* this client: the tests come before the one for a duplicate SYN.
ServerRejectSYN ==
    /\ Plain("server", "SYN") \in net
    /\ life["server"] \in {"unborn", "open"}
    /\ net' = net \cup {Plain("client", "REJECTED")}
    /\ UNCHANGED <<connVars, sendVars, recvVars>>

ClientParseReject ==
    /\ Plain("client", "REJECTED") \in net
    /\ life["client"] = "open" /\ state["client"] = "CONNECTING"
    /\ state' = [state EXCEPT !["client"] = "DISCONNECTED"]
    /\ reason' = [reason EXCEPT !["client"] = "REMOTE"]
    /\ UNCHANGED <<life, retries, sendVars, recvVars, net>>

-----------------------------------------------------------------------------
(* NET_Conn_Packet.                                                        *)

\* The network's promise: fewer than SeqMod messages separate a copy from the
\* end it reaches.
Fresh(p) ==
    /\ p.type = "RELIABLE" => Len(delivered[p.to]) - p.msg < SeqMod - 1
    /\ p.type = "RELIABLE_ACK" => (Acked(p.to) + 1) - p.msg < SeqMod

Receives(e, p) == life[e] = "open" /\ p.to = e /\ Fresh(p)

\* Mutant: the packet expected next is handled but not counted.
ReliableInSequenceUncounted(e, p) ==
    /\ Receives(e, p) /\ p.type = "RELIABLE" /\ p.seq = recvSeq[e]
    /\ Len(delivered[e]) < 2 * MaxMsgs  \* bound: a duplicate is handled again
    /\ delivered' = [delivered EXCEPT ![e] = Append(@, p.msg)]
    /\ net' = net \cup {Packet(Peer(e), "RELIABLE_ACK", (recvSeq[e] + 1) % SeqMod, p.msg)}
    /\ state' = IF e = "client" /\ p.msg = SynReply
                THEN [state EXCEPT !["client"] = "CONNECTED"] ELSE state
    /\ UNCHANGED <<life, reason, retries, recvSeq, sendVars>>

\* NET_Conn_ReliablePacket: an unexpected packet is discarded, and any packet
\* is answered with the next sequence number expected.
ReliableInSequence(e, p) ==
    /\ Receives(e, p) /\ p.type = "RELIABLE" /\ p.seq = recvSeq[e]
    /\ recvSeq' = [recvSeq EXCEPT ![e] = (@ + 1) % SeqMod]
    /\ delivered' = [delivered EXCEPT ![e] = Append(@, p.msg)]
    /\ net' = net \cup {Packet(Peer(e), "RELIABLE_ACK", (recvSeq[e] + 1) % SeqMod,
                               Len(delivered[e]) + 1)}
    \* NET_CL_ParseSYN does not look at the state it replaces
    /\ state' = IF e = "client" /\ p.msg = SynReply
                THEN [state EXCEPT !["client"] = "CONNECTED"] ELSE state
    /\ UNCHANGED <<life, reason, retries, sendVars>>

ReliableOutOfSequence(e, p) ==
    /\ Receives(e, p) /\ p.type = "RELIABLE" /\ p.seq # recvSeq[e]
    /\ net' = net \cup {Packet(Peer(e), "RELIABLE_ACK", recvSeq[e],
                               Len(delivered[e]))}
    /\ UNCHANGED <<connVars, sendVars, recvVars>>

\* Mutant: an ACK is expected to name the message, not the one after it.
ParseReliableACKOffByOne(e, p) ==
    /\ Receives(e, p) /\ p.type = "RELIABLE_ACK"
    /\ queue[e] # << >>
    /\ p.seq = Head(queue[e]).seq
    /\ queue' = [queue EXCEPT ![e] = Tail(@)]
    /\ UNCHANGED <<connVars, recvVars, net, sendSeq, submitted>>

ParseReliableACK(e, p) ==
    /\ Receives(e, p) /\ p.type = "RELIABLE_ACK"
    /\ queue[e] # << >>
    /\ p.seq = (Head(queue[e]).seq + 1) % SeqMod
    /\ queue' = [queue EXCEPT ![e] = Tail(@)]
    /\ UNCHANGED <<connVars, recvVars, net, sendSeq, submitted>>

\* In any state; a closed end no longer answers.
ParseDisconnect(e, p) ==
    /\ Receives(e, p) /\ p.type = "DISCONNECT"
    /\ net' = net \cup {Plain(Peer(e), "DISCONNECT_ACK")}
    /\ state' = [state EXCEPT ![e] = "DISCONNECTED_SLEEP"]
    /\ reason' = [reason EXCEPT ![e] = "REMOTE"]
    /\ UNCHANGED <<life, retries, sendVars, recvVars>>

ParseDisconnectACK(e, p) ==
    /\ Receives(e, p) /\ p.type = "DISCONNECT_ACK"
    /\ state[e] = "DISCONNECTING"
    /\ state' = [state EXCEPT ![e] = "DISCONNECTED"]
    /\ reason' = [reason EXCEPT ![e] = "LOCAL"]
    /\ UNCHANGED <<life, retries, sendVars, recvVars, net>>

Receive(e, p) ==
    \/ ReliableInSequence(e, p)
    \/ ReliableOutOfSequence(e, p)
    \/ ParseReliableACK(e, p)
    \/ ParseDisconnect(e, p)
    \/ ParseDisconnectACK(e, p)

-----------------------------------------------------------------------------
(* NET_Conn_Run and what its callers do next.                              *)

Connected(e) == life[e] = "open" /\ state[e] = "CONNECTED"

HeadPacket(e) == Packet(Peer(e), "RELIABLE", Head(queue[e]).seq, Head(queue[e]).msg)

\* Send the oldest unacknowledged message, for the first time or again.
RunResend(e) ==
    /\ Connected(e) /\ queue[e] # << >>
    /\ net' = net \cup {HeadPacket(e)}
    /\ UNCHANGED <<connVars, sendVars, recvVars>>

\* Mutant: silence counts only while an ACK is outstanding.
RunTimeoutIfUnacked(e) ==
    /\ Connected(e) /\ queue[e] # << >>
    /\ state' = [state EXCEPT ![e] = "DISCONNECTED"]
    /\ reason' = [reason EXCEPT ![e] = "TIMEOUT"]
    /\ life' = [life EXCEPT ![e] = "closed"]
    /\ \/ net' = net \cup {HeadPacket(e)}
       \/ net' = net
    /\ UNCHANGED <<retries, sendVars, recvVars>>

\* 30 s of silence.  The call goes on to the resend test, and the caller
\* closes the end.
RunTimeout(e) ==
    /\ Connected(e)
    /\ state' = [state EXCEPT ![e] = "DISCONNECTED"]
    /\ reason' = [reason EXCEPT ![e] = "TIMEOUT"]
    /\ life' = [life EXCEPT ![e] = "closed"]
    /\ \/ queue[e] # << >> /\ net' = net \cup {HeadPacket(e)}
       \/ net' = net
    /\ UNCHANGED <<retries, sendVars, recvVars>>

\* Mutant: DISCONNECT is sent until it is acknowledged.
RunDisconnectingForever(e) ==
    /\ life[e] = "open" /\ state[e] = "DISCONNECTING"
    /\ net' = net \cup {Plain(Peer(e), "DISCONNECT")}
    /\ retries' = [retries EXCEPT ![e] = IF @ < MaxRetries THEN @ + 1 ELSE @]
    /\ UNCHANGED <<life, state, reason, sendVars, recvVars>>

RunDisconnecting(e) ==
    /\ life[e] = "open" /\ state[e] = "DISCONNECTING"
    /\ IF retries[e] < MaxRetries
       THEN /\ net' = net \cup {Plain(Peer(e), "DISCONNECT")}
            /\ retries' = [retries EXCEPT ![e] = @ + 1]
            /\ UNCHANGED <<life, state, reason>>
       ELSE /\ state' = [state EXCEPT ![e] = "DISCONNECTED"]
            /\ reason' = [reason EXCEPT ![e] = "LOCAL"]
            /\ life' = [life EXCEPT ![e] = "closed"]
            /\ UNCHANGED <<net, retries>>
    /\ UNCHANGED <<sendVars, recvVars>>

\* The server's end sleeps for 5 s; NET_CL_Run closes the client's at once.
RunSleep(e) ==
    /\ life[e] = "open" /\ state[e] = "DISCONNECTED_SLEEP"
    /\ \/ state' = [state EXCEPT ![e] = "DISCONNECTED"]
       \/ e = "client" /\ UNCHANGED state
    /\ life' = [life EXCEPT ![e] = "closed"]
    /\ UNCHANGED <<reason, retries, sendVars, recvVars, net>>

\* An ACK or a REJECTED packet has ended the connection since the last run.
RunDisconnected(e) ==
    /\ life[e] = "open" /\ state[e] = "DISCONNECTED"
    /\ life' = [life EXCEPT ![e] = "closed"]
    /\ UNCHANGED <<state, reason, retries, sendVars, recvVars, net>>

Run(e) ==
    \/ RunResend(e) \/ RunTimeout(e) \/ RunDisconnecting(e)
    \/ RunSleep(e) \/ RunDisconnected(e)

-----------------------------------------------------------------------------
(* The game above the connection.                                          *)

\* LAUNCH, GAMESTART, CONSOLE_MESSAGE.
Submit(e) ==
    /\ Connected(e) /\ submitted[e] < MaxMsgs
    /\ NewReliable(e)
    /\ UNCHANGED <<connVars, recvVars, net>>

\* Mutant: a client that is still connecting may hang up.
DisconnectInAnyState(e) ==
    /\ life[e] = "open" /\ state[e] \in {"CONNECTING", "CONNECTED"}
    /\ state' = [state EXCEPT ![e] = "DISCONNECTING"]
    /\ reason' = [reason EXCEPT ![e] = "LOCAL"]
    /\ retries' = [retries EXCEPT ![e] = 0]
    /\ UNCHANGED <<life, sendVars, recvVars>>
    /\ UNCHANGED net

\* NET_Conn_Disconnect.  NET_CL_Disconnect, NET_SV_GameEnded and
\* NET_SV_Shutdown call it; an end that is CONNECTING is inside
\* NET_CL_Connect, which does not.
Disconnect(e) ==
    /\ Connected(e)
    /\ state' = [state EXCEPT ![e] = "DISCONNECTING"]
    /\ reason' = [reason EXCEPT ![e] = "LOCAL"]
    /\ retries' = [retries EXCEPT ![e] = 0]
    /\ UNCHANGED <<life, sendVars, recvVars, net>>

\* NET_CL_Disconnect and NET_SV_Shutdown wait 5 s at most.
GiveUpDisconnecting(e) ==
    /\ life[e] = "open" /\ state[e] = "DISCONNECTING"
    /\ life' = [life EXCEPT ![e] = "closed"]
    /\ UNCHANGED <<state, reason, retries, sendVars, recvVars, net>>

\* The process is killed: nothing is sent.
Crash(e) ==
    /\ life[e] = "open"
    /\ life' = [life EXCEPT ![e] = "closed"]
    /\ UNCHANGED <<state, reason, retries, sendVars, recvVars, net>>

Next ==
    \/ ClientSendSYN \/ ClientConnectTimeout \/ ClientParseReject
    \/ ServerAcceptSYN \/ ServerRejectSYN
    \/ \E e \in Ends :
         \/ \E p \in net : Receive(e, p)
         \/ Run(e)
         \/ Submit(e) \/ Disconnect(e) \/ GiveUpDisconnecting(e) \/ Crash(e)

Spec == Init /\ [][Next]_vars

\* NET_CL_Run and NET_SV_Run are called on every turn of the main loops and a
\* timer of real time expires; a packet sent again and again gets through.
\* Nothing is said of the game's own decisions, of crashes, or of the silence
\* timeout while the peer is alive.
Fairness ==
    /\ WF_vars(ClientSendSYN) /\ WF_vars(ClientConnectTimeout)
    /\ \A e \in Ends :
         /\ WF_vars(\E p \in net : ReliableInSequence(e, p))
         /\ WF_vars(\E p \in net : ParseReliableACK(e, p))
         /\ WF_vars(RunResend(e))
         /\ WF_vars(RunDisconnecting(e) \/ RunSleep(e) \/ RunDisconnected(e))
         \* a closed peer sends nothing that could put the timeout off
         /\ WF_vars(life[Peer(e)] = "closed" /\ RunTimeout(e))

FairSpec == Spec /\ Fairness

-----------------------------------------------------------------------------
(* Properties.                                                             *)

\* Whatever is lost, duplicated or reordered, an end hands to its handlers
\* exactly the messages 1, 2, 3, ... of its peer: none twice, none skipped.
\* A LAUNCH or GAMESTART handled twice would restart a running game.
InOrderOnce ==
    \A e \in Ends : \A i \in 1..Len(delivered[e]) : delivered[e][i] = i

\* A message leaves the sender's list only after the peer's handlers had it:
\* an ACK of an older message is never taken for one of the newest.
NoneLost ==
    \A e \in Ends : Acked(e) <= Len(delivered[Peer(e)])

\* Why: the numbers on the wire are the counts modulo SeqMod, the list holds
\* the messages Acked + 1, Acked + 2, ..., and the two ends are never more than
\* one message apart, so a fresh packet's byte tells its number.
Counters ==
    \A e \in Ends : /\ sendSeq[e] = submitted[e] % SeqMod
                    /\ recvSeq[e] = Len(delivered[e]) % SeqMod
QueueNumbered ==
    \A e \in Ends :
        /\ Len(queue[e]) <= submitted[e]
        /\ \A i \in 1..Len(queue[e]) :
             /\ queue[e][i].msg = Acked(e) + i
             /\ queue[e][i].seq = (Acked(e) + i - 1) % SeqMod
Window ==
    \A e \in Ends : /\ Acked(e) <= Len(delivered[Peer(e)])
                    /\ Len(delivered[Peer(e)]) <= Acked(e) + 1
                    /\ Len(delivered[Peer(e)]) <= submitted[e]
InFlight ==
    \A p \in net :
        /\ p.type = "RELIABLE" =>
             /\ p.msg >= 1 /\ p.msg <= Acked(Peer(p.to)) + 1
             /\ p.msg <= submitted[Peer(p.to)]
             /\ p.seq = (p.msg - 1) % SeqMod
        /\ p.type = "RELIABLE_ACK" =>
             p.msg <= Len(delivered[Peer(p.to)]) /\ p.seq = p.msg % SeqMod
Unborn == life["server"] = "unborn" => submitted["server"] = 0
StopAndWait == Unborn /\ Counters /\ QueueNumbered /\ Window /\ InFlight /\ InOrderOnce

\* An end that believes its peer hung up is right: the peer did call
\* NET_Conn_Disconnect (or has itself been told so), unless the server
\* rejected the client.
Left(e) == life[e] = "closed" \/ state[e] \in Gone \cup {"DISCONNECTING"}
RemoteMeansPeerLeft ==
    \A e \in Ends :
        state[e] \in Gone /\ reason[e] = "REMOTE" =>
            Left(Peer(e)) \/ Plain(e, "REJECTED") \in net

\* Why: a DISCONNECT in flight means that its sender is leaving and stays so.
\* Only a client that has not had its SYN reply can come back, and such a
\* client cannot have hung up.
HangUp ==
    /\ \A p \in net : p.type = "DISCONNECT" =>
         /\ state[Peer(p.to)] \in Gone \cup {"DISCONNECTING"}
         /\ p.to = "server" => delivered["client"] # << >>
    /\ state["client"] \in {"CONNECTED", "DISCONNECTING"} => delivered["client"] # << >>
    /\ life["server"] = "unborn" => state["server"] = "CONNECTING"
    /\ \A e \in Ends : reason[e] = "REMOTE" /\ state[e] \in Gone =>
         \/ \E p \in net : p.type = "DISCONNECT" /\ p.to = e
         \/ Plain(e, "REJECTED") \in net

\* The messages on their way: those queued that the peer has not had yet.
Pending(e) ==
    LET had == Len(delivered[Peer(e)]) - Acked(e)
    IN  [i \in 1..Len(queue[e]) - had |-> queue[e][i + had].msg]

\* Stop-and-wait over a network that loses, duplicates and reorders
\* implements a perfect FIFO channel in each direction.
Fifo == INSTANCE FifoChannel
            WITH sent <- submitted, got <- delivered,
                 chan <- [e \in Ends |-> Pending(e)]
ImplementsFifo == Fifo!Spec

\* While both ends stay connected, every message queued is delivered: neither
\* end waits forever for an ACK the other never sends again.
BothUp == \A e \in Ends : Connected(e)
DeliveredWhileUp ==
    \A e \in Ends : \A n \in 1..MaxMsgs :
        submitted[e] >= n ~> (Len(delivered[Peer(e)]) >= n \/ ~BothUp)

\* A hang-up ends: whatever packets are lost and even when both hang up at
\* once, an end that started to disconnect is closed in the end.
HangUpEnds ==
    \A e \in Ends :
        (life[e] = "open" /\ state[e] = "DISCONNECTING") ~> life[e] = "closed"

\* No half-open connection: when one end is closed, in whatever way, the
\* other does not stay open for ever (a slot of the server is freed).
NoHalfOpen ==
    \A e \in Ends : life[e] = "closed" ~> [](life[Peer(e)] # "open")
=============================================================================
