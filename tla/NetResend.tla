------------------------------ MODULE NetResend ------------------------------
(***************************************************************************)
(* How a running game gets over lost packets: one player of a game, the    *)
(* server, and a link between them that loses and reorders.  Tics that are *)
(* missing are asked for when a later one comes (ParseGameData), again     *)
(* when the request has not been answered for 300 ms (CheckResends), and   *)
(* once a second when nothing comes any more (CheckDeadlock,               *)
(* maybe_deadlocked).  The time a mark was set is abstracted: any set of   *)
(* marks may have expired when a check is made.                            *)
(*                                                                         *)
(* The other player of the game has a perfect link: it has made every tic  *)
(* it may make, and acknowledged all it has been sent.  Tic numbers are    *)
(* whole here: see TicsUnderstood in NetTics.                              *)
(***************************************************************************)
EXTENDS Integers, FiniteSets

CONSTANTS
    BackupTics,     \* BACKUPTICS, 128
    MaxUnacked,     \* 40
    MaxAhead,       \* 8
    ExtraTics,      \* settings.extratics
    DeadlockTics,   \* 5: tics CheckDeadlock asks for after the first
    Slots,          \* bound: packets of one kind that are on their way
    MaxTics         \* bound: tics of the game

ASSUME ResendAssumption ==
    /\ BackupTics \in Nat /\ BackupTics > 1 /\ MaxUnacked \in Nat /\ MaxAhead \in Nat
    /\ ExtraTics \in Nat /\ DeadlockTics \in Nat
    /\ Slots \in Nat \ {0} /\ MaxTics \in Nat

\* The send queues hold all that may be waiting for an acknowledgement.
ASSUME KeptAssumption == MaxUnacked + 1 <= BackupTics /\ 2 * MaxAhead + 2 <= BackupTics

VARIABLES
    start,      \* recvwindow_start of the server
    have,       \* tics of the player active in its window
    asked,      \* tics of the player with a resend_time there
    sendseq,    \* full tics made for the player
    acked,      \* client->acknowledged
    cstart,     \* recvwindow_start of the client
    chave,      \* full tics active in its window
    casked,     \* tics with a resend_time there
    needAck,    \* need_to_acknowledge
    maketic,
    gametic,
    wire        \* packets on their way

serverVars == <<start, have, asked, sendseq, acked>>
clientVars == <<cstart, chave, casked, needAck, maketic, gametic>>
vars == <<serverVars, clientVars, wire>>

Smaller(a, b) == IF a < b THEN a ELSE b
Larger(a, b) == IF a < b THEN b ELSE a
Window(first) == first..first + BackupTics - 1
From(first, S) == {t \in S : t >= first}

\* Packets, up to the server or down to the client: game data, and requests to
\* send it again.  A GAMEDATA_ACK is game data that carries no tic.
Kinds == {"upGame", "upResend", "downGame", "downResend"}
Packet(kind, first, last, ack) == [kind |-> kind, first |-> first, last |-> last, ack |-> ack]
Carried(m) == m.first..m.last

Init ==
    /\ start = 0 /\ have = {} /\ asked = {} /\ sendseq = 0 /\ acked = 0
    /\ cstart = 0 /\ chave = {} /\ casked = {} /\ needAck = FALSE
    /\ maketic = 0 /\ gametic = 0
    /\ wire = {}

\* What the link may make of the packets of one call: it holds Slots packets of
\* a kind, and loses those that find it full (Lose may make room before).
OfKind(S, k) == {m \in S : m.kind = k}
Fits(S) == \A k \in Kinds : Cardinality(OfKind(S, k)) <= Slots
Sent(w, ps) ==
    IF Fits(w \cup ps) THEN {w \cup ps}
    ELSE LET held == {w \cup S : S \in {T \in SUBSET ps : Fits(w \cup T)}}
         IN  {S \in held : \A T \in held : S \subseteq T => S = T}

Lose(m) ==
    /\ UNCHANGED <<serverVars, clientVars>>
    /\ wire' = wire \ {m}

-----------------------------------------------------------------------------
(* What both ends do alike.                                                *)

\* The run of tics before seq that have neither come nor been asked for; the
\* scan goes down from seq and stops at the first that has.
Unasked(held, marks, first, end) ==
    {t \in first..end - 1 : \A u \in t..end - 1 : u \notin held /\ u \notin marks}
\* Mutant: never asks for the first tic of the window.
MissingRunOffByOne(first, held, marks, seq) ==
    Unasked(held, marks, first + 1, Smaller(seq, first + BackupTics - 1))
\* The scan of NET_CL_ParseGameData and NET_SV_ParseGameData.
MissingRun(first, held, marks, seq) ==
    Unasked(held, marks, first, Smaller(seq, first + BackupTics - 1))

\* The runs of consecutive tics that CheckResends asks for, one request each.
Runs(S) ==
    {r \in S \X S : /\ r[1] <= r[2] /\ r[1]..r[2] \subseteq S
                    /\ r[1] - 1 \notin S /\ r[2] + 1 \notin S}
Requests(kind, S) == {Packet(kind, r[1], r[2], 0) : r \in Runs(S)}

-----------------------------------------------------------------------------
(* The client.                                                             *)

SendTics(first, last) == Packet("upGame", Larger(first, 0), last, cstart)

\* BuildNewTic and NET_CL_SendTiccmd.
BuildNewTic ==
    /\ maketic - gametic <= MaxAhead /\ maketic < MaxTics
    /\ UNCHANGED <<serverVars, cstart, chave, casked, gametic>>
    /\ maketic' = maketic + 1
    /\ needAck' = FALSE
    /\ wire' \in Sent(wire, {SendTics(maketic - ExtraTics, maketic)})

\* One turn of the loop of TryRunTics.
RunTic ==
    /\ gametic < Smaller(maketic, cstart)
    /\ UNCHANGED <<serverVars, cstart, chave, casked, needAck, maketic, wire>>
    /\ gametic' = gametic + 1

\* NET_CL_ParseGameData.
ClientParseGameData(m) ==
    LET now == chave \cup (Window(cstart) \cap Carried(m))
        run == MissingRun(cstart, now, casked, m.first)
    IN  /\ UNCHANGED <<serverVars, cstart, maketic, gametic>>
        /\ chave' = now
        /\ needAck' = TRUE
        /\ casked' = casked \cup run
        /\ wire' \in Sent(wire \ {m}, Requests("upResend", run))

\* NET_CL_ParseResendRequest: what is asked for is cut to what send_queue has.
ClientParseResendRequest(m) ==
    LET w == wire \ {m}
        first == Larger(m.first, maketic - BackupTics)
        last == Smaller(m.last, maketic - 1)
    IN  /\ IF first <= last
             THEN wire' \in Sent(w, {SendTics(first, last)}) /\ needAck' = FALSE
             ELSE wire' = w /\ UNCHANGED needAck
        /\ UNCHANGED <<serverVars, cstart, chave, casked, maketic, gametic>>

\* Mutant: asks for a few tics, as the comment there says.
ForcedResendFew(next, deadlocked) ==
    {t \in next..next + 1 : deadlocked /\ t \notin chave \cup casked}
\* What NET_CL_CheckResends asks for although no request has expired, when no
\* game data has come for a second.
ForcedResend(next, deadlocked) ==
    {t \in {next} : deadlocked /\ t \notin casked}

\* What follows the packets in NET_CL_Run: NET_CL_AdvanceWindow and
\* NET_CL_CheckResends.  Expired are marks 300 ms old; due, an acknowledgement
\* owed for 200 ms.
ClientRun(expired, deadlocked, due) ==
    \E next \in cstart..cstart + BackupTics :
      LET again == (From(next, expired) \ chave) \cup ForcedResend(next, deadlocked)
          acks == IF needAck /\ due THEN {Packet("upGame", 0, -1, next)} ELSE {}
      IN  /\ UNCHANGED <<serverVars, maketic, gametic>>
          /\ cstart..next - 1 \subseteq chave /\ next \notin chave
          /\ cstart' = next
          /\ chave' = From(next, chave)
          /\ casked' = From(next, casked) \cup again
          /\ needAck' = (needAck /\ ~due)
          /\ wire' \in Sent(wire, Requests("upResend", again) \cup acks)

-----------------------------------------------------------------------------
(* The server.                                                             *)

\* The first tic of the player that has not come.
Expected == CHOOSE t \in start..start + BackupTics :
                t \notin have /\ start..t - 1 \subseteq have

\* The other player, on its perfect link, has run every tic that came.
OtherHas(tic) == tic <= Expected + MaxAhead /\ tic < MaxTics
AllAcknowledged(tic) == acked >= tic /\ Expected >= tic

\* NET_SV_ParseGameData.
ServerParseGameData(m) ==
    LET now == have \cup (Window(start) \cap Carried(m))
        run == MissingRun(start, now, asked, m.first)
    IN  /\ UNCHANGED <<start, sendseq, clientVars>>
        /\ have' = now
        /\ acked' = Larger(acked, m.ack)
        /\ asked' = asked \cup run
        /\ wire' \in Sent(wire \ {m}, Requests("downResend", run))

ServerParseGameDataACK(m) ==
    /\ acked' = Larger(acked, m.ack)
    /\ wire' = wire \ {m}
    /\ UNCHANGED <<start, have, asked, sendseq, clientVars>>

\* NET_SV_ParseResendRequest: all that is asked for, or nothing.
InQueue == {t \in 0..sendseq - 1 : t >= sendseq - BackupTics}
ServerParseResendRequest(m) ==
    LET w == wire \ {m}
    IN  /\ UNCHANGED <<serverVars, clientVars>>
        /\ IF Carried(m) \subseteq InQueue
             THEN wire' \in Sent(w, {Packet("downGame", m.first, m.last, 0)}) ELSE wire' = w

\* Mutant: no tic goes out before it has been acknowledged.
CanPumpAcknowledged ==
    /\ AllAcknowledged(sendseq + 1)
    /\ sendseq \in Window(start)
    /\ OtherHas(sendseq)
CanPump ==
    /\ AllAcknowledged(sendseq - MaxUnacked)
    /\ sendseq \in Window(start)
    /\ OtherHas(sendseq)

CanAdvance(tic) == tic \in have /\ AllAcknowledged(tic + 1)

\* Mutant: not the tic that is awaited.
DeadlockRunAfter == Expected + 1..Expected + 1 + DeadlockTics
\* The tics NET_SV_CheckDeadlock asks for.
DeadlockRun == Expected..Expected + DeadlockTics

\* What follows the packets in NET_SV_Run: NET_SV_PumpSendQueue and
\* NET_SV_CheckDeadlock for the player, NET_SV_AdvanceWindow and
\* NET_SV_CheckResends.  Silent is a second without a tic of the player.
ServerRun(expired, silent) ==
    LET made == IF CanPump THEN sendseq + 1 ELSE sendseq
        pumped == IF CanPump
                    THEN {Packet("downGame", Larger(sendseq - ExtraTics, 0), sendseq, 0)} ELSE {}
        stuck == silent /\ Expected \in Window(start)
        ahead == IF stuck THEN DeadlockRun ELSE {}
        repeated == IF stuck /\ made > acked
                      THEN {Packet("downGame", acked, made - 1, 0)} ELSE {}
    IN  \E next \in start..start + BackupTics :
          LET again == From(next, expired) \ (have \cup ahead)
          IN  /\ UNCHANGED <<acked, clientVars>>
              /\ \A tic \in start..next - 1 : CanAdvance(tic)
              /\ ~CanAdvance(next)
              /\ sendseq' = made
              /\ start' = next
              /\ have' = From(next, have)
              /\ asked' = From(next, asked \cup (ahead \cap Window(start)))
              /\ wire' \in Sent(wire, pumped \cup repeated \cup Requests("downResend", ahead)
                                           \cup Requests("downResend", again))

-----------------------------------------------------------------------------

Deliver(kind) ==
    \E m \in OfKind(wire, kind) :
        CASE kind = "upGame" /\ Carried(m) = {} -> ServerParseGameDataACK(m)
          [] kind = "upGame" /\ Carried(m) # {} -> ServerParseGameData(m)
          [] kind = "upResend" -> ServerParseResendRequest(m)
          [] kind = "downGame" -> ClientParseGameData(m)
          [] kind = "downResend" -> ClientParseResendRequest(m)

Next ==
    /\ gametic < MaxTics
    /\ \/ BuildNewTic \/ RunTic
       \/ \E expired \in SUBSET casked, deadlocked, due \in BOOLEAN :
            ClientRun(expired, deadlocked, due)
       \/ \E expired \in SUBSET asked, silent \in BOOLEAN : ServerRun(expired, silent)
       \/ \E kind \in Kinds : Deliver(kind)
       \/ \E m \in wire : Lose(m)

Spec == Init /\ [][Next]_vars

\* The main loops go on; a second without game data comes again and again
\* unless game data comes again and again; and of the packets of a kind that
\* are sent again and again, some get through.
Heard(kind) == []<><<Deliver(kind)>>_vars
Fairness ==
    /\ WF_vars(BuildNewTic \/ RunTic)
    /\ WF_vars(ClientRun(casked, FALSE, TRUE)) /\ WF_vars(ServerRun(asked, FALSE))
    /\ WF_vars(ClientRun(casked, TRUE, TRUE)) \/ Heard("downGame")
    /\ WF_vars(ServerRun(asked, TRUE)) \/ Heard("upGame")
    /\ \A kind \in Kinds : []<>(OfKind(wire, kind) # {}) => Heard(kind)

FairSpec == Spec /\ Fairness

-----------------------------------------------------------------------------
(* Properties.                                                             *)

TypeOK ==
    /\ start \in Nat /\ have \subseteq Window(start) /\ asked \subseteq Window(start)
    /\ sendseq \in Nat /\ acked \in Nat
    /\ cstart \in Nat /\ chave \subseteq Window(cstart) /\ casked \subseteq Window(cstart)
    /\ needAck \in BOOLEAN /\ maketic \in 0..MaxTics /\ gametic \in 0..MaxTics
    /\ Fits(wire)

\* A tic that is missing before one that has come has been asked for, at both
\* ends: CheckResends will ask again, and the scan of ParseGameData may stop at
\* the first tic that has a mark.
HolesAsked ==
    /\ \A t \in have : start..t - 1 \subseteq have \cup asked
    /\ \A t \in chave : cstart..t - 1 \subseteq chave \cup casked

\* NET_SV_ParseResendRequest answers a request only if it has all of it, so no
\* request may mix tics that have been made with one that has not.
RequestsWhole ==
    \A m \in OfKind(wire, "upResend") : m.last < sendseq \/ m.first = m.last

\* What may be asked for can still be sent again: the client has the next tic that the
\* server lacks in its send queue, and the server the next that the client lacks, and
\* all that CheckDeadlock repeats (NET_SV_SendTics would end the program without it).
StillKept ==
    /\ Expected < maketic => Expected >= maketic - BackupTics
    /\ cstart < sendseq => cstart \in InQueue
    /\ acked..sendseq - 1 \subseteq InQueue

\* Whatever was lost, and with nothing under way, one end has something to do: a tic is
\* built, run, sent or done with, or the server lacks a tic or an acknowledgement and its
\* CheckDeadlock, which looks at its window only, sees that.
NoDeadEnd ==
    gametic < MaxTics =>
        \/ maketic - gametic <= MaxAhead /\ maketic < MaxTics
        \/ gametic < Smaller(maketic, cstart)
        \/ CanPump \/ CanAdvance(start)
        \/ Expected \in Window(start) /\ (Expected < maketic \/ acked < sendseq)

\* Nothing can be lost so often that the game stands still for good.
GameGoesOn == <>(gametic = MaxTics)
=============================================================================
