------------------------------- MODULE NetTics -------------------------------
(***************************************************************************)
(* A game that runs: ticcmds go from every player to the server, full tics *)
(* come back, and each client runs a tic when it has it whole              *)
(* (net_client.c, net_server.c, d_loop.c).  Both sides keep a receive      *)
(* window and, for a while, what they sent.                                *)
(*                                                                         *)
(* These packets are not reliable.  Any tic that was made may arrive, once *)
(* or often or never and in any order, so the network needs no state: what *)
(* has been made says what may come, and a resend request, which makes     *)
(* something come again, changes nothing here.  What a packet carries for  *)
(* a tic was made once, by its player or by the server for one client, so  *)
(* a window is shown by the numbers of the tics it holds.                  *)
(***************************************************************************)
EXTENDS TicNum, Sequences, FiniteSets

CONSTANTS
    Clients,     \* the clients that the GAMESTART was sent to
    Drones,      \* those that only observe
    BackupTics,  \* BACKUPTICS, 128: slots of every window, queue and ring
    MaxUnacked,  \* 40: tics the server sends ahead of an acknowledgement
    SoloAhead,   \* 10: how far it runs ahead of the only player
    MaxAhead,    \* 8: how far BuildNewTic runs ahead of the game
    FirstTic,    \* tics of a game in which nothing has been lost yet, before Init
    MaxTics      \* bound: tics a player makes

ASSUME TicsAssumption ==
    /\ Drones \subseteq Clients
    /\ MaxUnacked \in Nat /\ SoloAhead \in Nat /\ MaxAhead \in Nat
    /\ BackupTics \in Nat /\ FirstTic \in Nat /\ MaxTics \in Nat

VARIABLES
    start,    \* recvwindow_start of the server
    have,     \* have[p]: tics of p active in its recvwindow
    live,     \* live[c]: "up" (CONNECTED), "asleep" (still a record), "gone"
    sent,     \* sent[c]: the full tics made for c, each the players in it;
              \* sendseq is its length, sendqueue its last BACKUPTICS
    acked,    \* acked[c]: client->acknowledged
    ran,      \* the clients that this pass of NET_SV_Run has run
    at,       \* at[c]: "blocked" until the GAMESTART, "playing", "left"
    cstart,   \* recvwindow_start and recvtic of c
    chave,    \* chave[c]: tics active in the recvwindow of c
    maketic,  \* maketic of c; send_queue holds the last BACKUPTICS
    gametic   \* gametic of c (ticdup 1)

serverVars == <<start, have, live, sent, acked, ran>>
clientVars == <<at, cstart, chave, maketic, gametic>>
vars == <<serverVars, clientVars>>

Players == Clients \ Drones
Up == {c \in Clients : live[c] = "up"}
SendSeq(c) == Len(sent[c])

\* NET_SV_StartGame and NET_SV_InitNewClient have been, or as many tics after
\* that as nobody has lost.
Init ==
    /\ start = FirstTic
    /\ have = [p \in Players |-> {}]
    /\ live = [c \in Clients |-> "up"]
    /\ sent = [c \in Clients |-> [t \in 1..FirstTic |-> Players \ {c}]]
    /\ acked = [c \in Clients |-> FirstTic]
    /\ ran = {}
    /\ at = [c \in Clients |-> IF FirstTic = 0 THEN "blocked" ELSE "playing"]
    /\ cstart = [c \in Clients |-> FirstTic]
    /\ chave = [c \in Clients |-> {}]
    /\ maketic = [c \in Clients |-> IF c \in Drones THEN 0 ELSE FirstTic]
    /\ gametic = [c \in Clients |-> FirstTic]

Window(first) == first..first + BackupTics - 1
Smaller(a, b) == IF a < b THEN a ELSE b
Larger(a, b) == IF a < b THEN b ELSE a

\* How far one can get ahead of another fits the byte of a tic number, and the
\* rings.  In the code: 42 + 8 <= 64 and 40 + 8 + 2 <= 128.
ASSUME WindowAssumption ==
    /\ Larger(MaxUnacked + 2, SoloAhead + 1) + MaxAhead <= TicLow
    /\ Larger(MaxUnacked, SoloAhead) + MaxAhead + 2 <= BackupTics

\* The lifetime of a packet: not older than the byte of a tic number can tell
\* (64 tics are two seconds).
Fresh(tic, near) == tic >= near - TicLow
FreshTics(near, next) == Larger(0, near - TicLow)..next - 1

-----------------------------------------------------------------------------
(* The client.                                                             *)

\* GAMESTART has come: the windows are cleared, with what came before it.
ParseGameStart(c) ==
    /\ at[c] = "blocked" /\ at' = [at EXCEPT ![c] = "playing"]
    /\ chave' = [chave EXCEPT ![c] = {}] /\ cstart' = [cstart EXCEPT ![c] = 0]
    /\ UNCHANGED <<serverVars, maketic, gametic>>

\* first..last are the tics of a packet: NET_SV_SendTics for a new tic or for
\* a resend.  They may come before the GAMESTART.
ClientParseGameData(c, first, last) ==
    /\ at[c] # "left" /\ Fresh(first, cstart[c])
    /\ LET seq == ExpandTicNum(cstart[c], TicByte(first))
       IN  chave' = [chave EXCEPT ![c] =
                       @ \cup (Window(cstart[c]) \cap seq..seq + (last - first))]
    /\ UNCHANGED <<serverVars, at, cstart, maketic, gametic>>

\* NET_CL_AdvanceWindow, up to the first tic that is not there; D_ReceiveTic.
ClientAdvanceWindow(c) ==
    /\ at[c] = "playing"
    /\ \E next \in cstart[c] + 1..cstart[c] + BackupTics :
         /\ cstart[c]..next - 1 \subseteq chave[c] /\ next \notin chave[c]
         /\ cstart' = [cstart EXCEPT ![c] = next]
         /\ chave' = [chave EXCEPT ![c] = {t \in @ : t >= next}]
    /\ UNCHANGED <<serverVars, at, maketic, gametic>>

\* Mutant: the client runs as far ahead of the game as it likes.
BuildNewTicUnlimited(c) ==
    /\ at[c] = "playing" /\ c \notin Drones /\ maketic[c] <= MaxTics
    /\ maketic' = [maketic EXCEPT ![c] = @ + 1]
    /\ UNCHANGED <<serverVars, at, cstart, chave, gametic>>

\* BuildNewTic and NET_CL_SendTiccmd.
BuildNewTic(c) ==
    /\ at[c] = "playing" /\ c \notin Drones
    /\ maketic[c] - gametic[c] <= MaxAhead /\ maketic[c] < MaxTics
    /\ maketic' = [maketic EXCEPT ![c] = @ + 1]
    /\ UNCHANGED <<serverVars, at, cstart, chave, gametic>>

\* Mutant: a player does not wait for the ticcmds that it has to make itself.
LowTicReceived(c) == cstart[c]

\* GetLowTic, and one turn of the loop of TryRunTics.
LowTic(c) == IF c \in Drones THEN cstart[c] ELSE Smaller(maketic[c], cstart[c])
RunTic(c) ==
    /\ at[c] = "playing" /\ gametic[c] < LowTic(c)
    /\ gametic' = [gametic EXCEPT ![c] = @ + 1]
    /\ UNCHANGED <<serverVars, at, cstart, chave, maketic>>

\* The process quits or dies; what waits in its window is gone.
Leave(c) ==
    /\ at[c] # "left" /\ at' = [at EXCEPT ![c] = "left"]
    /\ chave' = [chave EXCEPT ![c] = {}]
    /\ UNCHANGED <<serverVars, cstart, maketic, gametic>>

ClientStep(c) ==
    \/ ParseGameStart(c) \/ ClientAdvanceWindow(c) \/ BuildNewTic(c) \/ RunTic(c) \/ Leave(c)
    \/ \E first \in FreshTics(cstart[c], SendSeq(c)) : \E last \in first..SendSeq(c) - 1 :
         ClientParseGameData(c, first, last)

-----------------------------------------------------------------------------
(* The server.                                                             *)

\* The higher acknowledgement point.  c had its window at ack once.
Acknowledge(c, ack) ==
    /\ Fresh(ack, start)
    /\ acked' = [acked EXCEPT ![c] = Larger(@, ExpandTicNum(start, TicByte(ack)))]

\* A record is enough, connected or not.
ParseGameData(p, first, last, ack) ==
    /\ live[p] # "gone" /\ Fresh(first, start)
    /\ LET seq == ExpandTicNum(start, TicByte(first))
       IN  have' = [have EXCEPT ![p] =
                      @ \cup (Window(start) \cap seq..seq + (last - first))]
    /\ Acknowledge(p, ack)
    /\ UNCHANGED <<start, live, sent, ran, clientVars>>

ParseGameDataACK(c, ack) ==
    /\ live[c] # "gone" /\ Acknowledge(c, ack)
    /\ UNCHANGED <<start, have, live, sent, ran, clientVars>>

\* NET_SV_LatestAcknowledged is at least tic.
AllAcknowledged(tic) == \A c \in Up : acked[c] >= tic

\* NET_SV_PumpSendQueue sends c its next tic when all the others' ticcmds for
\* it are here, if the clients acknowledge and the only player is not outrun.
Others(c) == (Players \cap Up) \ {c}

\* Mutant: looks at the first tic of the window, not at the one to be sent.
CanPumpByFirst(c) ==
    /\ c \in Up /\ AllAcknowledged(SendSeq(c) - MaxUnacked)
    /\ SendSeq(c) \in Window(start)
    /\ \A p \in Others(c) : start \in have[p]
    /\ Others(c) # {} \/ SendSeq(c) <= start + SoloAhead

\* Mutant: nothing holds the server back when there is only one player.
CanPumpSolo(c) ==
    /\ c \in Up /\ AllAcknowledged(SendSeq(c) - MaxUnacked)
    /\ SendSeq(c) \in Window(start)
    /\ \A p \in Others(c) : SendSeq(c) \in have[p]

\* Mutant: a tic with nobody's ticcmds in it is not worth sending.
CanPumpInCompany(c) ==
    /\ c \in Up /\ AllAcknowledged(SendSeq(c) - MaxUnacked)
    /\ SendSeq(c) \in Window(start)
    /\ Others(c) # {} /\ \A p \in Others(c) : SendSeq(c) \in have[p]

CanPump(c) ==
    /\ c \in Up /\ AllAcknowledged(SendSeq(c) - MaxUnacked)
    /\ SendSeq(c) \in Window(start)
    /\ \A p \in Others(c) : SendSeq(c) \in have[p]
    /\ Others(c) # {} \/ SendSeq(c) <= start + SoloAhead

\* The ticcmds of one that has just gone are taken along if they are here.
FullTic(c) == {p \in Players \ {c} : SendSeq(c) \in have[p]}

\* Mutant: advances over a tic that somebody may still lack.
CanAdvanceUnacked(tic) ==
    /\ Players \cap Up # {}
    /\ \A p \in Players \cap Up : tic \in have[p]

\* NET_SV_AdvanceWindow: over what everyone has acknowledged, if it is whole.
CanAdvance(tic) ==
    /\ Players \cap Up # {} /\ AllAcknowledged(tic + 1)
    /\ \A p \in Players \cap Up : tic \in have[p]

\* The end of its sleep, or 30 s of silence.  When no player is connected any
\* more, NET_SV_GameEnded: nobody is served after that.
Goes(c) ==
    /\ live' = [d \in Clients |->
                  IF d = c \/ Players \cap Up \subseteq {c} THEN "gone" ELSE live[d]]
    /\ UNCHANGED sent

Pump(c) ==
    /\ sent' = IF CanPump(c) THEN [sent EXCEPT ![c] = Append(@, FullTic(c))] ELSE sent
    /\ UNCHANGED live

\* NET_SV_Run, when the packets have been read, runs one client after another
RunClient(c) ==
    /\ live[c] # "gone" /\ c \notin ran
    /\ ran' = ran \cup {c}
    /\ Goes(c) \/ Pump(c)
    /\ UNCHANGED <<start, have, acked, clientVars>>

\* and then advances the window as far as it goes.
EndPass ==
    /\ ran # {} /\ \A c \in Clients \ ran : live[c] = "gone"
    /\ \E next \in start..start + BackupTics :
        /\ \A tic \in start..next - 1 : CanAdvance(tic)
        /\ ~CanAdvance(next)
        /\ start' = next
        /\ have' = [p \in Players |-> {t \in have[p] : t >= next}]
    /\ ran' = {}
    /\ UNCHANGED <<live, sent, acked, clientVars>>

\* NET_Conn_ParseDisconnect: the record sleeps.
ParseDisconnect(c) ==
    /\ at[c] = "left" /\ live[c] = "up"
    /\ live' = [live EXCEPT ![c] = "asleep"]
    /\ UNCHANGED <<start, have, sent, acked, ran, clientVars>>

FromClient(c) ==
    \/ ParseDisconnect(c)
    \/ \E ack \in FreshTics(start, cstart[c] + 1) :
         \/ ParseGameDataACK(c, ack)
         \/ /\ c \in Players
            /\ \E first \in FreshTics(start, maketic[c]) : \E last \in first..maketic[c] - 1 :
                 ParseGameData(c, first, last, ack)

\* A pass takes no time: nothing that a client does meanwhile depends on it, or
\* comes to the server before the next one.
Next ==
    \/ EndPass
    \/ \E c \in Clients : RunClient(c)
    \/ ran = {} /\ \E c \in Clients : ClientStep(c) \/ FromClient(c)

Spec == Init /\ [][Next]_vars

-----------------------------------------------------------------------------
(* Properties.                                                             *)

TypeOK ==
    /\ start \in Nat
    /\ have \in [Players -> SUBSET Nat] /\ \A p \in Players : have[p] \subseteq Window(start)
    /\ live \in [Clients -> {"up", "asleep", "gone"}]
    /\ sent \in [Clients -> Seq(SUBSET Players)]
    /\ acked \in [Clients -> Nat] /\ ran \subseteq Clients
    /\ at \in [Clients -> {"blocked", "playing", "left"}]
    /\ cstart \in [Clients -> Nat]
    /\ chave \in [Clients -> SUBSET Nat]
    /\ \A c \in Clients : chave[c] \subseteq Window(cstart[c])
    /\ maketic \in [Clients -> Nat] /\ gametic \in [Clients -> Nat]

\* A byte is enough: whatever has been lost or late, the number that a handler
\* makes of a byte is the number that was sent.
TicsUnderstood ==
    /\ \A c \in Clients : \A t \in FreshTics(cstart[c], SendSeq(c)) :
           ExpandTicNum(cstart[c], TicByte(t)) = t
    /\ \A p \in Players : \A t \in FreshTics(start, maketic[p]) :
           ExpandTicNum(start, TicByte(t)) = t
    /\ \A c \in Clients : \A t \in FreshTics(start, cstart[c] + 1) :
           ExpandTicNum(start, TicByte(t)) = t

\* The server never takes a client to have more than it has, a client never
\* has more than the server made, and the tic to be made next is never behind
\* the receive window.
AckTruthful ==
    \A c \in Clients : /\ acked[c] <= cstart[c] /\ cstart[c] <= SendSeq(c)
                       /\ c \in Up => start <= acked[c]

\* NET_SV_SendTics never finds another tic in the place of one it repeats (an
\* I_Error), and what a client or the server lacks can still be sent again.
NothingForgotten ==
    /\ \A c \in Up : SendSeq(c) - acked[c] <= BackupTics
    /\ \A p \in Players \cap Up : \A t \in 0..maketic[p] - 1 :
         t < start \/ t \in have[p] \/ t >= maketic[p] - BackupTics

\* The ring ticdata never has a tic overwritten that has not been run.
NothingOverwritten ==
    \A p \in Players : Larger(maketic[p], cstart[p]) - gametic[p] <= BackupTics

\* Nobody plays without a player that is connected: the tics made for a
\* client have a ticcmd of everyone else.
NobodySkipped ==
    \A p \in Players \cap Up : \A c \in Clients \ {p} :
        \A t \in 1..SendSeq(c) : p \in sent[c][t]

\* What a player may rely on, whatever is lost and whoever leaves: each client
\* runs a tic only with the ticcmds of all that are connected (LockstepGame).
Game == INSTANCE LockstepGame
          WITH in <- Players \cap Up, made <- maketic,
               seen <- [c \in Clients |-> SubSeq(sent[c], 1, gametic[c])]
ImplementsLockstep == Game!Spec

\* No client is further ahead of a player that is connected than that player
\* may make ticcmds ahead of its own game, so a slow player slows all the others.
NearTogether ==
    \A p \in Players \cap Up : \A c \in Clients \ {p} : gametic[c] <= gametic[p] + MaxAhead + 1

\* All that the clients and the server lack of each other has come.
Settled ==
    /\ \A c \in Up : at[c] = "playing" /\ cstart[c] = SendSeq(c) /\ acked[c] = cstart[c]
    /\ \A p \in Players \cap Up : Window(start) \cap 0..maketic[p] - 1 \subseteq have[p]

\* Nobody waits for one that waits for him: however far the players, the drones and the
\* server have got, when nothing is under way any more some client builds or runs a tic
\* or is sent one, or the window moves.  The limits on being ahead (MaxAhead, MaxUnacked,
\* SoloAhead and the window) never hold everyone at once.
NoStandoff ==
    Settled /\ Players \cap Up # {} /\ (\A p \in Players \cap Up : maketic[p] < MaxTics) =>
        \/ \E p \in Players \cap Up : maketic[p] - gametic[p] <= MaxAhead
        \/ \E c \in Up : gametic[c] < LowTic(c) \/ CanPump(c)
        \/ CanAdvance(start)

\* d_loop.c: "a gametic cannot be run until ticcmds are received for it from
\* all players."  Two clients that run a tic agree on the players in it.
Lockstep ==
    \A c, d \in Clients : \A t \in 1..Smaller(cstart[c], cstart[d]) :
        sent[c][t] \ {c, d} = sent[d][t] \ {c, d}
=============================================================================
