------------------------------ MODULE NetServer ------------------------------
(***************************************************************************)
(* How a netgame is joined, launched, started and ended: the server's      *)
(* table of clients and its state (net_server.c), against the clients'     *)
(* way from NET_CL_Connect through NET_WaitForLaunch and BlockUntilStart   *)
(* into the game (net_client.c, net_gui.c, d_loop.c).                      *)
(*                                                                         *)
(* Each client process has an address of its own (net_sdl.c opens an       *)
(* ephemeral port) and connects once, so a record is named by its client.  *)
(* The reliable messages between the two travel in FIFO channels, which is *)
(* what NetConn implements; SYN, REJECTED, DISCONNECT and its ACK are      *)
(* single packets that may overtake them, be lost, or come again.          *)
(*                                                                         *)
(* NET_SV_Run is one pass: packets, then NET_SV_RunClient for each slot in *)
(* turn, then the test of the server's state.  turn is where it stands; 0  *)
(* is the packet loop.  The clients move in turn 0 only, which loses       *)
(* nothing: the rest of the pass reads nothing of theirs.                  *)
(***************************************************************************)
EXTENDS Integers, Sequences, FiniteSets

CONSTANTS
    Clients,      \* the client processes
    Drones,       \* those that only observe
    ModeOf,       \* ModeOf[c]: the game mode and mission c plays
    MaxPlayers,   \* MaxPlayers[c]: connect_data.max_players of c
    BadSettings,  \* those whose settings NET_ValidGameSettings refuses (-dup 0)
    NumSlots,     \* MAXNETNODES
    None          \* no slot, no mode, nobody, no game

ASSUME LobbyAssumption ==
    /\ Drones \subseteq Clients /\ BadSettings \subseteq Clients
    /\ NumSlots \in Nat \ {0}
    /\ None \notin Clients \cup 0..NumSlots

VARIABLES
    serverState,  \* server_state
    svMode,       \* sv_gamemode and sv_gamemission
    svSettings,   \* sv_settings: the client they come from, or None
    svPlayers,    \* sv_players: the slots it points at (its order is theirs)
    turn,         \* where NET_SV_Run stands
    slot,         \* slot[c]: c's index in clients[], None if not active
    conn,         \* conn[c]: client->connection.state
    ready,        \* ready[c]: client->ready
    joined,       \* the records by connect_time, oldest first
    sent,         \* history: type of the last reliable message queued for c
    where,        \* where[c]: how far the client process has come
    clientState,  \* client_state of c
    waiting,      \* net_waiting_for_launch of c
    told,         \* told[c]: wait data with is_controller has been sent to c
    game,         \* game[c]: the GAMESTART that c accepted
    hungUp,       \* hungUp[c]: c has sent DISCONNECT
    syn,          \* syn[c]: a SYN of c may still be on the network
    rejected,     \* rejected[c]: a REJECTED packet is on its way to c
    toClient,     \* toClient[c], toServer[c]: the reliable messages on their
    toServer      \*     way to c and from c

svVars == <<serverState, svMode, svSettings, svPlayers>>
recordVars == <<slot, conn, ready, joined, sent>>
clientVars == <<where, clientState, waiting, told, game, hungUp>>
netVars == <<syn, rejected, toClient, toServer>>
vars == <<svVars, turn, recordVars, clientVars, netVars>>

Slots == 0..NumSlots - 1
ConnState == {"CONNECTED", "DISCONNECTING", "DISCONNECTED", "DISCONNECTED_SLEEP"}
GameStart == [type : {"GAMESTART"}, from : Clients \cup {None},
              players : 0..NumSlots, console : -1..NumSlots]
InGame == {"lobby", "blocked", "playing"}
Where == {"off", "connecting", "connected", "closed"} \cup InGame

TypeOK ==
    /\ serverState \in {"WAITING_LAUNCH", "WAITING_START", "IN_GAME"}
    /\ svMode \in {ModeOf[c] : c \in Clients} \cup {None}
    /\ svSettings \in Clients \cup {None}
    /\ svPlayers \subseteq Slots
    /\ turn \in 0..NumSlots + 1
    /\ slot \in [Clients -> Slots \cup {None}]
    /\ conn \in [Clients -> ConnState]
    /\ joined \in Seq(Clients)
    /\ sent \in [Clients -> {"SYN", "LAUNCH", "GAMESTART"}]
    /\ where \in [Clients -> Where]
    /\ clientState \in [Clients -> {"WAITING_LAUNCH", "WAITING_START", "IN_GAME"}]
    /\ {ready, waiting, told, hungUp, syn, rejected} \subseteq [Clients -> BOOLEAN]
    /\ toClient \in [Clients -> Seq([type : {"SYN", "LAUNCH"}] \cup GameStart)]
    /\ toServer \in [Clients -> Seq([type : {"LAUNCH", "GAMESTART"}, valid : BOOLEAN])]
    /\ game \in [Clients -> GameStart \cup {None}]

\* NET_SV_Init; no client has been started.
Init ==
    /\ serverState = "WAITING_LAUNCH" /\ svMode = None /\ svSettings = None
    /\ svPlayers = {} /\ turn = 0
    /\ slot = [c \in Clients |-> None]
    /\ conn = [c \in Clients |-> "DISCONNECTED"]
    /\ ready = [c \in Clients |-> FALSE]
    /\ joined = << >>
    /\ sent = [c \in Clients |-> "SYN"]
    /\ where = [c \in Clients |-> "off"]
    /\ clientState = [c \in Clients |-> "WAITING_LAUNCH"]
    /\ waiting = [c \in Clients |-> FALSE]
    /\ told = [c \in Clients |-> FALSE]
    /\ game = [c \in Clients |-> None]
    /\ hungUp = [c \in Clients |-> FALSE]
    /\ syn = [c \in Clients |-> FALSE]
    /\ rejected = [c \in Clients |-> FALSE]
    /\ toClient = [c \in Clients |-> << >>]
    /\ toServer = [c \in Clients |-> << >>]

-----------------------------------------------------------------------------
(* Reading the table.                                                      *)

Active == {c \in Clients : slot[c] # None}
Connected == {c \in Active : conn[c] = "CONNECTED"}
Least(S) == CHOOSE i \in S : \A j \in S : i <= j

\* Mutant: the number is not counted up.
PlayerNumberUncounted(c, players) == IF c \in Drones THEN -1 ELSE 0

\* What NET_SV_AssignPlayers stores, and the numbers it hands out.
PlayerSlots == {slot[c] : c \in Connected \ Drones}
PlayerNumber(c, players) ==
    IF c \in Drones THEN -1 ELSE Cardinality({i \in players : i < slot[c]})

\* NET_SV_NumPlayers counts what sv_players points at, which is as old as the
\* last NET_SV_AssignPlayers.
NumPlayers(players) == Cardinality({c \in Connected : slot[c] \in players})

\* NET_SV_MaxPlayers: the value of the first client of the table.
MaxNumPlayers ==
    IF Connected = {} THEN NumSlots + 1
    ELSE MaxPlayers[CHOOSE c \in Connected : \A d \in Connected : slot[c] <= slot[d]]

\* NET_SV_Controller: the oldest player connected.
Controller ==
    LET players == {i \in DOMAIN joined : joined[i] \in Connected \ Drones}
    IN  IF players = {} THEN None ELSE joined[Least(players)]

\* c occurs at most once.
Without(s, c) ==
    IF \E i \in DOMAIN s : s[i] = c
    THEN LET at == CHOOSE i \in DOMAIN s : s[i] = c
         IN  SubSeq(s, 1, at - 1) \o SubSeq(s, at + 1, Len(s))
    ELSE s

-----------------------------------------------------------------------------
(* NET_SV_ParseSYN.  Copies of a SYN may arrive as long as syn says so:    *)
(* from when c starts to connect until its record is freed.  The record is *)
(* not freed in the 5 s that c connects for (5 s of DISCONNECTs and 30 s   *)
(* of silence are longer), nor while a packet lives.  A SYN may be served  *)
(* after c has given up.  It is well formed: magic, version and protocol   *)
(* are those of this program.                                              *)

SYNArrives(c) == turn = 0 /\ syn[c]

\* It matters to c only while c is connecting.
SendReject(c) ==
    /\ rejected' = [rejected EXCEPT ![c] = where[c] = "connecting"]
    /\ UNCHANGED <<syn, toClient, toServer, recordVars, clientVars, turn>>

\* Mutant: the players are numbered before the state is looked at.
NotAcceptingAssigned(c) ==
    /\ SYNArrives(c) /\ serverState # "WAITING_LAUNCH"
    /\ SendReject(c)
    /\ svPlayers' = PlayerSlots
    /\ UNCHANGED <<serverState, svMode, svSettings>>

NotAccepting(c) ==
    /\ SYNArrives(c) /\ serverState # "WAITING_LAUNCH"
    /\ SendReject(c)
    /\ UNCHANGED svVars

\* Mutant: only a game that runs is closed to new clients.
AcceptingUntilGame(c) ==
    /\ SYNArrives(c) /\ serverState # "IN_GAME"
    /\ svPlayers' = PlayerSlots
    /\ UNCHANGED <<serverState, svSettings>>

\* NET_SV_AssignPlayers, and then the tests.
Accepting(c) ==
    /\ SYNArrives(c) /\ serverState = "WAITING_LAUNCH"
    /\ svPlayers' = PlayerSlots
    /\ UNCHANGED <<serverState, svSettings>>

Full(c) ==
    \/ c \notin Drones /\ Cardinality(PlayerSlots) >= MaxNumPlayers
    \/ Cardinality(Connected) >= NumSlots

\* Mutant: the mode of every player is adopted.
AdoptedModeOfAny(c) == IF c \notin Drones THEN ModeOf[c] ELSE svMode

\* The mode of the first player is adopted, whatever drones are there.
AdoptedMode(c) == IF PlayerSlots = {} /\ c \notin Drones THEN ModeOf[c] ELSE svMode

ServerFull(c) == Accepting(c) /\ Full(c) /\ SendReject(c) /\ UNCHANGED svMode

WrongGame(c) ==
    /\ Accepting(c) /\ ~Full(c) /\ AdoptedMode(c) # ModeOf[c]
    /\ SendReject(c) /\ UNCHANGED svMode

FreeSlots == Slots \ {slot[c] : c \in Active}

\* A client that has a record keeps it, unless the record is DISCONNECTED and
\* NET_SV_RunClient has not freed it yet.
Known(c) == slot[c] # None /\ conn[c] # "DISCONNECTED"

DuplicateSYN(c) ==
    /\ Accepting(c) /\ ~Full(c) /\ AdoptedMode(c) = ModeOf[c]
    /\ Known(c) \/ (slot[c] = None /\ FreeSlots = {})
    /\ svMode' = AdoptedMode(c)
    /\ UNCHANGED <<turn, recordVars, clientVars, netVars>>

\* NET_SV_InitNewClient and the SYN reply, which a process gone will not read.
NewClient(c) ==
    /\ Accepting(c) /\ ~Full(c) /\ AdoptedMode(c) = ModeOf[c]
    /\ ~Known(c) /\ (slot[c] # None \/ FreeSlots # {})
    /\ svMode' = AdoptedMode(c)
    /\ slot' = [slot EXCEPT ![c] = IF @ = None THEN Least(FreeSlots) ELSE @]
    /\ conn' = [conn EXCEPT ![c] = "CONNECTED"]
    /\ ready' = [ready EXCEPT ![c] = FALSE]
    /\ joined' = Append(Without(joined, c), c)
    /\ sent' = [sent EXCEPT ![c] = "SYN"]
    /\ toClient' = [toClient EXCEPT ![c] =
                      IF where[c] = "closed" THEN << >> ELSE <<[type |-> "SYN"]>>]
    /\ UNCHANGED <<turn, clientVars, syn, rejected, toServer>>

ParseSYN(c) ==
    NotAccepting(c) \/ ServerFull(c) \/ WrongGame(c) \/ DuplicateSYN(c) \/ NewClient(c)

-----------------------------------------------------------------------------
(* The other packets.                                                      *)

ServerReceives(c, type) ==
    /\ turn = 0 /\ slot[c] # None
    /\ toServer[c] # << >> /\ Head(toServer[c]).type = type
    /\ toServer' = [toServer EXCEPT ![c] = Tail(@)]
    /\ UNCHANGED <<svMode, turn, slot, conn, joined, clientVars, syn, rejected>>

\* One reliable message to every client connected; message is a function of it.
Broadcast(message) ==
    /\ toClient' = [c \in Clients |->
                      IF c \in Connected /\ where[c] # "closed"
                      THEN Append(toClient[c], message[c]) ELSE toClient[c]]
    /\ sent' = [c \in Clients |-> IF c \in Connected THEN message[c].type ELSE sent[c]]

\* NET_SV_ParseLaunch: only from the controller, only while waiting.
ParseLaunch(c) ==
    /\ ServerReceives(c, "LAUNCH")
    /\ IF c = Controller /\ serverState = "WAITING_LAUNCH"
       THEN /\ serverState' = "WAITING_START"
            /\ svPlayers' = PlayerSlots
            /\ Broadcast([d \in Connected |-> [type |-> "LAUNCH"]])
       ELSE UNCHANGED <<serverState, svPlayers, toClient, sent>>
    /\ UNCHANGED <<svSettings, ready>>

\* StartGame: number the players and tell every client connected.
StartGame(from) ==
    /\ serverState' = "IN_GAME"
    /\ svPlayers' = PlayerSlots
    /\ Broadcast([d \in Connected |-> [type |-> "GAMESTART", from |-> from,
                                        players |-> NumPlayers(svPlayers'),
                                        console |-> PlayerNumber(d, svPlayers')]])

\* AllNodesReady asks those that are connected now.
AllNodesReady(isReady) == \A d \in Connected : isReady[d]

\* NET_SV_ParseGameStart.  The settings count if the controller sends them.
\* CheckStartGame; then wait data for those ready, which numbers the players.
ParseGameStart(c) ==
    /\ ServerReceives(c, "GAMESTART")
    /\ LET refused == c = Controller /\ ~Head(toServer[c]).valid
           from == IF c = Controller THEN c ELSE svSettings
       IN  IF serverState = "WAITING_START" /\ ~refused
           THEN /\ ready' = [ready EXCEPT ![c] = TRUE]
                /\ svSettings' = from
                /\ \/ AllNodesReady(ready') /\ StartGame(from)
                   \/ /\ ~AllNodesReady(ready')
                      /\ svPlayers' = IF \E d \in Connected : ready'[d]
                                      THEN PlayerSlots ELSE svPlayers
                      /\ UNCHANGED <<serverState, toClient, sent>>
           ELSE UNCHANGED <<ready, svSettings, serverState, svPlayers, toClient, sent>>

\* NET_Conn_ParseDisconnect, NET_Conn_ParseDisconnectACK on the server's side.
ParseDisconnect(c) ==
    /\ turn = 0 /\ slot[c] # None /\ hungUp[c]
    /\ conn' = [conn EXCEPT ![c] = "DISCONNECTED_SLEEP"]
    /\ UNCHANGED <<svVars, turn, slot, ready, joined, sent, clientVars, netVars>>

ParseDisconnectACK(c) ==
    /\ turn = 0 /\ slot[c] # None
    /\ conn[c] = "DISCONNECTING" /\ where[c] = "closed"
    /\ conn' = [conn EXCEPT ![c] = "DISCONNECTED"]
    /\ UNCHANGED <<svVars, turn, slot, ready, joined, sent, clientVars, netVars>>

-----------------------------------------------------------------------------
(* The rest of NET_SV_Run.                                                 *)

StartPass ==
    /\ turn = 0 /\ turn' = 1
    /\ UNCHANGED <<svVars, recordVars, clientVars, netVars>>

Occupant == {c \in Active : slot[c] = turn - 1}
RunsSlot == turn \in 1..NumSlots /\ turn' = turn + 1

SkipSlot ==
    /\ RunsSlot /\ Occupant = {}
    /\ UNCHANGED <<svVars, recordVars, clientVars, netVars>>

\* Mutant: wait data are sent in a game as well.
RunClientStaysWaiting(c) ==
    /\ RunsSlot /\ c \in Occupant /\ conn[c] # "DISCONNECTED"
    /\ svPlayers' = IF conn[c] = "CONNECTED" THEN PlayerSlots ELSE svPlayers
    /\ told' = [told EXCEPT ![c] = @ \/ (c = Controller /\ where[c] # "closed")]
    /\ UNCHANGED <<serverState, svMode, svSettings, recordVars, where, clientState, waiting,
                   game, hungUp, netVars>>

\* A record that lives on.  Once a second it is sent wait data, if nothing has
\* been launched.
RunClientStays(c) ==
    /\ RunsSlot /\ c \in Occupant /\ conn[c] # "DISCONNECTED"
    /\ \/ UNCHANGED <<svPlayers, told>>
       \/ /\ conn[c] = "CONNECTED" /\ serverState = "WAITING_LAUNCH"
          /\ svPlayers' = PlayerSlots
          /\ told' = [told EXCEPT ![c] = @ \/ (c = Controller /\ where[c] # "closed")]
    /\ UNCHANGED <<serverState, svMode, svSettings, recordVars, where, clientState, waiting,
                   game, hungUp, netVars>>

\* Mutant: an end aborts a startup, but no end of a game is noticed.
RunClientGoesAborting(c) ==
    /\ RunsSlot /\ c \in Occupant /\ where[c] # "connecting"
    /\ slot' = [slot EXCEPT ![c] = None]
    /\ joined' = Without(joined, c)
    /\ syn' = [syn EXCEPT ![c] = FALSE]
    /\ toServer' = [toServer EXCEPT ![c] = << >>]
    /\ LET aborted == serverState = "WAITING_START" /\ c \notin Drones
           others == IF aborted THEN "DISCONNECTING" ELSE "CONNECTED"
       IN  /\ conn' = [d \in Clients |-> IF d = c THEN "DISCONNECTED"
                                         ELSE IF d \in Connected THEN others ELSE conn[d]]
           /\ IF aborted
              THEN serverState' = "WAITING_LAUNCH" /\ svMode' = None
              ELSE UNCHANGED <<serverState, svMode>>
    /\ UNCHANGED <<svSettings, svPlayers, ready, sent, clientVars, rejected, toClient>>

\* A record that goes: 30 s of silence, no ACK after MAX_RETRIES, the end of
\* the sleep.  A player's end aborts a startup; if sv_players names nobody who
\* is still connected, the game has ended.  Both are NET_SV_GameEnded.
RunClientGoes(c) ==
    /\ RunsSlot /\ c \in Occupant /\ where[c] # "connecting"
    /\ slot' = [slot EXCEPT ![c] = None]
    /\ joined' = Without(joined, c)
    /\ syn' = [syn EXCEPT ![c] = FALSE]
    /\ toServer' = [toServer EXCEPT ![c] = << >>]
    /\ LET aborted == serverState = "WAITING_START" /\ c \notin Drones
           nobody == \A d \in Connected \ {c} : slot[d] \notin svPlayers
           others == IF aborted \/ nobody THEN "DISCONNECTING" ELSE "CONNECTED"
       IN  /\ conn' = [d \in Clients |-> IF d = c THEN "DISCONNECTED"
                                         ELSE IF d \in Connected THEN others ELSE conn[d]]
           /\ IF aborted \/ nobody
              THEN serverState' = "WAITING_LAUNCH" /\ svMode' = None
              ELSE UNCHANGED <<serverState, svMode>>
    /\ UNCHANGED <<svSettings, svPlayers, ready, sent, clientVars, rejected, toClient>>

\* Mutant: the start is looked for in NET_SV_ParseGameStart alone.
EndPassUnchecked ==
    /\ turn = NumSlots + 1 /\ turn' = 0
    /\ UNCHANGED <<svVars, recordVars, clientVars, netVars>>

\* CheckStartGame.
EndPass ==
    /\ turn = NumSlots + 1 /\ turn' = 0
    /\ \/ serverState = "WAITING_START" /\ AllNodesReady(ready) /\ StartGame(svSettings)
       \/ /\ ~(serverState = "WAITING_START" /\ AllNodesReady(ready))
          /\ UNCHANGED <<serverState, svPlayers, toClient, sent>>
    /\ UNCHANGED <<svMode, svSettings, slot, conn, ready, joined, clientVars, syn, rejected,
                   toServer>>

-----------------------------------------------------------------------------
(* The clients.                                                            *)

At(c, places) == turn = 0 /\ where[c] \in places
Goes(c, to) ==
    /\ where' = [where EXCEPT ![c] = to]
    /\ UNCHANGED <<svVars, turn, recordVars>>

StartConnect(c) ==
    /\ At(c, {"off"}) /\ Goes(c, "connecting")
    /\ syn' = [syn EXCEPT ![c] = TRUE]
    /\ UNCHANGED <<clientState, waiting, told, game, hungUp, rejected, toClient, toServer>>

\* The process ends: what it knew is gone, and nobody reads what comes.
Close(c, says) ==
    /\ Goes(c, "closed")
    /\ hungUp' = [hungUp EXCEPT ![c] = says]
    /\ clientState' = [clientState EXCEPT ![c] = "WAITING_LAUNCH"]
    /\ waiting' = [waiting EXCEPT ![c] = FALSE]
    /\ told' = [told EXCEPT ![c] = FALSE]
    /\ game' = [game EXCEPT ![c] = None]
    /\ rejected' = [rejected EXCEPT ![c] = FALSE]
    /\ toClient' = [toClient EXCEPT ![c] = << >>]
    /\ UNCHANGED <<syn, toServer>>

ClientParseReject(c) == rejected[c] /\ At(c, {"connecting"}) /\ Close(c, FALSE)

\* No answer to SYN for 5 s.
ConnectTimeout(c) == At(c, {"connecting"}) /\ Close(c, FALSE)

\* The process is killed.
Crash(c) == At(c, InGame \cup {"connected"}) /\ Close(c, FALSE)

\* The server's DISCONNECT, or its silence: "Lost connection to server".
LostConnection(c) ==
    /\ slot[c] = None \/ conn[c] = "DISCONNECTING"
    /\ At(c, InGame \cup {"connected"}) /\ Close(c, FALSE)

\* D_QuitNetGame on the way out: I_Quit or I_Error.
Quit(c) == At(c, InGame) /\ Close(c, TRUE)

ClientReceives(c, type) ==
    /\ toClient[c] # << >> /\ Head(toClient[c]).type = type
    /\ toClient' = [toClient EXCEPT ![c] = Tail(@)]
    /\ UNCHANGED <<syn, hungUp, told, toServer>>

ClientParseSYN(c) ==
    /\ At(c, {"connecting"}) /\ Goes(c, "connected") /\ ClientReceives(c, "SYN")
    /\ rejected' = [rejected EXCEPT ![c] = FALSE]
    /\ UNCHANGED <<clientState, waiting, game>>

\* NET_CL_Run calls the handlers until no packet is left, and only then does
\* NET_CL_Connect see that it is connected and set client_state.
ConnectReturns(c) ==
    /\ At(c, {"connected"}) /\ Goes(c, "lobby")
    /\ waiting' = [waiting EXCEPT ![c] = clientState[c] = "WAITING_LAUNCH"]
    /\ clientState' = [clientState EXCEPT ![c] = "WAITING_LAUNCH"]
    /\ UNCHANGED <<told, game, hungUp, netVars>>

\* Packets are read where NET_CL_Run is called: NET_WaitForLaunch does so only
\* while net_waiting_for_launch.
Reads(c) ==
    \/ At(c, {"connected", "blocked", "playing"})
    \/ At(c, {"lobby"}) /\ waiting[c]

ClientParseLaunch(c) ==
    /\ Reads(c) /\ Goes(c, where[c]) /\ ClientReceives(c, "LAUNCH")
    /\ clientState' = [clientState EXCEPT ![c] =
                         IF @ = "WAITING_LAUNCH" THEN "WAITING_START" ELSE @]
    /\ waiting' = [waiting EXCEPT ![c] = @ /\ clientState[c] # "WAITING_LAUNCH"]
    /\ UNCHANGED <<game, rejected>>

ClientParseGameStart(c) ==
    /\ Reads(c) /\ Goes(c, where[c]) /\ ClientReceives(c, "GAMESTART")
    /\ LET start == Head(toClient[c])
           accepted == /\ clientState[c] = "WAITING_START"
                       /\ start.console < start.players
                       /\ c \in Drones <=> start.console < 0
       IN  IF accepted
           THEN /\ clientState' = [clientState EXCEPT ![c] = "IN_GAME"]
                /\ game' = [game EXCEPT ![c] = start]
           ELSE UNCHANGED <<clientState, game>>
    /\ UNCHANGED <<waiting, rejected>>

\* The start button of NET_WaitForLaunch, or -nodes.  Bound: one at a time.
LaunchGame(c) ==
    /\ At(c, {"lobby"}) /\ waiting[c] /\ told[c] /\ toServer[c] = << >>
    /\ Goes(c, "lobby")
    /\ toServer' = [toServer EXCEPT ![c] = Append(@, [type |-> "LAUNCH", valid |-> TRUE])]
    /\ UNCHANGED <<clientState, waiting, told, game, hungUp, syn, rejected, toClient>>

\* NET_WaitForLaunch returns; D_StartNetGame sends the settings and blocks.
StartNetGame(c) ==
    /\ At(c, {"lobby"}) /\ ~waiting[c] /\ Goes(c, "blocked")
    /\ toServer' = [toServer EXCEPT ![c] =
                      Append(@, [type |-> "GAMESTART", valid |-> c \notin BadSettings])]
    /\ UNCHANGED <<clientState, waiting, told, game, hungUp, syn, rejected, toClient>>

\* BlockUntilStart returns; settings nobody sent have ticdup 0, an I_Error.
EnterGame(c) ==
    /\ At(c, {"blocked"}) /\ clientState[c] = "IN_GAME" /\ game[c].from # None
    /\ Goes(c, "playing")
    /\ UNCHANGED <<clientState, waiting, told, game, hungUp, netVars>>

Handlers(c) ==
    \/ ParseLaunch(c) \/ ParseGameStart(c) \/ ParseDisconnect(c) \/ ParseDisconnectACK(c)
ClientStep(c) ==
    \/ StartConnect(c) \/ ClientParseReject(c) \/ ConnectTimeout(c) \/ LostConnection(c) \/ Crash(c) \/ Quit(c)
    \/ ClientParseSYN(c) \/ ConnectReturns(c) \/ ClientParseLaunch(c)
    \/ ClientParseGameStart(c) \/ LaunchGame(c) \/ StartNetGame(c) \/ EnterGame(c)

Next ==
    \/ StartPass \/ SkipSlot \/ EndPass
    \/ \E c \in Clients :
         ParseSYN(c) \/ Handlers(c) \/ RunClientStays(c) \/ RunClientGoes(c) \/ ClientStep(c)

Spec == Init /\ [][Next]_vars

\* NET_SV_Run is called on every turn of the main loop and the packets that
\* are sent again get through; the handlers of a client run, and a client that
\* has its LAUNCH goes on.  A record whose client is gone, or that sleeps or
\* hangs up, ends in time.  Nothing is said of a client that can go on.  Due(c)
\* happens finitely often, so one strong fairness stands for all of it.
Pass == StartPass \/ SkipSlot \/ EndPass \/ \E c \in Clients : RunClientStays(c)
Due(c) ==
    \/ (where[c] = "closed" \/ conn[c] # "CONNECTED") /\ RunClientGoes(c)
    \/ ClientParseSYN(c) \/ ConnectReturns(c) \/ ClientParseLaunch(c) \/ StartNetGame(c)
    \/ ClientParseReject(c) \/ ConnectTimeout(c) \/ LostConnection(c)

Fairness ==
    /\ WF_vars(Pass)
    /\ \A c \in Clients : SF_vars(Due(c)) /\ SF_vars(ParseLaunch(c) \/ ParseGameStart(c))

FairSpec == Spec /\ Fairness

-----------------------------------------------------------------------------
(* Properties.                                                             *)

\* Every client connected has been told what the server is waiting for: one
\* that joined, or was counted, behind the back of a LAUNCH or a GAMESTART
\* would hang on its wait screen while AllNodesReady waits for it.
NobodyLeftBehind ==
    \A c \in Connected :
        sent[c] = CASE serverState = "WAITING_LAUNCH" -> "SYN"
                    [] serverState = "WAITING_START" -> "LAUNCH"
                    [] serverState = "IN_GAME" -> "GAMESTART"

\* Those in a game with the server agree on it: its settings, its number of
\* players, and a number for each player that no other has.
Playing == {c \in Connected : where[c] # "closed" /\ clientState[c] = "IN_GAME"}
OneGame ==
    \A c \in Playing :
        /\ serverState = "IN_GAME"
        /\ \A d \in Playing : /\ game[d].from = game[c].from
                              /\ game[d].players = game[c].players
        /\ c \in Drones \/ game[c].console \in 0..game[c].players - 1
        /\ \A d \in Playing \ (Drones \cup {c}) : game[d].console # game[c].console

\* A player in a game calls itself by the place that sv_players gives it there
\* and counts as many players as are there: the server files its tics and
\* fills its copies by that place, and sv_players is assigned anew by every
\* SYN, LAUNCH and wait data.
NumbersArePlaces ==
    \A c \in Playing \ Drones :
        /\ slot[c] \in svPlayers
        /\ game[c].console = Cardinality({i \in svPlayers : i < slot[c]})
        /\ game[c].players = Cardinality(svPlayers)

\* The players that wait together play the same game.
PlayersAgreeOnMode == \A c \in Connected \ Drones : ModeOf[c] = svMode

\* A server without clients takes new ones: it is never left in a startup or
\* in a game that nobody can end.
EmptyMeansWaiting == Active = {} => serverState = "WAITING_LAUNCH"

\* While a game runs nobody is renumbered: recvwindow and the tics sent are
\* indexed by the position in sv_players.
NumberingFrozen ==
    [][serverState = "IN_GAME" /\ serverState' = "IN_GAME" => svPlayers' = svPlayers]_vars

\* A startup ends, in a game or aborted, though any client may quit, crash,
\* be rejected or never have heard of its own connection.
StartupEnds == serverState = "WAITING_START" ~> serverState # "WAITING_START"

\* When every client is gone the server becomes free for new ones.
ServerRecovers ==
    (\A c \in Clients : where[c] = "closed") ~> serverState = "WAITING_LAUNCH"

\* d_loop.c: "Block until the game start message is received from the
\* server."  A client that blocks and gets the message is in the game.
StartIsHeard ==
    [][\A c \in Clients :
         /\ where[c] = "blocked" /\ where'[c] = "blocked"
         /\ toClient[c] # << >> /\ toClient'[c] = Tail(toClient[c])
         /\ Head(toClient[c]).type = "GAMESTART"
         => clientState'[c] = "IN_GAME"]_vars
=============================================================================
