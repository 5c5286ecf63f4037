--------------------------- MODULE NetServerProofs ---------------------------
(***************************************************************************)
(* The lobby of NetServer for any number of clients, drones and slots.     *)
(*                                                                         *)
(* The inductive invariant has four parts: the types; Records, no two      *)
(* clients in one slot; Lives, what a client process can know by how far   *)
(* it has come; and InStep, that who is connected and the server are in    *)
(* the same phase and, in a game, speak of the same game.                  *)
(***************************************************************************)
EXTENDS NetServer, FiniteSetTheorems, WellFoundedInduction, TLAPS

Records == \A c, d \in Active : slot[c] = slot[d] => c = d

\* What NET_CL_ParseGameStart lets through.
Accepts(c, start) ==
    /\ start \in GameStart
    /\ start.console < start.players
    /\ c \in Drones <=> start.console < 0

\* Where a process is tells what it can know, whatever the server does; a
\* client without a record whose SYN may still come has never had one.
Life(c) ==
    /\ where[c] = "off" => slot[c] = None /\ ~syn[c]
    /\ where[c] \in {"off", "closed"} => toClient[c] = << >>
    /\ where[c] \in {"off", "connecting", "closed"} =>
         game[c] = None /\ clientState[c] = "WAITING_LAUNCH"
    /\ slot[c] = None /\ syn[c] =>
         where[c] \in {"connecting", "closed"} /\ toClient[c] = << >>
    /\ slot[c] # None /\ conn[c] = "DISCONNECTED" => where[c] = "closed"
    /\ clientState[c] = "IN_GAME" => Accepts(c, game[c])
Lives == \A c \in Clients : Life(c)

\* The GAMESTART that c has been sent in the game that runs.
Start(c) == [type |-> "GAMESTART", from |-> svSettings,
             players |-> Cardinality(svPlayers), console |-> PlayerNumber(c, svPlayers)]

GameStarts(s) == {s[i] : i \in {j \in DOMAIN s : s[j].type = "GAMESTART"}}
Starts(c) == GameStarts(toClient[c])

BeforeGame(c) == clientState[c] # "IN_GAME" /\ Starts(c) = {}
InTheGame(c) ==
    /\ c \notin Drones => slot[c] \in svPlayers
    /\ Starts(c) \subseteq {Start(c)}
    /\ clientState[c] = "IN_GAME" => game[c] = Start(c)
InStep ==
    \A c \in Connected : IF serverState = "IN_GAME" THEN InTheGame(c) ELSE BeforeGame(c)

-----------------------------------------------------------------------------
(* Slots and numbers.                                                      *)

LEMMA SlotRange == Slots \subseteq Nat /\ None \notin Slots /\ IsFiniteSet(Slots)
                   /\ Cardinality(Slots) = NumSlots
<1>1. NumSlots - 1 \in Int /\ NumSlots \in Nat \ {0}
  BY LobbyAssumption
<1>2. IsFiniteSet(0..NumSlots - 1) /\ Cardinality(0..NumSlots - 1) = NumSlots
  BY <1>1, FS_Interval
<1>3. Slots \subseteq Nat /\ None \notin Slots
  BY <1>1, LobbyAssumption DEF Slots
<1> QED  BY <1>2, <1>3 DEF Slots

\* The least slot of a set is in it.
LEMMA LeastSlot == ASSUME NEW S \in SUBSET Slots, S # {} PROVE Least(S) \in S
<1>1. S \subseteq Nat
  BY SlotRange
<1>2. PICK x \in S : \A y \in S : ~(<<y, x>> \in OpToRel(<, Nat))
  BY <1>1, NatLessThanWellFounded, WFMin
<1>3. \A y \in S : x <= y
  <2> SUFFICES ASSUME NEW y \in S PROVE x <= y
    OBVIOUS
  <2>1. ~(y < x)
    BY <1>1, <1>2 DEF OpToRel
  <2> QED  BY <1>1, <2>1
<1> QED  BY <1>3 DEF Least

LEMMA SlotSets ==
    ASSUME NEW S \in SUBSET Slots
    PROVE  IsFiniteSet(S) /\ Cardinality(S) \in 0..NumSlots
<1>1. IsFiniteSet(S) /\ Cardinality(S) <= NumSlots
  BY SlotRange, FS_Subset
<1>2. Cardinality(S) \in Nat
  BY <1>1, FS_CardinalityType
<1> QED  BY <1>1, <1>2, LobbyAssumption

\* As many slots as clients that have them.
LEMMA Counted ==
    ASSUME NEW S \in SUBSET Clients,
           \A c \in S : slot[c] \in Slots,
           \A c, d \in S : slot[c] = slot[d] => c = d
    PROVE  /\ IsFiniteSet(S)
           /\ Cardinality(S) = Cardinality({slot[c] : c \in S})
<1> DEFINE T == {slot[c] : c \in S}
           f == [c \in S |-> slot[c]]
<1>1. T \in SUBSET Slots
  OBVIOUS
<1>2. IsFiniteSet(T)
  BY <1>1, SlotSets
<1>3. f \in Injection(S, T) /\ f \in Surjection(S, T)
  BY DEF Injection, Surjection, IsInjective
<1>4. IsFiniteSet(S) /\ (Cardinality(S) = Cardinality(T) <=> f \in Surjection(S, T))
  BY <1>2, <1>3, FS_Injection
<1> QED  BY <1>3, <1>4

\* Players in different slots have different numbers.
LEMMA NumbersDiffer ==
    ASSUME NEW players \in SUBSET Slots,
           NEW c \in Clients \ Drones, NEW d \in Clients \ Drones,
           slot[c] \in players, slot[d] \in players, slot[c] < slot[d]
    PROVE  PlayerNumber(c, players) # PlayerNumber(d, players)
<1> DEFINE below == {i \in players : i < slot[c]}
           above == {i \in players : i < slot[d]}
<1>1. below \in SUBSET above /\ slot[c] \in above /\ slot[c] \notin below
  <2>1. slot[c] \in Nat /\ slot[d] \in Nat /\ players \subseteq Nat
    BY SlotRange
  <2>2. \A i \in players : i < slot[c] => i < slot[d]
    BY <2>1
  <2>3. ~(slot[c] < slot[c])
    BY <2>1
  <2> QED  BY <2>2, <2>3
<1>2. IsFiniteSet(above) /\ above \in SUBSET Slots
  BY SlotSets
<1>3. Cardinality(below) # Cardinality(above)
  BY <1>1, <1>2, FS_Subset
<1> QED  BY <1>3 DEF PlayerNumber

LEMMA NumberType ==
    ASSUME NEW players \in SUBSET Slots, NEW c \in Clients
    PROVE  PlayerNumber(c, players) \in -1..NumSlots
<1>1. {i \in players : i < slot[c]} \in SUBSET Slots
  OBVIOUS
<1>2. Cardinality({i \in players : i < slot[c]}) \in 0..NumSlots
  BY <1>1, SlotSets
<1> QED  BY <1>2, LobbyAssumption DEF PlayerNumber

LEMMA PlayersTyped == TypeOK => PlayerSlots \in SUBSET Slots
  BY DEF TypeOK, PlayerSlots, Connected, Active

\* NET_SV_NumPlayers right after NET_SV_AssignPlayers.
LEMMA NumPlayersNow ==
    ASSUME TypeOK, Records
    PROVE  NumPlayers(PlayerSlots) = Cardinality(PlayerSlots)
<1> DEFINE S == {c \in Connected : slot[c] \in PlayerSlots}
<1>1. S \in SUBSET Clients /\ \A c \in S : slot[c] \in Slots
  BY DEF Connected, Active, TypeOK
<1>2. \A c, d \in S : slot[c] = slot[d] => c = d
  BY DEF Records, Connected
<1>3. {slot[c] : c \in S} = PlayerSlots
  BY DEF PlayerSlots
<1> QED  BY <1>1, <1>2, <1>3, Counted DEF NumPlayers

-----------------------------------------------------------------------------
(* Types.                                                                  *)

ToClient == [type : {"SYN", "LAUNCH"}] \cup GameStart

LEMMA WithoutType ==
    ASSUME NEW s \in Seq(Clients), NEW c PROVE Without(s, c) \in Seq(Clients)
<1>1. CASE \E i \in DOMAIN s : s[i] = c
  <2> DEFINE at == CHOOSE i \in DOMAIN s : s[i] = c
  <2>1. at \in 1..Len(s)
    BY <1>1
  <2> HIDE DEF at
  <2>2. SubSeq(s, 1, at - 1) \in Seq(Clients) /\ SubSeq(s, at + 1, Len(s)) \in Seq(Clients)
    BY <2>1
  <2>3. SubSeq(s, 1, at - 1) \o SubSeq(s, at + 1, Len(s)) \in Seq(Clients)
    BY <2>2
  <2>4. Without(s, c) = SubSeq(s, 1, at - 1) \o SubSeq(s, at + 1, Len(s))
    BY <1>1 DEF Without, at
  <2> QED  BY <2>3, <2>4
<1>2. CASE ~\E i \in DOMAIN s : s[i] = c
  BY <1>2 DEF Without
<1> QED  BY <1>1, <1>2

LEMMA InitTypes == Init => TypeOK
  BY SlotRange, LobbyAssumption
     DEF Init, TypeOK, ConnState, Where, InGame, Slots

LEMMA BroadcastTyped ==
    ASSUME TypeOK, NEW message, \A d \in Connected : message[d] \in ToClient,
           Broadcast(message)
    PROVE  /\ toClient' \in [Clients -> Seq(ToClient)]
           /\ sent' \in [Clients -> {"SYN", "LAUNCH", "GAMESTART"}]
<1>1. toClient \in [Clients -> Seq(ToClient)]
  BY DEF TypeOK, ToClient
<1>2. sent \in [Clients -> {"SYN", "LAUNCH", "GAMESTART"}]
  BY DEF TypeOK
<1>3. \A c \in Clients : c \in Connected => message[c].type \in {"SYN", "LAUNCH", "GAMESTART"}
  BY DEF ToClient, GameStart
<1>4. toClient' \in [Clients -> Seq(ToClient)]
  BY <1>1 DEF Broadcast
<1>5. sent' \in [Clients -> {"SYN", "LAUNCH", "GAMESTART"}]
  BY <1>2, <1>3 DEF Broadcast
<1> QED  BY <1>4, <1>5

\* What StartGame sends.
Message(from) ==
    [d \in Connected |-> [type |-> "GAMESTART", from |-> from,
                          players |-> Cardinality(PlayerSlots),
                          console |-> PlayerNumber(d, PlayerSlots)]]

LEMMA StartGameSends ==
    ASSUME TypeOK, Records, NEW from \in Clients \cup {None}, StartGame(from)
    PROVE  /\ Broadcast(Message(from))
           /\ serverState' = "IN_GAME" /\ svPlayers' = PlayerSlots
           /\ \A d \in Connected : Message(from)[d] \in GameStart
<1>1. svPlayers' = PlayerSlots /\ serverState' = "IN_GAME"
  BY DEF StartGame
<1>2. NumPlayers(svPlayers') = Cardinality(PlayerSlots)
  BY <1>1, NumPlayersNow
<1>3. Broadcast(Message(from))
  BY <1>1, <1>2 DEF StartGame, Message
<1>4. ASSUME NEW d \in Connected PROVE Message(from)[d] \in GameStart
  <2>1. Cardinality(PlayerSlots) \in 0..NumSlots
    BY PlayersTyped, SlotSets
  <2>2. PlayerNumber(d, PlayerSlots) \in -1..NumSlots
    BY PlayersTyped, NumberType DEF Connected, Active
  <2> QED  BY <2>1, <2>2 DEF Message, GameStart
<1> QED  BY <1>1, <1>3, <1>4

LEMMA StartGameTyped ==
    ASSUME TypeOK, Records, NEW from \in Clients \cup {None}, StartGame(from)
    PROVE  /\ toClient' \in [Clients -> Seq(ToClient)]
           /\ sent' \in [Clients -> {"SYN", "LAUNCH", "GAMESTART"}]
           /\ serverState' = "IN_GAME" /\ svPlayers' \in SUBSET Slots
<1>1. \A d \in Connected : Message(from)[d] \in ToClient
  BY StartGameSends DEF ToClient
<1> QED  BY <1>1, StartGameSends, BroadcastTyped, PlayersTyped

LEMMA NextKeepsTypes == TypeOK /\ Records /\ [Next]_vars => TypeOK'
<1> SUFFICES ASSUME TypeOK, Records, [Next]_vars PROVE TypeOK'
  OBVIOUS
<1>1. CASE StartPass
  BY <1>1, LobbyAssumption DEF StartPass, TypeOK, svVars, recordVars, clientVars, netVars
<1>2. CASE SkipSlot
  BY <1>2, LobbyAssumption DEF SkipSlot, RunsSlot, TypeOK, svVars, recordVars, clientVars, netVars
<1>3. CASE EndPass
  <2>1. CASE serverState = "WAITING_START" /\ AllNodesReady(ready)
    <3>1. StartGame(svSettings) /\ svSettings \in Clients \cup {None} /\ turn' = 0
      BY <1>3, <2>1 DEF EndPass, TypeOK
    <3>2. UNCHANGED <<svMode, svSettings, slot, conn, ready, joined, clientVars, syn,
                      rejected, toServer>>
      BY <1>3 DEF EndPass
    <3> QED  BY <3>1, <3>2, StartGameTyped, LobbyAssumption DEF TypeOK, ToClient, clientVars
  <2>2. CASE ~(serverState = "WAITING_START" /\ AllNodesReady(ready))
    BY <1>3, <2>2, LobbyAssumption DEF EndPass, TypeOK, clientVars
  <2> QED  BY <2>1, <2>2
<1>4. ASSUME NEW c \in Clients, ParseSYN(c) PROVE TypeOK'
  <2>1. CASE NotAccepting(c)
    BY <2>1 DEF NotAccepting, SendReject, TypeOK, svVars, recordVars, clientVars
  <2>2. CASE ServerFull(c)
    BY <2>2, PlayersTyped DEF ServerFull, Accepting, SendReject, TypeOK, recordVars, clientVars
  <2>3. CASE WrongGame(c)
    BY <2>3, PlayersTyped DEF WrongGame, Accepting, SendReject, TypeOK, recordVars, clientVars
  <2>4. CASE DuplicateSYN(c)
    BY <2>4, PlayersTyped
       DEF DuplicateSYN, Accepting, AdoptedMode, TypeOK, recordVars, clientVars, netVars
  <2>5. CASE NewClient(c)
    <3>1. slot' \in [Clients -> Slots \cup {None}]
      <4>1. FreeSlots # {} => Least(FreeSlots) \in Slots
        BY LeastSlot DEF FreeSlots
      <4> QED  BY <2>5, <4>1 DEF NewClient, TypeOK
    <3>2. joined' \in Seq(Clients)
      <4>1. Without(joined, c) \in Seq(Clients)
        BY WithoutType DEF TypeOK
      <4> QED  BY <2>5, <4>1 DEF NewClient
    <3>3. toClient' \in [Clients -> Seq(ToClient)]
      <4>1. [type |-> "SYN"] \in ToClient
        BY DEF ToClient
      <4>2. toClient \in [Clients -> Seq(ToClient)]
        BY DEF TypeOK, ToClient
      <4> QED  BY <2>5, <4>1, <4>2 DEF NewClient
    <3>4. svMode' \in {ModeOf[d] : d \in Clients} \cup {None}
      BY <2>5 DEF NewClient, AdoptedMode, TypeOK
    <3>5. conn' \in [Clients -> ConnState] /\ ready' \in [Clients -> BOOLEAN]
          /\ sent' \in [Clients -> {"SYN", "LAUNCH", "GAMESTART"}]
      BY <2>5 DEF NewClient, TypeOK, ConnState
    <3>6. svPlayers' \in SUBSET Slots
      BY <2>5, PlayersTyped DEF NewClient, Accepting
    <3> QED
      BY <2>5, <3>1, <3>2, <3>3, <3>4, <3>5, <3>6
         DEF NewClient, Accepting, TypeOK, clientVars, ToClient
  <2> QED  BY <1>4, <2>1, <2>2, <2>3, <2>4, <2>5 DEF ParseSYN
<1>5. ASSUME NEW c \in Clients, ParseLaunch(c) PROVE TypeOK'
  <2>1. toServer' \in [Clients -> Seq([type : {"LAUNCH", "GAMESTART"}, valid : BOOLEAN])]
    BY <1>5 DEF ParseLaunch, ServerReceives, TypeOK
  <2>2. /\ toClient' \in [Clients -> Seq(ToClient)]
        /\ sent' \in [Clients -> {"SYN", "LAUNCH", "GAMESTART"}]
        /\ svPlayers' \in SUBSET Slots
        /\ serverState' \in {"WAITING_LAUNCH", "WAITING_START", "IN_GAME"}
    <3>1. CASE c = Controller /\ serverState = "WAITING_LAUNCH"
      <4> DEFINE message == [d \in Connected |-> [type |-> "LAUNCH"]]
      <4>1. \A d \in Connected : message[d] \in ToClient
        BY DEF ToClient
      <4>2. Broadcast(message) /\ svPlayers' = PlayerSlots /\ serverState' = "WAITING_START"
        BY <1>5, <3>1 DEF ParseLaunch
      <4> HIDE DEF message
      <4> QED  BY <4>1, <4>2, BroadcastTyped, PlayersTyped
    <3>2. CASE ~(c = Controller /\ serverState = "WAITING_LAUNCH")
      BY <1>5, <3>2 DEF ParseLaunch, TypeOK, ToClient
    <3> QED  BY <3>1, <3>2
  <2> QED
    BY <1>5, <2>1, <2>2 DEF ParseLaunch, ServerReceives, TypeOK, ToClient, clientVars
<1>6. ASSUME NEW c \in Clients, ParseGameStart(c) PROVE TypeOK'
  <2>1. toServer' \in [Clients -> Seq([type : {"LAUNCH", "GAMESTART"}, valid : BOOLEAN])]
    BY <1>6 DEF ParseGameStart, ServerReceives, TypeOK
  <2>2. /\ ready' \in [Clients -> BOOLEAN] /\ svSettings' \in Clients \cup {None}
    BY <1>6 DEF ParseGameStart, TypeOK
  <2>3. /\ toClient' \in [Clients -> Seq(ToClient)]
        /\ sent' \in [Clients -> {"SYN", "LAUNCH", "GAMESTART"}]
        /\ svPlayers' \in SUBSET Slots
        /\ serverState' \in {"WAITING_LAUNCH", "WAITING_START", "IN_GAME"}
    <3>1. CASE StartGame(svSettings')
      BY <3>1, <2>2, StartGameTyped
    <3>2. CASE /\ svPlayers' \in {PlayerSlots, svPlayers}
               /\ UNCHANGED <<serverState, toClient, sent>>
      BY <3>2, PlayersTyped DEF TypeOK, ToClient
    <3> QED  BY <1>6, <3>1, <3>2 DEF ParseGameStart
  <2>4. UNCHANGED <<svMode, turn, slot, conn, joined, clientVars, syn, rejected>>
    BY <1>6 DEF ParseGameStart, ServerReceives
  <2>5. {ready, waiting, told, hungUp, syn, rejected}' \subseteq [Clients -> BOOLEAN]
    BY <2>2, <2>4 DEF TypeOK, clientVars
  <2>6. /\ svMode' \in {ModeOf[d] : d \in Clients} \cup {None} /\ turn' \in 0..NumSlots + 1
        /\ slot' \in [Clients -> Slots \cup {None}] /\ conn' \in [Clients -> ConnState]
        /\ joined' \in Seq(Clients) /\ game' \in [Clients -> GameStart \cup {None}]
        /\ where' \in [Clients -> Where]
        /\ clientState' \in [Clients -> {"WAITING_LAUNCH", "WAITING_START", "IN_GAME"}]
    BY <2>4 DEF TypeOK, clientVars
  <2> QED
    BY <2>1, <2>2, <2>3, <2>5, <2>6 DEF TypeOK, ToClient
<1>7. ASSUME NEW c \in Clients, ParseDisconnect(c) \/ ParseDisconnectACK(c) PROVE TypeOK'
  <2>1. conn' \in [Clients -> ConnState]
    BY <1>7 DEF ParseDisconnect, ParseDisconnectACK, TypeOK, ConnState
  <2>2. UNCHANGED <<svVars, turn, slot, ready, joined, sent, clientVars, netVars>>
    BY <1>7 DEF ParseDisconnect, ParseDisconnectACK
  <2> QED  BY <2>1, <2>2 DEF TypeOK, svVars, clientVars, netVars
<1>8. ASSUME NEW c \in Clients, RunClientStays(c) PROVE TypeOK'
  <2>1. svPlayers' \in SUBSET Slots /\ told' \in [Clients -> BOOLEAN]
    BY <1>8, PlayersTyped DEF RunClientStays, TypeOK
  <2>2. turn' \in 0..NumSlots + 1
    BY <1>8, LobbyAssumption DEF RunClientStays, RunsSlot
  <2>3. UNCHANGED <<serverState, svMode, svSettings, recordVars, where, clientState, waiting,
                    game, hungUp, netVars>>
    BY <1>8 DEF RunClientStays
  <2> QED  BY <2>1, <2>2, <2>3 DEF TypeOK, recordVars, netVars
<1>9. ASSUME NEW c \in Clients, RunClientGoes(c) PROVE TypeOK'
  <2>1. turn' \in 0..NumSlots + 1
    BY <1>9, LobbyAssumption DEF RunClientGoes, RunsSlot
  <2>2. joined' \in Seq(Clients)
    BY <1>9, WithoutType DEF RunClientGoes, TypeOK
  <2>3. conn' \in [Clients -> ConnState]
    BY <1>9 DEF RunClientGoes, TypeOK, ConnState
  <2>4. toServer' \in [Clients -> Seq([type : {"LAUNCH", "GAMESTART"}, valid : BOOLEAN])]
    BY <1>9 DEF RunClientGoes, TypeOK
  <2> QED
    BY <1>9, <2>1, <2>2, <2>3, <2>4 DEF RunClientGoes, TypeOK, clientVars
<1>10. ASSUME NEW c \in Clients, ClientStep(c) PROVE TypeOK'
  <2>1. CASE StartConnect(c)
    BY <2>1 DEF StartConnect, Goes, TypeOK, Where, svVars, recordVars
  <2>2. ASSUME NEW says \in BOOLEAN, Close(c, says) PROVE TypeOK'
    BY <2>2 DEF Close, Goes, TypeOK, Where, svVars, recordVars
  <2>3. CASE ClientParseSYN(c)
    BY <2>3 DEF ClientParseSYN, ClientReceives, Goes, TypeOK, Where, svVars, recordVars
  <2>4. CASE ConnectReturns(c)
    BY <2>4 DEF ConnectReturns, Goes, TypeOK, Where, InGame, svVars, recordVars, netVars
  <2>5. CASE ClientParseLaunch(c)
    BY <2>5 DEF ClientParseLaunch, ClientReceives, Goes, TypeOK, Where, svVars, recordVars
  <2>6. CASE ClientParseGameStart(c)
    <3>1. toClient[c] \in Seq(ToClient) /\ toClient[c] # << >> /\ Head(toClient[c]).type = "GAMESTART"
      BY <2>6 DEF ClientParseGameStart, ClientReceives, TypeOK, ToClient
    <3>2. Head(toClient[c]) \in GameStart
      BY <3>1 DEF ToClient
    <3>3. toClient' \in [Clients -> Seq(ToClient)]
      BY <2>6 DEF ClientParseGameStart, ClientReceives, TypeOK, ToClient
    <3>4. clientState' \in [Clients -> {"WAITING_LAUNCH", "WAITING_START", "IN_GAME"}]
      <4>1. clientState' \in {clientState, [clientState EXCEPT ![c] = "IN_GAME"]}
        BY <2>6, Zenon DEF ClientParseGameStart
      <4> QED  BY <4>1 DEF TypeOK
    <3>5. game' \in [Clients -> GameStart \cup {None}]
      BY <2>6, <3>2 DEF ClientParseGameStart, TypeOK
    <3> QED
      BY <2>6, <3>3, <3>4, <3>5
         DEF ClientParseGameStart, ClientReceives, Goes, TypeOK, ToClient, svVars, recordVars
  <2>7. CASE LaunchGame(c)
    BY <2>7 DEF LaunchGame, Goes, TypeOK, Where, InGame, svVars, recordVars
  <2>8. CASE StartNetGame(c)
    BY <2>8 DEF StartNetGame, Goes, TypeOK, Where, InGame, svVars, recordVars
  <2>9. CASE EnterGame(c)
    BY <2>9 DEF EnterGame, Goes, TypeOK, Where, InGame, svVars, recordVars, netVars
  <2> QED
    BY <1>10, <2>1, <2>2, <2>3, <2>4, <2>5, <2>6, <2>7, <2>8, <2>9
       DEF ClientStep, ClientParseReject, ConnectTimeout, LostConnection, Crash, Quit
<1>11. CASE UNCHANGED vars
  BY <1>11 DEF vars, svVars, recordVars, clientVars, netVars, TypeOK
<1> QED
  BY <1>1, <1>2, <1>3, <1>4, <1>5, <1>6, <1>7, <1>8, <1>9, <1>10, <1>11 DEF Next, Handlers

-----------------------------------------------------------------------------
(* The kinds of steps, by what they do to the table and to the server's    *)
(* state: a client is added, one is removed, LAUNCH or GAMESTART goes out  *)
(* to all, or the table can only lose a connection.                        *)

Launches ==
    /\ serverState = "WAITING_LAUNCH" /\ serverState' = "WAITING_START"
    /\ Active # {}
    /\ Broadcast([d \in Connected |-> [type |-> "LAUNCH"]])
    /\ UNCHANGED <<svMode, slot, conn, clientVars, syn>>

Begins ==
    /\ serverState = "WAITING_START"
    /\ svSettings' \in Clients \cup {None} /\ StartGame(svSettings')
    /\ UNCHANGED <<svMode, slot, conn, clientVars, syn>>

Calm ==
    /\ UNCHANGED <<serverState, slot, sent>>
    /\ \A c \in Clients : conn'[c] = conn[c] \/ conn'[c] # "CONNECTED"
    /\ svMode' = svMode \/ \E c \in Clients : DuplicateSYN(c)
    /\ serverState = "IN_GAME" => UNCHANGED <<svSettings, svPlayers>>
    /\ \/ \E c \in Clients : ClientStep(c)
       \/ /\ UNCHANGED <<where, clientState, game, syn, toClient>>
          /\ \A c \in Clients : conn'[c] = conn[c] \/ conn'[c] # "DISCONNECTED"
                                           \/ where[c] = "closed"

LEMMA Kinds ==
    TypeOK /\ [Next]_vars =>
        \/ \E c \in Clients : NewClient(c) \/ RunClientGoes(c)
        \/ Launches \/ Begins \/ Calm
<1> SUFFICES ASSUME TypeOK, [Next]_vars
             PROVE  \/ \E c \in Clients : NewClient(c) \/ RunClientGoes(c)
                    \/ Launches \/ Begins \/ Calm
  OBVIOUS
<1>1. CASE StartPass \/ SkipSlot \/ UNCHANGED vars
  <2>1. UNCHANGED <<svVars, recordVars, clientVars, netVars>>
    BY <1>1 DEF StartPass, SkipSlot, vars
  <2> QED  BY <2>1 DEF Calm, svVars, recordVars, clientVars, netVars
<1>2. CASE EndPass
  <2>1. UNCHANGED <<svMode, svSettings, slot, conn, clientVars, syn>>
    BY <1>2 DEF EndPass
  <2>2. CASE serverState = "WAITING_START" /\ StartGame(svSettings)
    BY <2>1, <2>2 DEF Begins, TypeOK
  <2>3. CASE UNCHANGED <<serverState, svPlayers, toClient, sent>>
    BY <2>1, <2>3 DEF Calm, clientVars
  <2> QED  BY <1>2, <2>2, <2>3 DEF EndPass
<1>3. ASSUME NEW c \in Clients, ParseSYN(c), ~NewClient(c) PROVE Calm
  <2>1. CASE NotAccepting(c)
    BY <2>1 DEF NotAccepting, SendReject, Calm, svVars, recordVars, clientVars
  <2>2. CASE ServerFull(c) \/ WrongGame(c)
    BY <2>2 DEF ServerFull, WrongGame, Accepting, SendReject, Calm, recordVars, clientVars
  <2>3. CASE DuplicateSYN(c)
    <3>1. UNCHANGED <<serverState, slot, sent, conn>> /\ serverState = "WAITING_LAUNCH"
      BY <2>3 DEF DuplicateSYN, Accepting, recordVars
    <3>2. UNCHANGED <<clientVars, netVars>>
      BY <2>3 DEF DuplicateSYN
    <3> QED  BY <2>3, <3>1, <3>2 DEF Calm, clientVars, netVars
  <2> QED  BY <1>3, <2>1, <2>2, <2>3 DEF ParseSYN
<1>4. ASSUME NEW c \in Clients, ParseLaunch(c) PROVE Launches \/ Calm
  <2>1. UNCHANGED <<svMode, svSettings, slot, conn, clientVars, syn>> /\ slot[c] # None
    BY <1>4 DEF ParseLaunch, ServerReceives
  <2>2. CASE c = Controller /\ serverState = "WAITING_LAUNCH"
    <3>1. serverState' = "WAITING_START" /\ Broadcast([d \in Connected |-> [type |-> "LAUNCH"]])
      BY <1>4, <2>2 DEF ParseLaunch
    <3> QED  BY <2>1, <2>2, <3>1 DEF Launches, Active
  <2>3. CASE UNCHANGED <<serverState, svPlayers, toClient, sent>>
    BY <2>1, <2>3 DEF Calm, clientVars
  <2> QED  BY <1>4, <2>2, <2>3 DEF ParseLaunch
<1>5. ASSUME NEW c \in Clients, ParseGameStart(c) PROVE Begins \/ Calm
  <2>1. UNCHANGED <<svMode, slot, conn, clientVars, syn>>
    BY <1>5 DEF ParseGameStart, ServerReceives
  <2>2. CASE serverState = "WAITING_START" /\ StartGame(svSettings')
    <3>1. svSettings' \in Clients \cup {None}
      BY <1>5 DEF ParseGameStart, TypeOK
    <3> QED  BY <2>1, <2>2, <3>1 DEF Begins
  <2>3. CASE /\ UNCHANGED <<serverState, toClient, sent>>
             /\ serverState = "WAITING_START" \/ UNCHANGED <<svSettings, svPlayers>>
    BY <2>1, <2>3 DEF Calm, clientVars
  <2> QED  BY <1>5, <2>2, <2>3 DEF ParseGameStart
<1>6. ASSUME NEW c \in Clients, ParseDisconnect(c) \/ ParseDisconnectACK(c) PROVE Calm
  <2>1. UNCHANGED <<svVars, slot, sent, clientVars, netVars>>
    BY <1>6 DEF ParseDisconnect, ParseDisconnectACK
  <2>2. \A d \in Clients : \/ conn'[d] = conn[d]
                           \/ conn'[d] = "DISCONNECTED_SLEEP"
                           \/ conn'[d] = "DISCONNECTED" /\ where[d] = "closed"
    BY <1>6 DEF ParseDisconnect, ParseDisconnectACK, TypeOK
  <2> QED  BY <2>1, <2>2 DEF Calm, svVars, clientVars, netVars
<1>7. ASSUME NEW c \in Clients, RunClientStays(c) PROVE Calm
  BY <1>7 DEF RunClientStays, Calm, recordVars, netVars
<1>8. ASSUME NEW c \in Clients, ClientStep(c) PROVE Calm
  <2>1. UNCHANGED <<svVars, recordVars>>
    BY <1>8 DEF ClientStep, ClientParseReject, ConnectTimeout, LostConnection, Crash, Quit,
                Close, StartConnect, ClientParseSYN, ConnectReturns, ClientParseLaunch,
                ClientParseGameStart, LaunchGame, StartNetGame, EnterGame, Goes
  <2> QED  BY <1>8, <2>1 DEF Calm, svVars, recordVars
<1> QED
  BY <1>1, <1>2, <1>3, <1>4, <1>5, <1>6, <1>7, <1>8 DEF Next, Handlers

\* What a step does to the set of clients connected.
LEMMA Losing == Calm => Connected' \subseteq Connected /\ Active' = Active
  BY DEF Calm, Connected, Active

LEMMA Keeping == Launches \/ Begins => Connected' = Connected /\ Active' = Active
  BY DEF Launches, Begins, Connected, Active

LEMMA Adding ==
    ASSUME TypeOK, NEW c \in Clients, NewClient(c)
    PROVE  /\ Connected' = Connected \cup {c} /\ c \notin Connected
           /\ \A d \in Clients \ {c} : slot'[d] = slot[d]
           /\ slot'[c] \in Slots
<1>1. c \notin Connected
  BY DEF NewClient, Known, Connected, Active
<1>2. slot' = [slot EXCEPT ![c] = IF @ = None THEN Least(FreeSlots) ELSE @]
      /\ conn' = [conn EXCEPT ![c] = "CONNECTED"]
      /\ (slot[c] # None \/ FreeSlots # {})
  BY DEF NewClient
<1>3. slot'[c] \in Slots
  <2>1. FreeSlots # {} => Least(FreeSlots) \in Slots
    BY LeastSlot DEF FreeSlots
  <2> QED  BY <1>2, <2>1 DEF TypeOK
<1>4. \A d \in Clients \ {c} : slot'[d] = slot[d] /\ conn'[d] = conn[d]
  BY <1>2 DEF TypeOK
<1>5. conn'[c] = "CONNECTED" /\ slot'[c] # None
  BY <1>2, <1>3, SlotRange DEF TypeOK
<1> QED  BY <1>1, <1>3, <1>4, <1>5 DEF Connected, Active

\* Whom NET_SV_GameEnded hangs up on, and whom not.
LEMMA Removing ==
    ASSUME TypeOK, NEW c \in Clients, RunClientGoes(c)
    PROVE  \/ /\ serverState' = "WAITING_LAUNCH" /\ Connected' = {}
           \/ /\ UNCHANGED <<serverState, svMode>> /\ Connected' = Connected \ {c}
              /\ Connected' # {}
<1> DEFINE aborted == serverState = "WAITING_START" /\ c \notin Drones
           nobody == \A d \in Connected \ {c} : slot[d] \notin svPlayers
<1>1. /\ slot' = [slot EXCEPT ![c] = None]
      /\ \A d \in Clients \ {c} : conn'[d] = IF d \in Connected
                                             THEN IF aborted \/ nobody THEN "DISCONNECTING"
                                                                       ELSE "CONNECTED"
                                             ELSE conn[d]
      /\ aborted \/ nobody => serverState' = "WAITING_LAUNCH"
      /\ ~(aborted \/ nobody) => UNCHANGED <<serverState, svMode>>
  BY DEF RunClientGoes
<1>2. c \notin Connected' /\ \A d \in Clients \ {c} : slot'[d] = slot[d]
  BY <1>1 DEF Connected, Active, TypeOK
<1>3. CASE aborted \/ nobody
  BY <1>1, <1>2, <1>3 DEF Connected, Active
<1>4. CASE ~(aborted \/ nobody)
  <2>1. Connected' = Connected \ {c}
    BY <1>1, <1>2, <1>4 DEF Connected, Active
  <2> QED  BY <1>1, <1>4, <2>1
<1> QED  BY <1>3, <1>4

-----------------------------------------------------------------------------
(* The invariants of the table.                                            *)

LEMMA NextKeepsRecords == TypeOK /\ Records /\ [Next]_vars => Records'
<1> SUFFICES ASSUME TypeOK, Records, [Next]_vars PROVE Records'
  OBVIOUS
<1>1. ASSUME NEW c \in Clients, NewClient(c) PROVE Records'
  <2>1. /\ \A d \in Clients \ {c} : slot'[d] = slot[d]
        /\ slot[c] # None => slot'[c] = slot[c]
    BY <1>1, Adding DEF NewClient, TypeOK
  <2>2. ASSUME slot[c] = None, NEW d \in Active \ {c} PROVE slot'[c] # slot[d]
    <3>1. FreeSlots # {} /\ slot'[c] = Least(FreeSlots)
      BY <1>1, <2>2 DEF NewClient, TypeOK
    <3>2. slot'[c] \in FreeSlots
      BY <3>1, LeastSlot DEF FreeSlots
    <3> QED  BY <3>2 DEF FreeSlots
  <2> QED  BY <2>1, <2>2 DEF Records, Active
<1>2. ASSUME NEW c \in Clients, RunClientGoes(c) PROVE Records'
  BY <1>2 DEF RunClientGoes, Records, Active, TypeOK
<1>3. CASE Launches \/ Begins \/ Calm
  BY <1>3 DEF Launches, Begins, Calm, Records, Active
<1> QED  BY <1>1, <1>2, <1>3, Kinds

LEMMA NextKeepsTold == TypeOK /\ NobodyLeftBehind /\ [Next]_vars => NobodyLeftBehind'
<1> SUFFICES ASSUME TypeOK, NobodyLeftBehind, [Next]_vars PROVE NobodyLeftBehind'
  OBVIOUS
<1>1. ASSUME NEW c \in Clients, NewClient(c) PROVE NobodyLeftBehind'
  <2>1. /\ serverState = "WAITING_LAUNCH" /\ serverState' = "WAITING_LAUNCH"
        /\ sent' = [sent EXCEPT ![c] = "SYN"]
    BY <1>1 DEF NewClient, Accepting
  <2>2. sent'[c] = "SYN" /\ \A d \in Clients \ {c} : sent'[d] = sent[d]
    BY <2>1 DEF TypeOK
  <2> QED  BY <1>1, <2>1, <2>2, Adding DEF NobodyLeftBehind, Connected
<1>2. ASSUME NEW c \in Clients, RunClientGoes(c) PROVE NobodyLeftBehind'
  <2>1. sent' = sent
    BY <1>2 DEF RunClientGoes
  <2> QED  BY <1>2, <2>1, Removing DEF NobodyLeftBehind
<1>3. CASE Launches
  BY <1>3, Keeping DEF Launches, Broadcast, NobodyLeftBehind, Connected, Active
<1>4. CASE Begins
  <2>1. \A c \in Connected : sent'[c] = "GAMESTART"
    BY <1>4 DEF Begins, StartGame, Broadcast, Connected, Active
  <2>2. serverState' = "IN_GAME"
    BY <1>4 DEF Begins, StartGame
  <2> QED  BY <1>4, <2>1, <2>2, Keeping DEF NobodyLeftBehind
<1>5. CASE Calm
  BY <1>5, Losing DEF Calm, NobodyLeftBehind
<1> QED  BY <1>1, <1>2, <1>3, <1>4, <1>5, Kinds

LEMMA NextKeepsWaiting == TypeOK /\ EmptyMeansWaiting /\ [Next]_vars => EmptyMeansWaiting'
<1> SUFFICES ASSUME TypeOK, EmptyMeansWaiting, [Next]_vars PROVE EmptyMeansWaiting'
  OBVIOUS
<1>1. ASSUME NEW c \in Clients, NewClient(c) PROVE EmptyMeansWaiting'
  BY <1>1 DEF NewClient, Accepting, EmptyMeansWaiting
<1>2. ASSUME NEW c \in Clients, RunClientGoes(c) PROVE EmptyMeansWaiting'
  BY <1>2, Removing DEF EmptyMeansWaiting, Connected
<1>3. CASE Launches
  BY <1>3, Keeping DEF Launches, EmptyMeansWaiting
<1>4. CASE Begins
  BY <1>4, Keeping DEF Begins, EmptyMeansWaiting
<1>5. CASE Calm
  BY <1>5, Losing DEF Calm, EmptyMeansWaiting
<1> QED  BY <1>1, <1>2, <1>3, <1>4, <1>5, Kinds

LEMMA NextKeepsMode == TypeOK /\ PlayersAgreeOnMode /\ [Next]_vars => PlayersAgreeOnMode'
<1> SUFFICES ASSUME TypeOK, PlayersAgreeOnMode, [Next]_vars PROVE PlayersAgreeOnMode'
  OBVIOUS
<1>1. ASSUME PlayerSlots = {} PROVE Connected \ Drones = {}
  BY <1>1 DEF PlayerSlots
<1>2. ASSUME NEW c \in Clients, NewClient(c) PROVE PlayersAgreeOnMode'
  <2>1. svMode' = AdoptedMode(c) /\ AdoptedMode(c) = ModeOf[c]
    BY <1>2 DEF NewClient
  <2>2. PlayerSlots # {} => svMode' = svMode
    BY <2>1 DEF AdoptedMode
  <2> QED  BY <1>1, <1>2, <2>1, <2>2, Adding DEF PlayersAgreeOnMode
<1>3. ASSUME NEW c \in Clients, DuplicateSYN(c), Calm PROVE PlayersAgreeOnMode'
  <2>1. svMode' = AdoptedMode(c)
    BY <1>3 DEF DuplicateSYN
  <2>2. PlayerSlots # {} => svMode' = svMode
    BY <2>1 DEF AdoptedMode
  <2> QED  BY <1>1, <1>3, <2>2, Losing DEF PlayersAgreeOnMode
<1>4. ASSUME NEW c \in Clients, RunClientGoes(c) PROVE PlayersAgreeOnMode'
  BY <1>4, Removing DEF PlayersAgreeOnMode
<1>5. CASE Launches \/ Begins
  BY <1>5, Keeping DEF Launches, Begins, PlayersAgreeOnMode
<1>6. CASE Calm /\ svMode' = svMode
  BY <1>6, Losing DEF PlayersAgreeOnMode
<1>7. Calm => svMode' = svMode \/ \E c \in Clients : DuplicateSYN(c)
  BY DEF Calm
<1> QED  BY <1>2, <1>3, <1>4, <1>5, <1>6, <1>7, Kinds

-----------------------------------------------------------------------------
(* The players' limit.  max_players is a constant of each game's program,  *)
(* and players of two games are never connected together.                  *)

\* A game is never joined by more players than it takes, whatever SYNs are
\* repeated and whichever client's max_players is asked.
NotOverfull == \A c \in Connected : Cardinality(Connected \ Drones) <= MaxPlayers[c]

LimitsAgree ==
    /\ \A c \in Clients : MaxPlayers[c] \in Nat \ {0}
    /\ \A c, d \in Clients :
         c \in Drones \/ d \in Drones \/ ModeOf[c] = ModeOf[d] => MaxPlayers[c] = MaxPlayers[d]

LEMMA PlayersCounted ==
    ASSUME TypeOK, Records
    PROVE  /\ IsFiniteSet(Connected \ Drones)
           /\ Cardinality(Connected \ Drones) = Cardinality(PlayerSlots)
           /\ Cardinality(Connected \ Drones) \in Nat
<1>1. /\ Connected \ Drones \in SUBSET Clients
      /\ \A c \in Connected \ Drones : slot[c] \in Slots
      /\ \A c, d \in Connected \ Drones : slot[c] = slot[d] => c = d
  BY DEF Connected, Active, TypeOK, Records
<1>2. /\ IsFiniteSet(Connected \ Drones)
      /\ Cardinality(Connected \ Drones) = Cardinality({slot[c] : c \in Connected \ Drones})
  BY <1>1, Counted
<1> QED  BY <1>2, FS_CardinalityType DEF PlayerSlots

\* NET_SV_MaxPlayers asks a client that is connected.
LEMMA LimitOfOne ==
    ASSUME TypeOK, Connected # {}
    PROVE  \E c \in Connected : MaxNumPlayers = MaxPlayers[c]
<1> DEFINE T == {slot[c] : c \in Connected}
<1>1. T \in SUBSET Slots /\ T # {}
  <2>1. \A c \in Connected : slot[c] \in Slots
    BY DEF TypeOK, Connected, Active
  <2> QED  BY <2>1
<1>2. T \subseteq Nat
  BY <1>1, SlotRange
<1>3. PICK x \in T : \A y \in T : ~(<<y, x>> \in OpToRel(<, Nat))
  BY <1>1, <1>2, NatLessThanWellFounded, WFMin
<1>4. \A y \in T : x <= y
  <2> SUFFICES ASSUME NEW y \in T PROVE x <= y
    OBVIOUS
  <2>1. ~(y < x)
    BY <1>2, <1>3 DEF OpToRel
  <2> QED  BY <1>2, <2>1
<1>5. \E c \in Connected : \A d \in Connected : slot[c] <= slot[d]
  BY <1>3, <1>4
<1> QED  BY <1>5 DEF MaxNumPlayers

LEMMA NextKeepsLimit ==
    ASSUME LimitsAgree
    PROVE  TypeOK /\ Records /\ PlayersAgreeOnMode /\ NotOverfull /\ [Next]_vars
             => NotOverfull'
<1> SUFFICES ASSUME TypeOK, Records, PlayersAgreeOnMode, NotOverfull, [Next]_vars
             PROVE  NotOverfull'
  OBVIOUS
<1> DEFINE players == Connected \ Drones
<1>1. IsFiniteSet(players) /\ Cardinality(players) \in Nat
  BY PlayersCounted
<1>2. ASSUME Connected' \subseteq Connected PROVE NotOverfull'
  <2>1. players' \in SUBSET players
    BY <1>2
  <2>2. Cardinality(players') <= Cardinality(players) /\ IsFiniteSet(players')
    BY <1>1, <2>1, FS_Subset
  <2>3. Cardinality(players') \in Nat
    BY <2>2, FS_CardinalityType
  <2>4. ASSUME NEW c \in Connected' PROVE Cardinality(players') <= MaxPlayers[c]
    <3>1. c \in Connected /\ c \in Clients
      BY <1>2, <2>4 DEF Connected, Active
    <3>2. Cardinality(players) <= MaxPlayers[c] /\ MaxPlayers[c] \in Nat
      BY <3>1 DEF NotOverfull, LimitsAgree
    <3> QED  BY <1>1, <2>2, <2>3, <3>2
  <2> QED  BY <2>4 DEF NotOverfull
<1>3. ASSUME NEW c \in Clients, NewClient(c) PROVE NotOverfull'
  <2>1. Connected' = Connected \cup {c} /\ c \notin Connected
    BY <1>3, Adding
  <2>2. \A d, e \in Connected' : MaxPlayers[d] = MaxPlayers[e]
    <3>1. PlayersAgreeOnMode'
      BY NextKeepsMode
    <3>2. Connected' \subseteq Clients
      BY <2>1 DEF Connected, Active
    <3> QED  BY <3>1, <3>2 DEF PlayersAgreeOnMode, LimitsAgree
  <2>3. ~Full(c)
    BY <1>3 DEF NewClient
  <2>4. Cardinality(players') <= MaxPlayers[c]
    <3>1. CASE c \in Drones
      <4>1. players' = players
        BY <2>1, <3>1
      <4>2. CASE Connected = {}
        <5>1. Cardinality(players) = 0
          BY <4>2, FS_EmptySet
        <5> QED  BY <4>1, <5>1 DEF LimitsAgree
      <4>3. CASE Connected # {}
        <5>1. PICK d \in Connected : TRUE
          BY <4>3
        <5>2. Cardinality(players) <= MaxPlayers[d] /\ MaxPlayers[d] = MaxPlayers[c]
          BY <2>1, <2>2 DEF NotOverfull
        <5> QED  BY <4>1, <5>2
      <4> QED  BY <4>2, <4>3
    <3>2. CASE c \notin Drones
      <4>1. players' = players \cup {c} /\ c \notin players
        BY <2>1, <3>2
      <4>2. Cardinality(players') = Cardinality(players) + 1
        BY <1>1, <4>1, FS_AddElement
      <4>3. CASE Connected = {}
        <5>1. Cardinality(players) = 0
          BY <4>3, FS_EmptySet
        <5> QED  BY <4>2, <5>1 DEF LimitsAgree
      <4>4. CASE Connected # {}
        <5>1. PICK d \in Connected : MaxNumPlayers = MaxPlayers[d]
          BY <4>4, LimitOfOne
        <5>2. MaxPlayers[d] = MaxPlayers[c] /\ MaxPlayers[c] \in Nat
          BY <2>1, <2>2 DEF LimitsAgree
        <5>3. ~(Cardinality(players) >= MaxPlayers[c])
          BY <2>3, <3>2, <5>1, <5>2, PlayersCounted DEF Full
        <5> QED  BY <1>1, <4>2, <5>2, <5>3
      <4> QED  BY <4>3, <4>4
    <3> QED  BY <3>1, <3>2
  <2> QED  BY <2>1, <2>2, <2>4 DEF NotOverfull
<1>4. ASSUME NEW c \in Clients, RunClientGoes(c) PROVE Connected' \subseteq Connected
  BY <1>4, Removing
<1>5. CASE Launches \/ Begins \/ Calm
  BY <1>2, <1>5, Keeping, Losing
<1> QED  BY <1>2, <1>3, <1>4, <1>5, Kinds

-----------------------------------------------------------------------------
(* While a game runs nobody is renumbered.                                 *)

LEMMA NextFreezesNumbers ==
    TypeOK /\ [Next]_vars =>
        (serverState = "IN_GAME" /\ serverState' = "IN_GAME" => svPlayers' = svPlayers)
<1> SUFFICES ASSUME TypeOK, [Next]_vars, serverState = "IN_GAME"
             PROVE  svPlayers' = svPlayers
  OBVIOUS
<1>1. \A c \in Clients : ~NewClient(c)
  BY DEF NewClient, Accepting
<1>2. \A c \in Clients : RunClientGoes(c) => svPlayers' = svPlayers
  BY DEF RunClientGoes
<1> QED  BY <1>1, <1>2, Kinds DEF Launches, Begins, Calm

-----------------------------------------------------------------------------
(* What the clients read.                                                  *)

LEMMA TailStarts ==
    ASSUME NEW s \in Seq(ToClient), s # << >>
    PROVE  /\ GameStarts(Tail(s)) \subseteq GameStarts(s)
           /\ Head(s).type = "GAMESTART" => Head(s) \in GameStarts(s)
<1>1. Len(s) \in Nat \ {0} /\ DOMAIN s = 1..Len(s)
  OBVIOUS
<1>2. DOMAIN Tail(s) = 1..Len(s) - 1 /\ \A i \in 1..Len(s) - 1 : Tail(s)[i] = s[i + 1]
  BY <1>1
<1>3. \A i \in 1..Len(s) - 1 : i + 1 \in DOMAIN s
  BY <1>1
<1>4. 1 \in DOMAIN s /\ Head(s) = s[1]
  BY <1>1
<1> QED  BY <1>2, <1>3, <1>4 DEF GameStarts

LEMMA AppendStarts ==
    ASSUME NEW s \in Seq(ToClient), NEW m
    PROVE  GameStarts(Append(s, m)) \subseteq
             GameStarts(s) \cup IF m.type = "GAMESTART" THEN {m} ELSE {}
<1>1. /\ Len(s) \in Nat /\ DOMAIN s = 1..Len(s)
      /\ DOMAIN Append(s, m) = 1..Len(s) + 1
      /\ Append(s, m)[Len(s) + 1] = m
      /\ \A i \in 1..Len(s) : Append(s, m)[i] = s[i]
  OBVIOUS
<1>2. \A i \in 1..Len(s) + 1 : i = Len(s) + 1 \/ i \in 1..Len(s)
  BY <1>1
<1> QED  BY <1>1, <1>2 DEF GameStarts

LEMMA NoStarts == GameStarts(<< >>) = {} /\ GameStarts(<<[type |-> "SYN"]>>) = {}
  BY DEF GameStarts

LEMMA ClientView ==
    ASSUME TypeOK, NEW c \in Clients, ClientStep(c), NEW d \in Clients
    PROVE  /\ Starts(d)' \subseteq Starts(d)
           /\ clientState'[d] = "IN_GAME" =>
                \/ clientState[d] = "IN_GAME" /\ game'[d] = game[d]
                \/ game'[d] \in Starts(d) /\ Accepts(d, game'[d])
<1> DEFINE Goal == /\ Starts(d)' \subseteq Starts(d)
                   /\ clientState'[d] = "IN_GAME" =>
                        \/ clientState[d] = "IN_GAME" /\ game'[d] = game[d]
                        \/ game'[d] \in Starts(d) /\ Accepts(d, game'[d])
<1>0. toClient \in [Clients -> Seq(ToClient)]
  BY DEF TypeOK, ToClient
<1>1. ASSUME NEW type, ClientReceives(c, type)
      PROVE  /\ Starts(d)' \subseteq Starts(d)
             /\ toClient[c] \in Seq(ToClient) /\ toClient[c] # << >>
             /\ Head(toClient[c]).type = type
  <2>1. toClient[c] \in Seq(ToClient) /\ toClient[c] # << >> /\ Head(toClient[c]).type = type
    BY <1>0, <1>1 DEF ClientReceives
  <2>2. CASE d = c
    <3>1. toClient'[d] = Tail(toClient[d])
      BY <1>0, <1>1, <2>2 DEF ClientReceives
    <3> QED  BY <2>1, <2>2, <3>1, TailStarts DEF Starts
  <2>3. CASE d # c
    <3>1. toClient'[d] = toClient[d]
      BY <1>0, <1>1, <2>3 DEF ClientReceives
    <3> QED  BY <2>1, <3>1 DEF Starts
  <2> QED  BY <2>2, <2>3, <2>1
<1>2. CASE StartConnect(c) \/ LaunchGame(c) \/ StartNetGame(c) \/ EnterGame(c)
  <2>1. UNCHANGED <<toClient, clientState, game>>
    BY <1>2 DEF StartConnect, LaunchGame, StartNetGame, EnterGame, netVars
  <2> QED  BY <2>1 DEF Starts
<1>3. ASSUME NEW says, Close(c, says) PROVE Goal
  <2>1. CASE d = c
    <3>1. toClient'[d] = << >> /\ clientState'[d] = "WAITING_LAUNCH"
      BY <1>3, <2>1 DEF Close, TypeOK
    <3> QED  BY <3>1, NoStarts DEF Starts
  <2>2. CASE d # c
    <3>1. toClient'[d] = toClient[d] /\ clientState'[d] = clientState[d] /\ game'[d] = game[d]
      BY <1>3, <2>2 DEF Close, TypeOK
    <3> QED  BY <3>1 DEF Starts
  <2> QED  BY <2>1, <2>2
<1>4. CASE ClientParseSYN(c)
  BY <1>1, <1>4 DEF ClientParseSYN
<1>5. CASE ConnectReturns(c)
  <2>1. toClient' = toClient /\ game' = game
        /\ clientState' = [clientState EXCEPT ![c] = "WAITING_LAUNCH"]
    BY <1>5 DEF ConnectReturns, netVars
  <2>2. clientState'[d] = "IN_GAME" => clientState[d] = "IN_GAME"
    BY <2>1 DEF TypeOK
  <2> QED  BY <2>1, <2>2 DEF Starts
<1>6. CASE ClientParseLaunch(c)
  <2>1. game' = game /\ Starts(d)' \subseteq Starts(d)
    BY <1>1, <1>6 DEF ClientParseLaunch
  <2>2. clientState'[d] = "IN_GAME" => clientState[d] = "IN_GAME"
    BY <1>6 DEF ClientParseLaunch, TypeOK
  <2> QED  BY <2>1, <2>2
<1>7. CASE ClientParseGameStart(c)
  <2> DEFINE start == Head(toClient[c])
  <2>1. /\ Starts(d)' \subseteq Starts(d) /\ toClient[c] \in Seq(ToClient)
        /\ toClient[c] # << >> /\ start.type = "GAMESTART"
    BY <1>1, <1>7 DEF ClientParseGameStart
  <2>2. start \in Starts(c)
    BY <2>1, TailStarts DEF Starts
  <2>3. start \in GameStart
    <3>1. start \in ToClient
      BY <2>1
    <3> QED  BY <2>1, <3>1 DEF ToClient
  <2>4. \/ UNCHANGED <<clientState, game>>
        \/ /\ Accepts(c, start)
           /\ clientState' = [clientState EXCEPT ![c] = "IN_GAME"]
           /\ game' = [game EXCEPT ![c] = start]
    BY <1>7, <2>3 DEF ClientParseGameStart, Accepts
  <2>5. CASE UNCHANGED <<clientState, game>>
    BY <2>1, <2>5
  <2>6. CASE /\ Accepts(c, start)
             /\ clientState' = [clientState EXCEPT ![c] = "IN_GAME"]
             /\ game' = [game EXCEPT ![c] = start]
    <3>1. CASE d = c
      <4>1. game'[d] = start
        BY <2>6, <3>1 DEF TypeOK
      <4> QED  BY <2>1, <2>2, <2>6, <3>1, <4>1
    <3>2. CASE d # c
      <4>1. game'[d] = game[d] /\ clientState'[d] = clientState[d]
        BY <2>6, <3>2 DEF TypeOK
      <4> QED  BY <2>1, <4>1
    <3> QED  BY <3>1, <3>2
  <2> QED  BY <2>4, <2>5, <2>6
<1> QED
  BY <1>2, <1>3, <1>4, <1>5, <1>6, <1>7
     DEF ClientStep, ClientParseReject, ConnectTimeout, LostConnection, Crash, Quit

-----------------------------------------------------------------------------
(* What goes out to all reaches those connected only.                      *)

LEMMA BroadcastView ==
    ASSUME TypeOK, NEW message, Broadcast(message), NEW d \in Clients
    PROVE  /\ d \notin Connected \/ where[d] = "closed" => toClient'[d] = toClient[d]
           /\ d \in Connected =>
                Starts(d)' \subseteq
                  Starts(d) \cup IF message[d].type = "GAMESTART" THEN {message[d]} ELSE {}
<1>1. toClient[d] \in Seq(ToClient)
  BY DEF TypeOK, ToClient
<1>2. toClient'[d] = IF d \in Connected /\ where[d] # "closed"
                     THEN Append(toClient[d], message[d]) ELSE toClient[d]
  BY DEF Broadcast
<1> QED  BY <1>1, <1>2, AppendStarts DEF Starts

LEMMA NextKeepsLives == TypeOK /\ Lives /\ [Next]_vars => Lives'
<1> SUFFICES ASSUME TypeOK, Lives, [Next]_vars, NEW d \in Clients PROVE Life(d)'
  BY DEF Lives
<1>1. Life(d)
  BY DEF Lives
<1>2. ASSUME NEW c \in Clients, NewClient(c) PROVE Life(d)'
  <2>1. UNCHANGED <<clientVars, syn>> /\ syn[c]
    BY <1>2 DEF NewClient, Accepting, SYNArrives
  <2>2. CASE d = c
    <3>1. slot'[d] # None /\ conn'[d] = "CONNECTED"
      BY <1>2, <2>2, Adding, SlotRange DEF NewClient, TypeOK
    <3>2. where[d] = "closed" => toClient'[d] = << >>
      BY <1>2, <2>2 DEF NewClient, TypeOK
    <3> QED  BY <1>1, <2>1, <2>2, <3>1, <3>2 DEF Life, Accepts, clientVars
  <2>3. CASE d # c
    <3>1. slot'[d] = slot[d] /\ conn'[d] = conn[d] /\ toClient'[d] = toClient[d]
      BY <1>2, <2>3 DEF NewClient, TypeOK
    <3> QED  BY <1>1, <2>1, <3>1 DEF Life, Accepts, clientVars
  <2> QED  BY <2>2, <2>3
<1>3. ASSUME NEW c \in Clients, RunClientGoes(c) PROVE Life(d)'
  <2>1. UNCHANGED <<clientVars, toClient>>
    BY <1>3 DEF RunClientGoes
  <2>2. CASE d = c
    <3>1. slot'[d] = None /\ syn'[d] = FALSE
      BY <1>3, <2>2 DEF RunClientGoes, TypeOK
    <3> QED  BY <1>1, <2>1, <3>1 DEF Life, Accepts, clientVars
  <2>3. CASE d # c
    <3>1. slot'[d] = slot[d] /\ syn'[d] = syn[d]
      BY <1>3, <2>3 DEF RunClientGoes, TypeOK
    <3>2. conn'[d] # "DISCONNECTED" \/ conn'[d] = conn[d]
      BY <1>3, <2>3 DEF RunClientGoes
    <3> QED  BY <1>1, <2>1, <3>1, <3>2 DEF Life, Accepts, clientVars
  <2> QED  BY <2>2, <2>3
<1>4. CASE Launches \/ Begins
  <2>1. UNCHANGED <<slot, conn, clientVars, syn>>
    BY <1>4 DEF Launches, Begins
  <2>2. d \notin Connected \/ where[d] = "closed" => toClient'[d] = toClient[d]
    BY <1>4, BroadcastView DEF Launches, Begins, StartGame
  <2>3. d \in Connected => slot[d] # None
    BY DEF Connected, Active
  <2> QED  BY <1>1, <2>1, <2>2, <2>3 DEF Life, Accepts, clientVars
<1>5. CASE /\ UNCHANGED <<slot, where, clientState, game, syn, toClient>>
           /\ \A c \in Clients : conn'[c] = conn[c] \/ conn'[c] # "DISCONNECTED"
                                                    \/ where[c] = "closed"
  BY <1>1, <1>5 DEF Life, Accepts
<1>6. ASSUME NEW c \in Clients, ClientStep(c) PROVE Life(d)'
  <2>1. UNCHANGED <<slot, conn>>
    BY <1>6 DEF ClientStep, ClientParseReject, ConnectTimeout, LostConnection, Crash, Quit,
                Close, StartConnect, ClientParseSYN, ConnectReturns, ClientParseLaunch,
                ClientParseGameStart, LaunchGame, StartNetGame, EnterGame, Goes, recordVars
  <2>2. clientState'[d] = "IN_GAME" => Accepts(d, game'[d])
    BY <1>1, <1>6, ClientView DEF Life
  <2>3. CASE \E says \in BOOLEAN : Close(c, says)
    <3>1. syn' = syn
      BY <2>3 DEF Close
    <3>2. CASE d = c
      <4>1. /\ where'[d] = "closed" /\ toClient'[d] = << >> /\ game'[d] = None
            /\ clientState'[d] = "WAITING_LAUNCH"
        BY <2>3, <3>2 DEF Close, Goes, TypeOK
      <4> QED  BY <4>1 DEF Life
    <3>3. CASE d # c
      <4>1. /\ where'[d] = where[d] /\ toClient'[d] = toClient[d] /\ game'[d] = game[d]
            /\ clientState'[d] = clientState[d]
        BY <2>3, <3>3 DEF Close, Goes, TypeOK
      <4> QED  BY <1>1, <2>1, <3>1, <4>1 DEF Life, Accepts
    <3> QED  BY <3>2, <3>3
  <2>4. CASE StartConnect(c)
    <3>1. UNCHANGED <<toClient, game, clientState>>
      BY <2>4 DEF StartConnect
    <3>2. CASE d = c
      <4>1. where[d] = "off" /\ where'[d] = "connecting"
        BY <2>4, <3>2 DEF StartConnect, At, Goes, TypeOK
      <4> QED  BY <1>1, <2>1, <3>1, <4>1 DEF Life, Accepts
    <3>3. CASE d # c
      <4>1. where'[d] = where[d] /\ syn'[d] = syn[d]
        BY <2>4, <3>3 DEF StartConnect, Goes, TypeOK
      <4> QED  BY <1>1, <2>1, <3>1, <4>1 DEF Life, Accepts
    <3> QED  BY <3>2, <3>3
  <2>5. ASSUME where[c] \in InGame \cup {"connected"},
               UNCHANGED syn,
               \E to \in InGame \cup {"connected"} : where' = [where EXCEPT ![c] = to],
               d # c => /\ toClient'[d] = toClient[d] /\ game'[d] = game[d]
                        /\ clientState'[d] = clientState[d],
               toClient[c] = << >> => toClient'[c] = << >>
        PROVE  Life(d)'
    <3>1. CASE d = c
      <4>1. where'[d] \in InGame \cup {"connected"}
        BY <2>5, <3>1 DEF TypeOK
      <4>2. ~(slot[d] = None /\ syn[d])
        BY <1>1, <2>5, <3>1 DEF Life, InGame
      <4>3. ~(slot[d] # None /\ conn[d] = "DISCONNECTED")
        BY <1>1, <2>5, <3>1 DEF Life, InGame
      <4> QED  BY <2>1, <2>2, <2>5, <4>1, <4>2, <4>3 DEF Life, InGame
    <3>2. CASE d # c
      <4>1. where'[d] = where[d]
        BY <2>5, <3>2 DEF TypeOK
      <4> QED  BY <1>1, <2>1, <2>5, <3>2, <4>1 DEF Life, Accepts
    <3> QED  BY <3>1, <3>2
  <2>6. CASE ClientParseSYN(c)
    <3>1. /\ where[c] = "connecting" /\ where' = [where EXCEPT ![c] = "connected"]
          /\ toClient[c] # << >> /\ UNCHANGED <<syn, clientState, game>>
          /\ toClient' = [toClient EXCEPT ![c] = Tail(@)]
      BY <2>6 DEF ClientParseSYN, At, Goes, ClientReceives
    <3>2. CASE d = c
      <4>1. where'[d] = "connected"
        BY <3>1, <3>2 DEF TypeOK
      <4>2. ~(slot[d] = None /\ syn[d]) /\ ~(slot[d] # None /\ conn[d] = "DISCONNECTED")
        BY <1>1, <3>1, <3>2 DEF Life
      <4> QED  BY <2>1, <2>2, <3>1, <4>1, <4>2 DEF Life
    <3>3. CASE d # c
      <4>1. where'[d] = where[d] /\ toClient'[d] = toClient[d]
        BY <3>1, <3>3 DEF TypeOK
      <4> QED  BY <1>1, <2>1, <3>1, <4>1 DEF Life, Accepts
    <3> QED  BY <3>2, <3>3
  <2>7. CASE ConnectReturns(c)
    BY <2>5, <2>7 DEF ConnectReturns, At, Goes, InGame, netVars, TypeOK
  <2>8. CASE LaunchGame(c) \/ StartNetGame(c) \/ EnterGame(c)
    BY <2>5, <2>8 DEF LaunchGame, StartNetGame, EnterGame, At, Goes, InGame, netVars
  <2>9. CASE ClientParseLaunch(c) \/ ClientParseGameStart(c)
    <3>1. where[c] \in InGame \cup {"connected"} /\ where' = [where EXCEPT ![c] = where[c]]
      BY <2>9 DEF ClientParseLaunch, ClientParseGameStart, Reads, At, Goes, InGame
    <3>2. UNCHANGED syn /\ toClient[c] # << >> /\ toClient' = [toClient EXCEPT ![c] = Tail(@)]
      BY <2>9 DEF ClientParseLaunch, ClientParseGameStart, ClientReceives
    <3>3. d # c => game'[d] = game[d] /\ clientState'[d] = clientState[d]
      BY <2>9 DEF ClientParseLaunch, ClientParseGameStart, TypeOK
    <3>4. d # c => toClient'[d] = toClient[d]
      BY <3>2 DEF TypeOK
    <3> QED  BY <2>5, <3>1, <3>2, <3>3, <3>4
  <2> QED
    BY <1>6, <2>3, <2>4, <2>6, <2>7, <2>8, <2>9
       DEF ClientStep, ClientParseReject, ConnectTimeout, LostConnection, Crash, Quit
<1> QED  BY <1>2, <1>3, <1>4, <1>5, <1>6, Kinds DEF Calm

-----------------------------------------------------------------------------
(* The clients connected and the server are in the same game.              *)

LEMMA NextKeepsStep == TypeOK /\ Records /\ Lives /\ InStep /\ [Next]_vars => InStep'
<1> SUFFICES ASSUME TypeOK, Records, Lives, InStep, [Next]_vars PROVE InStep'
  OBVIOUS
<1>1. ASSUME NEW c \in Clients, NewClient(c) PROVE InStep'
  <2>1. serverState = "WAITING_LAUNCH" /\ serverState' = "WAITING_LAUNCH"
        /\ UNCHANGED clientState /\ syn[c]
    BY <1>1 DEF NewClient, Accepting, SYNArrives, clientVars
  <2>2. BeforeGame(c)'
    <3>1. slot[c] = None \/ conn[c] = "DISCONNECTED"
      BY <1>1 DEF NewClient, Known
    <3>2. clientState[c] = "WAITING_LAUNCH"
      BY <2>1, <3>1 DEF Lives, Life
    <3>3. toClient'[c] \in {<< >>, <<[type |-> "SYN"]>>}
      BY <1>1 DEF NewClient, TypeOK
    <3> QED  BY <2>1, <3>2, <3>3, NoStarts DEF BeforeGame, Starts
  <2>3. ASSUME NEW d \in Connected, d # c PROVE BeforeGame(d)'
    <3>1. toClient'[d] = toClient[d]
      BY <1>1, <2>3 DEF NewClient, TypeOK, Connected, Active
    <3> QED  BY <2>1, <3>1 DEF InStep, BeforeGame, Starts
  <2> QED  BY <1>1, <2>1, <2>2, <2>3, Adding DEF InStep
<1>2. ASSUME NEW c \in Clients, RunClientGoes(c) PROVE InStep'
  <2>1. CASE Connected' = {}
    BY <2>1 DEF InStep
  <2>2. CASE serverState' = serverState /\ Connected' = Connected \ {c}
    <3>1. UNCHANGED <<svSettings, svPlayers, clientState, game, toClient>>
      BY <1>2 DEF RunClientGoes, clientVars
    <3>2. ASSUME NEW d \in Connected' PROVE slot'[d] = slot[d] /\ d \in Connected
      BY <1>2, <2>2, <3>2 DEF RunClientGoes, TypeOK, Connected, Active
    <3>3. ASSUME NEW d \in Connected' PROVE Start(d)' = Start(d) /\ Starts(d)' = Starts(d)
      BY <3>1, <3>2 DEF Start, Starts, PlayerNumber
    <3> QED  BY <2>2, <3>1, <3>2, <3>3 DEF InStep, InTheGame, BeforeGame
  <2> QED  BY <1>2, <2>1, <2>2, Removing
<1>3. CASE Launches
  <2> DEFINE message == [d \in Connected |-> [type |-> "LAUNCH"]]
  <2>1. Broadcast(message) /\ UNCHANGED clientState
        /\ serverState = "WAITING_LAUNCH" /\ serverState' = "WAITING_START"
    BY <1>3 DEF Launches, clientVars
  <2>2. ASSUME NEW d \in Connected PROVE BeforeGame(d)'
    <3>1. d \in Clients /\ message[d].type = "LAUNCH"
      BY DEF Connected, Active
    <3>2. Starts(d)' \subseteq Starts(d)
      BY <2>1, <3>1, BroadcastView
    <3> QED  BY <2>1, <3>2 DEF InStep, BeforeGame
  <2> QED  BY <1>3, <2>1, <2>2, Keeping DEF InStep
<1>4. CASE Begins
  <2> DEFINE from == svSettings'
  <2>1. /\ Broadcast(Message(from)) /\ serverState' = "IN_GAME" /\ svPlayers' = PlayerSlots
        /\ serverState = "WAITING_START" /\ UNCHANGED <<slot, clientState>>
    BY <1>4, StartGameSends DEF Begins, clientVars
  <2>2. ASSUME NEW d \in Connected PROVE InTheGame(d)'
    <3>1. d \in Clients /\ clientState[d] # "IN_GAME" /\ Starts(d) = {}
      BY <2>1 DEF Connected, Active, InStep, BeforeGame
    <3>2. Message(from)[d] = Start(d)'
      BY <2>1 DEF Message, Start, PlayerNumber
    <3>3. Starts(d)' \subseteq {Start(d)'}
      BY <2>1, <3>1, <3>2, BroadcastView
    <3>4. d \notin Drones => slot'[d] \in svPlayers'
      BY <2>1 DEF PlayerSlots
    <3> QED  BY <2>1, <3>1, <3>3, <3>4 DEF InTheGame
  <2> QED  BY <1>4, <2>1, <2>2, Keeping DEF InStep
<1>5. ASSUME Calm, NEW d \in Connected'
      PROVE  /\ d \in Connected /\ d \in Clients
             /\ serverState' = "IN_GAME" => Start(d)' = Start(d)
             /\ Starts(d)' \subseteq Starts(d)
             /\ clientState'[d] = "IN_GAME" =>
                  \/ clientState[d] = "IN_GAME" /\ game'[d] = game[d]
                  \/ game'[d] \in Starts(d)
  <2>1. d \in Connected /\ d \in Clients
    BY <1>5, Losing DEF Connected, Active
  <2>2. serverState' = "IN_GAME" => Start(d)' = Start(d)
    BY <1>5 DEF Calm, Start, PlayerNumber
  <2>3. CASE \E c \in Clients : ClientStep(c)
    BY <2>1, <2>2, <2>3, ClientView
  <2>4. CASE UNCHANGED <<clientState, game, toClient>>
    BY <2>1, <2>2, <2>4 DEF Starts
  <2> QED  BY <1>5, <2>3, <2>4 DEF Calm
<1>6. CASE Calm
  <2>1. ASSUME NEW d \in Connected', serverState' = "IN_GAME" PROVE InTheGame(d)'
    <3>1. InTheGame(d) /\ UNCHANGED <<slot, svPlayers>>
      BY <1>5, <1>6, <2>1 DEF InStep, Calm
    <3> QED  BY <1>5, <1>6, <2>1, <3>1 DEF InTheGame
  <2>2. ASSUME NEW d \in Connected', serverState' # "IN_GAME" PROVE BeforeGame(d)'
    <3>1. BeforeGame(d)
      BY <1>5, <1>6, <2>2 DEF InStep, Calm
    <3> QED  BY <1>5, <1>6, <3>1 DEF BeforeGame
  <2> QED  BY <2>1, <2>2 DEF InStep
<1> QED  BY <1>1, <1>2, <1>3, <1>4, <1>6, Kinds

LEMMA StepGivesOneGame == TypeOK /\ Records /\ Lives /\ InStep => OneGame
<1> SUFFICES ASSUME TypeOK, Records, Lives, InStep, NEW c \in Playing
             PROVE  /\ serverState = "IN_GAME"
                    /\ \A d \in Playing : /\ game[d].from = game[c].from
                                          /\ game[d].players = game[c].players
                    /\ c \in Drones \/ game[c].console \in 0..game[c].players - 1
                    /\ \A d \in Playing \ (Drones \cup {c}) : game[d].console # game[c].console
  BY DEF OneGame
<1>1. ASSUME NEW d \in Playing
      PROVE  /\ d \in Clients /\ d \in Connected /\ serverState = "IN_GAME"
             /\ game[d] = Start(d) /\ Accepts(d, game[d])
             /\ d \notin Drones => slot[d] \in svPlayers
  <2>1. d \in Clients /\ d \in Connected /\ clientState[d] = "IN_GAME"
    BY DEF Playing, Connected, Active
  <2>2. serverState = "IN_GAME" /\ InTheGame(d)
    BY <2>1 DEF InStep, BeforeGame
  <2>3. Accepts(d, game[d])
    BY <2>1 DEF Lives, Life
  <2> QED  BY <2>1, <2>2, <2>3 DEF InTheGame
<1>2. ASSUME NEW d \in Playing
      PROVE  /\ game[d].from = svSettings /\ game[d].players = Cardinality(svPlayers)
             /\ game[d].console = PlayerNumber(d, svPlayers)
  <2>1. game[d] = Start(d)
    BY <1>1
  <2> QED  BY <2>1 DEF Start
<1>3. ASSUME NEW d \in Playing \ Drones PROVE game[d].console \in 0..game[d].players - 1
  <2>1. game[d] \in GameStart /\ ~(game[d].console < 0) /\ game[d].console < game[d].players
    BY <1>1 DEF Accepts
  <2>2. game[d].console \in -1..NumSlots /\ game[d].players \in 0..NumSlots
    BY <2>1 DEF GameStart
  <2> QED  BY <2>1, <2>2, LobbyAssumption
<1>4. ASSUME NEW d \in Playing \ (Drones \cup {c}) PROVE game[d].console # game[c].console
  <2>1. CASE c \in Drones
    BY <1>1, <2>1 DEF Accepts
  <2>2. CASE c \notin Drones
    <3>1. /\ slot[c] \in svPlayers /\ slot[d] \in svPlayers /\ svPlayers \in SUBSET Slots
          /\ c \in Clients \ Drones /\ d \in Clients \ Drones
      BY <1>1, <2>2 DEF TypeOK
    <3>2. slot[c] # slot[d]
      BY <1>1 DEF Records, Connected
    <3>3. slot[c] \in Nat /\ slot[d] \in Nat
      BY <3>1, SlotRange
    <3>4. slot[c] < slot[d] \/ slot[d] < slot[c]
      BY <3>2, <3>3
    <3>5. PlayerNumber(c, svPlayers) # PlayerNumber(d, svPlayers)
      BY <3>1, <3>4, NumbersDiffer
    <3> QED  BY <1>2, <3>5
  <2> QED  BY <2>1, <2>2
<1> QED  BY <1>1, <1>2, <1>3, <1>4

LEMMA StepGivesPlaces == TypeOK /\ InStep => NumbersArePlaces
<1> SUFFICES ASSUME TypeOK, InStep, NEW c \in Playing \ Drones
             PROVE  /\ slot[c] \in svPlayers
                    /\ game[c].console = Cardinality({i \in svPlayers : i < slot[c]})
                    /\ game[c].players = Cardinality(svPlayers)
  BY DEF NumbersArePlaces
<1>1. c \in Connected /\ c \notin Drones /\ clientState[c] = "IN_GAME"
  BY DEF Playing
<1>2. slot[c] \in svPlayers /\ game[c] = Start(c)
  BY <1>1 DEF InStep, InTheGame, BeforeGame
<1> QED  BY <1>1, <1>2 DEF Start, PlayerNumber

-----------------------------------------------------------------------------
(* The theorems.                                                           *)

LobbyInv == TypeOK /\ Records /\ Lives /\ InStep

LEMMA InitHolds ==
    Init => /\ LobbyInv /\ NobodyLeftBehind /\ EmptyMeansWaiting
            /\ PlayersAgreeOnMode /\ NotOverfull
<1> SUFFICES ASSUME Init PROVE /\ LobbyInv /\ NobodyLeftBehind /\ EmptyMeansWaiting
                               /\ PlayersAgreeOnMode /\ NotOverfull
  OBVIOUS
<1>1. Active = {} /\ Connected = {}
  BY DEF Init, Active, Connected
<1>2. Lives
  BY DEF Init, Lives, Life
<1> QED
  BY <1>1, <1>2, InitTypes
     DEF LobbyInv, Records, InStep, NobodyLeftBehind, EmptyMeansWaiting, PlayersAgreeOnMode,
         NotOverfull, Init

LEMMA NextKeepsLobbyInv == LobbyInv /\ [Next]_vars => LobbyInv'
  BY NextKeepsTypes, NextKeepsRecords, NextKeepsLives, NextKeepsStep DEF LobbyInv

\* What the server's table, a client's place in its startup code and the packets
\* on their way say of each other (net_server.c, NET_CL_Connect,
\* NET_WaitForLaunch, D_StartNetGame): the invariant the rest follows from.
THEOREM LobbyInvariant == Spec => []LobbyInv
  BY InitHolds, NextKeepsLobbyInv, PTL DEF Spec

\* The types of the lobby's state, for any number of clients and slots.
THEOREM TypeCorrect == Spec => []TypeOK
<1>1. LobbyInv => TypeOK
  BY DEF LobbyInv
<1> QED  BY <1>1, LobbyInvariant, PTL

\* Every client connected has been told what the server waits for: nobody
\* joins, or is counted by AllNodesReady, behind the back of a LAUNCH or a
\* GAMESTART (NET_SV_ParseSYN, NET_SV_ParseLaunch, StartGame).
THEOREM NobodyIsLeftBehind == Spec => []NobodyLeftBehind
<1>1. LobbyInv => TypeOK
  BY DEF LobbyInv
<1> QED  BY <1>1, InitHolds, NextKeepsTold, LobbyInvariant, PTL DEF Spec

\* Those in a game agree on its settings and its number of players, and each
\* has a number of its own (NET_SV_AssignPlayers, NET_CL_ParseGameStart).
THEOREM OneGameHolds == Spec => []OneGame
<1>1. LobbyInv => OneGame
  BY StepGivesOneGame DEF LobbyInv
<1> QED  BY <1>1, LobbyInvariant, PTL

\* The number a player plays under is its place in sv_players, by which the
\* server files and forwards its tics (NET_SV_AssignPlayers, StartGame).
THEOREM NumbersStayPlaces == Spec => []NumbersArePlaces
<1>1. LobbyInv => NumbersArePlaces
  BY StepGivesPlaces DEF LobbyInv
<1> QED  BY <1>1, LobbyInvariant, PTL

\* A server whose table is empty takes new clients (NET_SV_GameEnded).
THEOREM EmptyServerWaits == Spec => []EmptyMeansWaiting
<1>1. LobbyInv => TypeOK
  BY DEF LobbyInv
<1> QED  BY <1>1, InitHolds, NextKeepsWaiting, LobbyInvariant, PTL DEF Spec

\* The players that wait together play the same game (NET_SV_ParseSYN).
THEOREM ModesAgree == Spec => []PlayersAgreeOnMode
<1>1. LobbyInv => TypeOK
  BY DEF LobbyInv
<1> QED  BY <1>1, InitHolds, NextKeepsMode, LobbyInvariant, PTL DEF Spec

\* If the limit is the game's and drones bring the players' own, no game has
\* more players than it takes (NET_SV_MaxPlayers, NET_SV_ParseSYN).
THEOREM NeverOverfull == ASSUME LimitsAgree PROVE Spec => []NotOverfull
<1>1. LobbyInv => TypeOK /\ Records
  BY DEF LobbyInv
<1>2. LobbyInv /\ PlayersAgreeOnMode /\ NotOverfull /\ [Next]_vars => NotOverfull'
  BY <1>1, NextKeepsLimit
<1> QED  BY <1>2, InitHolds, LobbyInvariant, ModesAgree, PTL DEF Spec

\* While a game runs nobody is renumbered: NET_SV_AssignPlayers is called by
\* nothing that a server in a game does.
THEOREM NumbersFrozen == Spec => NumberingFrozen
<1>1. TypeOK /\ [Next]_vars =>
        [serverState = "IN_GAME" /\ serverState' = "IN_GAME" => svPlayers' = svPlayers]_vars
  BY NextFreezesNumbers
<1> QED  BY <1>1, TypeCorrect, PTL DEF Spec, NumberingFrozen
=============================================================================
