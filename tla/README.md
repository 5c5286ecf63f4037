# A TLA+ verification of SFHS Doom

SFHS Doom is Chocolate Doom, compiled to WebAssembly and wrapped in a browser
shell with touch controls and a content manager. This directory holds TLA+
specifications of the parts of it in which several actors interact, the
configurations that check them with TLC, and proofs of their main properties,
checked with TLAPS. Everything is read off the C and JavaScript sources (paths
below are relative to the repository's root; `net_server.c` and its like are in
`src/`). `PROJECT.json` maps each definition to its lines.

    tlc -workers 2 -config MCNetConn.cfg MCNetConn      # one of the runs below
    tlapm NetConnProofs.tla                             # the proofs

## 1. The system

### 1.1 Components

| Component | State | Operations | Talks to | What is hard | What makes it correct | Here |
|---|---|---|---|---|---|---|
| connection (`net_common.c`) | `net_connection_t`: state, retries, list of reliable packets, two sequence bytes, timers | `NET_Conn_Packet`, `_Run`, `_NewReliable`, `_Disconnect` | the peer, by UDP; client and server above it | loss, repetition, reordering; wrap of a byte; both ends hang up at once | every reliable message handled once and in order; a hang-up ends and is believed only if it happened | `NetConn` |
| server: lobby (`net_server.c`) | `clients[16]`, `sv_players`, `server_state`, mode, settings | SYN, LAUNCH, GAMESTART, end of a client, a pass of `NET_SV_Run` | every client | packets come between the steps of others; a repeated SYN; a client ends during a startup | who is connected is told what goes on; one game, one set of numbers; an empty server is free again | `NetServer` |
| client: start-up (`net_client.c`, `net_gui.c`, `d_loop.c`) | `client_state`, `net_waiting_for_launch`, connection | `NET_CL_Connect`, `NET_WaitForLaunch`, `D_StartNetGame`, `BlockUntilStart` | the server | nested main loops that each handle packets | gets from connecting into the game, or out | `NetServer` |
| ticcmd exchange (`net_client.c`, `net_server.c`, `d_loop.c`) | receive windows, send queues, acknowledgements, resend marks, `maketic`, `recvtic`, `gametic`, ring `ticdata` | `BuildNewTic`, GAMEDATA and its ACK, `NET_SV_PumpSendQueue`, `NET_SV_AdvanceWindow`, `RunTic`; requests for repetition and their timers | all clients through the server | unreliable packets, tic numbers of a byte, rings of 128, players that go, requests that are lost themselves | all clients run the same tics; nothing is overwritten or forgotten; the game goes on | `NetTics`, `TicNum`, `NetResend` |
| loopback (`net_loop.c`) | two ring queues | push, pop | client and server of one process | a full queue | as the network: may lose | planned |
| UDP, contexts, addresses (`net_sdl.c`, `net_io.c`) | sockets, reference counts | send, receive | the network | a pointer that outlives its address | - | not modelled |
| packets (`net_packet.c`, `net_structrw.c`) | buffers | read and write of fields | all of the above | short packets | writing and reading are inverse | not modelled |
| queries (`net_query.c`) | targets with a state, attempts, time | query, response, time-out | servers, master | an answer after the target was given up | each target is settled | planned |
| events (`d_event.c`) and input (`i_input.c`, `m_controls.c`) | ring of 64 events; `gamekeydown[]` | `D_PostEvent`, `D_PopEvent`, responders | SDL, the adapter, the game | a full ring; a press and its release seen by different responders | no key stays down for ever | `MobileInput` |
| mobile adapter (`sfhs_mobile/sfhs_mobile_input.c`) and LOOK tap-to-fire (`web/p7/forge-shell.html`) | `held[11]`; queued taps, the gesture that is followed | set held, pulse, look; accept, drain and clear taps | event ring; the controls runtime; `flushForDoomTic` once a tic | a finger and a tap hold the same key; blur, editing and loading between press and release | what is held has a reason; a tap shoots; lifted fingers let go | `MobileInput` |
| mobile controls (`vendor/sfhs-mobile-controls-v1/src/runtime.ts`) | owners by pointer and by control, outputs, lifecycle, layout | pointer down, move, up, lost capture; `releaseAll`, `flush`, edit, import, reset | the shell's adapter | many pointers; blur, rotation and edit between their events | an output is pressed only while a pointer owns it | `MobileControls` |
| player bridge (`web/forge/player-bridge.js`) | mount stage, `preparingRecipe`, `mainStarted`, mounted files | prepare (asynchronous), start, fail | forge page, the Wasm file system, the engine | a start or second prepare during an await | the engine starts once, with the saves of its recipe | `ForgeSaves` |
| forge (`web/forge/forge-*.js`) | library, saves, the job of `saveNow`, worker requests | launch, save, clear, import, return; analyse, export | IndexedDB, a worker, the bridge | awaits, failing transactions, a page that dies | no save is lost or comes back | `ForgeSaves` (saves only) |
| simulation (`doom/p_*.c`, `g_game.c`) | thinkers, active platforms and ceilings, the world | one tic | ticcmds in, checksums out | lists that change while they are walked; fixed limits | the same tics give the same world | planned (lists only) |
| zone memory (`z_zone.c`), lump cache (`w_wad.c`) | ring of blocks with tags and users, the zone's rover; `lump->cache` | malloc, free, free a level, change tag, purge | everything | blocks merge under a scan or a walk; a purge takes what a user pointer names | blocks tile the zone; a user points to its own block or to none; a level leaves nothing behind; every call ends | `Zone` |
| OPL queue and timer (`opl/opl_queue.c`, `opl_sdl.c`) | heap of 64 callbacks | push, pop, adjust | audio thread, under a mutex | a full heap | callbacks in order of time | planned |
| WADs and files, configuration, DeHackEd, video, sound, text screen, setup tool, sister games, build and gates | | | | data-heavy or pure I/O, one thread | | not modelled |

### 1.2 How they interact

A netgame is a client process for each player and one server, which may live in
one of these processes (`net_loop.c`) or alone (`net_dedicated.c`). Nothing runs
in threads of its own: `NET_CL_Run` and `NET_SV_Run` are called from every main
loop there is (title screen, wait screen, `BlockUntilStart`, `TryRunTics`), read
all packets that have come and act on their timers. Concurrency is therefore
that of processes and packets, and of the nesting of loops in a client.

1. The client sends SYN once a second; the server checks it, takes a slot and
   answers with the first reliable packet of a new connection (`NetConn`).
2. Reliable packets (LAUNCH, GAMESTART, console messages) go one at a time, each
   repeated until its ACK has come. DISCONNECT, its ACK and REJECTED do not wait
   in this queue.
3. The controller launches; every node then sends its settings; when all that
   are connected are ready, the server numbers the players and starts the game
   (`NetServer`).
4. In the game each player sends its ticcmds; the server waits until it has the
   ticcmds of all the others, makes a full tic for each client and sends it;
   windows advance on acknowledgements (`NetTics`).
5. A player that goes is noticed by its DISCONNECT or by 30 s of silence; its
   record goes after it; when no player is left the server frees itself.

The product of this repository is the single-player browser game
(`docs/PROJECT_SPEC.md:12` defers multiplayer), and it links the same `d_loop.c`
and `net_*.c`. The netgame comes first here because it is where this code is
concurrent, distributed and full of limits, and because every client of it
depends on the tics being equal.

What this repository adds to Chocolate Doom is the browser around it, and there
everything happens in one page, one turn of its event loop at a time.

6. Pointer events go to the controls runtime and, before it, to the shell's LOOK
   tap adapter. Once in each call of `BuildNewTic` the shell drains both into
   `held[]` and the event ring; the responders empty the ring into the menu or
   `gamekeydown[]`; `G_BuildTiccmd` reads that (`MobileInput`).
7. The forge page loads a recipe's saves from IndexedDB, the bridge writes them to
   the engine's file system and starts it, a timer copies what the game saves back,
   and Return stores and reloads the page (`ForgeSaves`). Each `await` is a place
   where another handler may run.

## 2. The modules

    FifoChannel     what "reliable" promises                          (abstract)
    NetConn         one connection, client and server end
                    NetConn!Spec => FifoChannel!Spec                  (refinement)
    NetServer       many clients and the server, over such channels
    TicNum          tic numbers in a byte
    LockstepGame    what the game may rely on                         (abstract)
    NetTics         the game between GAMESTART and the end            EXTENDS TicNum
                    NetTics!Spec => LockstepGame!Spec                 (refinement)
    NetResend       requests for what was lost, and the deadlock timers
    MobileControls  who owns which control; the layout editor
    MobileInput     from a finger to a ticcmd           EXTENDS MobileControls
    ForgeSaves      saved games between the engine and the database
    ZoneContract    what the callers of the allocator may rely on     (abstract)
    Zone            the zone allocator, turn by turn of its loops
                    Zone!Spec => ZoneContract!Spec                    (refinement)
    MC*             constants for TLC
    *Proofs         theorems: NetConn, NetServer, NetTics, NetResend,
                    MobileControls, MobileInput, ForgeSaves, Zone

### 2.1 NetConn and FifoChannel

Each variable is a function of the end (`"client"`, `"server"`) and is named after
the field it stands for: `state`, `reason`, `retries`, `queue` (`reliable_packets`),
`sendSeq`, `recvSeq`; `life` says whether the record exists. `net` is the set of all
packets ever sent: a packet stays in it, so any packet may be lost, may come
twice or may come late. `submitted` and `delivered` are histories. The number of the
message in a packet is a history too; guards look at the byte `seq` alone.

| Action | Code |
|---|---|
| `ClientSendSYN`, `ClientConnectTimeout` | the loop of `NET_CL_Connect` |
| `ServerAcceptSYN`, `ServerRejectSYN` | `NET_SV_ParseSYN`, `NET_SV_InitNewClient` |
| `ClientParseReject` | `NET_CL_ParseReject` |
| `ReliableInSequence`, `ReliableOutOfSequence` | `NET_Conn_ReliablePacket`, with the handler it lets through (`NET_CL_ParseSYN` sets `state`) |
| `ParseReliableACK`, `ParseDisconnect`, `ParseDisconnectACK` | the functions of these names |
| `RunResend`, `RunTimeout`, `RunDisconnecting`, `RunSleep`, `RunDisconnected` | the branches of `NET_Conn_Run`, and what `NET_CL_Run` and `NET_SV_RunClient` do next |
| `Submit`, `Disconnect`, `GiveUpDisconnecting`, `Crash` | the callers: a new message, `NET_Conn_Disconnect`, the five-second limit of `NET_CL_Disconnect` and `NET_SV_Shutdown`, a process that dies |

Time is abstracted: a timer may have expired whenever the code asks. That
allows every order of time-outs and packets, the real ones among them.

**External assumption.** `Fresh`: no copy of a packet survives so long that its
sequence byte stands for another message, that is, 256 later messages. Without
it the protocol is wrong by design (a byte is all it has), with it the byte is
enough; `SeqMod = 2` is then the hardest case.

`FifoChannel` is the promise: a message sent is delivered once, in order, or
never because an end has left. `Pending` maps the sender's list to the channel:
the list without the head that the peer has had already.

### 2.2 NetServer

Clients with their process (`where`, `clientState`, `waiting`, `told`, `game`,
`hungUp`), their record on the server (`slot`, `conn`, `ready`, `joined`, which is the
order of `connect_time`), the server's own state, and the network: FIFO channels
for reliable messages (which is what `NetConn` was shown to implement), flags for
the packets that are not reliable. `syn[c]` means that copies of a SYN may still
come.

`NET_SV_Run` is a pass: packets (`turn = 0`), then one slot after another
(`turn = 1..NumSlots`), then the test of the state (`EndPass`, which calls
`CheckStartGame`). This order is kept because the abort of a startup and the
start of a game depend on it. `NET_SV_ParseSYN` is split along its early returns:
`NotAccepting`, `ServerFull`, `WrongGame`, `DuplicateSYN`, `NewClient`, with the
stale `sv_players` that `NET_SV_AssignPlayers` leaves behind.

The client's nested loops are modelled where they matter: packets are handled
only where `NET_CL_Run` is called (`Reads`), and `NET_CL_Connect` sets `client_state`
after the batch in which the SYN reply came (`ConnectReturns`).

### 2.3 TicNum and NetTics

`ExpandTicNum` is `NET_ExpandTicNum` for any modulus and thresholds that meet
`TicNumAssumption` (256, 0x40 and 0xb0 do).

`NetTics` needs no network: a GAMEDATA packet is unreliable and carries tics that
were made once, so at any time any range of tics that were made and are not stale
(`FreshTics`) may arrive
(`ClientParseGameData(c, first, last)`, `ParseGameData(p, first, last, ack)`). A
resend request only makes happen what may happen anyway. `RunClient` runs one
client in a pass of `NET_SV_Run` (its end, or `NET_SV_PumpSendQueue`), `EndPass` is
`NET_SV_AdvanceWindow`; the passes are kept apart (`ran`) because copies of a tic
for different clients are made one after another.

`sent[c]` records, for each full tic made for `c`, the players in it. The server's
`sendqueue` is its last `BackupTics`.

**External assumption.** `Fresh(tic, near)`: a packet is not older than 64 tics
(two seconds) before the window it reaches. `WindowAssumption` is what the
constants must meet so that everything else that can be on the network is near:
`Max(MaxUnacked + 2, SoloAhead + 1) + MaxAhead <= TicLow` (in the code
42 + 8 <= 64) and `Max(MaxUnacked, SoloAhead) + MaxAhead + 2 <= BackupTics`
(40 + 8 + 2 <= 128).

`LockstepGame` is the game without network, server and windows: players make
ticcmds, at most `MaxAhead` ahead of the tic they see; a client runs a tic with a
ticcmd of everyone who is still in the game, and perhaps of some that have left,
each of which was made; players leave and do not come back. The mapping is short:
`in` is who is connected, `made` is `maketic`, and `seen` is what `sent` has for the
tics before `gametic`. What the abstract game leaves open, which of those that have
left is in a tic, is what the run `lockstep` is about.

`NoStandoff` is a safety property about progress: in every state in which all that
was sent has come (`Settled`), somebody may still move. It says of the four limits on
being ahead (`MaxAhead`, `MaxUnacked`, `SoloAhead`, the window), which sit in three
processes, that they never hold everyone at once.

Left out of `NetTics` on purpose: when a resend is asked for (it cannot change
what may happen, only whether something does: `NetResend`), clock
synchronisation and the cap on the frame rate, `ticdup > 1`, the contents of
ticcmds, and the consistency check that the game makes of them.

### 2.4 NetResend

One player and the server with a link that has a memory (`wire`: up to `Slots`
packets of each kind), loses and reorders. Everything that makes a repetition
happen is here: the scan backwards in `NET_CL_ParseGameData` and
`NET_SV_ParseGameData` (`MissingRun`), the marks (`casked`, `asked`) and their expiry
(`ClientRun`, `ServerRun`, which model what follows the packets in `NET_CL_Run` and
`NET_SV_Run` as one step), `NET_SV_CheckDeadlock`, the client's `maybe_deadlocked`,
and the two `ParseResendRequest`, of which the client's cuts a request to what it
has and the server's drops it whole. Clocks are choices: any set of marks may be
300 ms old, a second may have passed or not. The other player is always as far
as it may be, which is the case in which only this link can hold the game up.

The link repeats no packet of its own accord; the ends repeat enough. Tics have
their whole numbers, as `NetTics` shows that they are understood.

### 2.5 MobileControls and MobileInput

`MobileControls` is `runtime.ts`: a method or a listener is an action. `owners` and
`ownerByControl` are its two maps, `dragging` the owners with an `editKind`, `active`
and `pending` the outputs, `layout` and `editBaseline` the profile.

`MobileInput` conjoins its actions with the shell's (the tap adapter listens in the
capture phase, so for one pointer event both handlers are one step; a handler
that opens an editor or a dialog clears the taps and calls the runtime) and goes
on to the engine.

| Action | Code |
|---|---|
| `PointerDown`, `PointerMove`, `PointerUp`, `PointerLost`, `TapTimeout` | the pointer route of `runtime.ts`; `startLookTap`, `moveLookTap`, `acceptLookTap`, the tap's timer |
| `Interrupt`, `ViewportChange` | blur, hidden page, resize, dialogs; rotation, which reaches the runtime alone |
| `EditToggle`, `CloseEditor`, `BeginPanelEdit`, `ResetControls`, `PickProfile`, `ProfileRead` | the buttons of the shell |
| `StartTic` | `flushForDoomTic`: `flush`, `drainLookTapFire`, `sfhs_mobile_input_set_held`, `_pulse`, `_post_look`, each with its `D_PostEvent` |
| `Respond` | a turn of `D_ProcessEvents`: `M_Responder`, then `G_Responder` |
| `Build` | the rest of `BuildNewTic`, with `G_BuildTiccmd` |
| `RunTic`, `LoadLevel`, `ToTitle` | `G_Ticker` with `G_DoLoadLevel` and `G_DoPlayDemo`; what asks for them |

`StartTic`, the `Respond`s and `Build` are one synchronous call, so `phase` keeps the
listeners out. A control of each sort stands for all of its sort; sticks and
toggles are in `MobileControls` and its theorem only. `PostEvents` loses a whole lap
of the ring when the ring is filled, as `D_PostEvent` does. Which keys an open menu
takes depends on its page, so `MenuEats` is a choice for a press, and for the mouse
event of a LOOK, which an open menu may take for an arrow key; no page takes a
release. `fingerFired` is a history: whether a finger was on FIRE at the last flush.
`MaxPulse` bounds the presses of a pulse control between two flushes, of no other.

### 2.6 ForgeSaves

A step is what a handler does between two awaits that wait. `queue` holds the
IndexedDB transactions that were made and have not run; they run in order, and
commit or abort. (`put` waits for `storage.estimate` before it rejects; `Aborts` is both.
In between a caller of `saveNow` still joins the job that has failed, which is
what it gets by coming just before the abort.) `saving` is the job of `saveNow`: the files it has still to read,
what it has read (each file at its own time, an await of a hash between them),
and whether its transaction is made. `stage` follows `launch`, `loadSaves` and the
bridge; `Crash` and `Reload` lose the engine's file system and every handler. A
save is a number, and greater is newer. `cleared`, `restored` and `owed` are histories
for the properties.

Left out: the filter of file names, the encoding and the hashes of saves,
the quarantine of a damaged record, and a browser without a database, in which
the page keeps everything in memory and Return does not reload.

### 2.7 Zone

The zone is `ZoneSize` units long; `mem` holds the headers that are in the list, by
offset. The zone's own header, `blocklist`, is named by the offset behind the last
block (`Head`), so that a block always ends where its `next` begins. `owner` is what
the variables point to that were passed as `user` (`lump->cache`,
`texturecomposite[i]`).

`Z_Malloc` is a step for its beginning (`StartScan`), a step for each turn of its loop
(`ScanKept`, `ScanPurges` with the whole of `Z_Free`, `ScanFree`, or `ScanFails`, which
is `I_Error`), and `Take`. `Z_FreeTags` is one step a block. Nothing runs in between:
the turns are apart because each relies on the list that the last one left.
`left` is the header that `Z_FreeTags` goes on from when the block after the one
it frees has just been merged away: the code reads that header outside the list,
and its link is right only because nothing has written there since.

`ZoneContract` has no headers, list, rover or merges: `held` are the blocks that are
not free, `point` is `owner`, a call of either function is under way from its beginning
to its end. A block given lies apart from all others and inside the zone; a block
that may be purged goes only while another is asked for, together with the pointer
to it; and `RunOut`, the `I_Error`, needs that no gap is large enough and that at most
one purgable block is left. One, and not none, because the scan gives up on
reaching `start` without having tried it: with blocks at 0 (kept), 3 (purgable, `start`)
and 6 (free, two units), a request for three units fails.

Left out: the contents of blocks, `Z_ChangeUser` and `Z_ClearZone` (without callers),
the dumps, and `z_native.c`, which the tools and the dedicated server use instead.

## 3. What TLC checks

| Run | Bounds | Distinct states | Properties |
|---|---|---|---|
| `conn` | `SeqMod` 2, 2 retries, 2 messages an end, `FairSpec` | 61,400 | `TypeOK`, `RemoteMeansPeerLeft`, `ImplementsFifo`, `DeliveredWhileUp`, `HangUpEnds`, `NoHalfOpen` |
| `lobby` | two players of one game (symmetric), one of another whose settings are refused, two slots | 2.16 million | `NobodyLeftBehind`, `OneGame`, `NumbersArePlaces`, `EmptyMeansWaiting`, `PlayersAgreeOnMode`, `NumberingFrozen` |
| `lobby_live` | a player, a drone, two slots, `FairSpec` | 17,700 | `StartupEnds`, `ServerRecovers` |
| `tics` | two players, tics 8 to 10, rings of 3, a byte of 9 | 605,200 | `TicsUnderstood`, `AckTruthful`, `NothingForgotten`, `NothingOverwritten`, `NobodySkipped`, `NoStandoff`, `ImplementsLockstep` |
| `resend` | two tics, rings of 3, one packet of a kind on its way, `FairSpec` | 42,700 | `HolesAsked`, `RequestsWhole`, `NoDeadEnd`, `GameGoesOn` |
| `mobile_input` | two fingers, two taps, a ring of 6, one pulse a tic, `FairSpec` | 368,800 | `Ownership`, `NoStuckKey`, `HeldForAReason`, `NoTapInEditor`, `TapShoots`, `LiftedLetsGo` |
| `forge` | a recipe, two save files, two saves, `FairSpec` | 85,700 | `TypeOK`, `ClearedStaysCleared`, `NeverOlder`, `SavedEventually` |
| `zone` | eight units, blocks of two and three, fragments of more than one, two users, `FairSpec` | 380,300 | `HeapOK`, `OwnersAgree`, `LevelGone`, `ImplementsContract`, `CallsEnd` |
| `start_is_heard` | two players | | `StartIsHeard`: violated |
| `lockstep` | two players, a drone, one tic | | `Lockstep`: violated |
| `tap_release` | one finger that does not use FIRE itself | | `TapIsReleased`: violated |
| `return_flushes` | as `forge` | | `ReturnFlushes`: violated |

**Why the bounds are enough.** In `NetConn` the sequence byte has two values, so
it wraps with the second message, and copies of the first use of a number are on
the network when it is used again. Two retries let the first DISCONNECT, the
second or both be lost. In `NetServer` two slots for three clients make the table
full and slots be used again; with games of different modes and settings the
modes of one meet the leftovers of the other. More players of one game than it
allows would need a third player and a third slot in place of the rival, so the
limit of players is a theorem only (`NeverOverfull` in `NetServerProofs`). Drones are in
`lobby_live` and in the theorems; that a drone of the old game does not mislead
those who come to an adopted mode is `ModesAgree`, for which a fourth client would be
too many here. Every client may come, quit, be killed or be timed
out at any time, so that every pair of them meets in every phase. A third player
would add longer chains of the same steps. Each process connects once, as a real
process does; a new attempt is another client. In `NetTics` the game is at tic 8 of
a byte of 9, with windows that have been in use, and passes the wrap; the windows
hold three tics and are moved and refilled. Drones are in the theorems and in the
run `lockstep`; with them this instance is too large. In `NetResend` each tic, each
request and each answer may be lost, again and again; with two tics there are a
first one, a hole before a later one, and a request beyond what was made. In
`MobileInput` two fingers are what it takes to own one control each or to dispute
one; a second tap can wait behind the first; `MaxAhead = 0` lets `BuildNewTic` decline;
a flush posts at most four events of the six that the ring has. In `ForgeSaves` a
job needs two files to have read one and not the other, and two versions to be
older and newer; `MaxQueue` keeps buttons from being pressed while the database
does nothing, and any job, load and workspace transaction still finds room.
With two recipes and one file it was run once, by hand (603,000 states), with the
same result. In `Zone` four blocks fit: a block can be purged between two that are
free, at both ends of the list, under the rover and at the end of a scan, and an
allocation can leave a fragment or not. The proofs then free what they cover of the bounds.

`CHECK_DEADLOCK FALSE` stands in the configurations where the system stops:
processes end, the player's page waits for a finger, a failed allocation ends the
program, and the bounds on messages, tics and saves stop the rest.

Every property of a passing run has a mutant, a variant of one definition with a
plausible bug (a dropped test, an off-by-one, a missing assignment), stated
beside the definition and marked *Mutant*; with it the property fails. The
mutants are not part of the specifications.

### 3.1 Fairness

`NetConn!FairSpec`. `NET_CL_Run` and `NET_SV_Run` are called on every turn of a
loop that does not block, so what they would do is done: weak fairness of the
resends, the retries of DISCONNECT, and the end of sleeping and disconnected
records. The network is fair to a packet that is sent again and again:
reliable packets and ACKs that can be delivered are. `RunTimeout` is fair only
when the peer is closed, since then nothing can put it off. Nothing is assumed
of hang-ups, crashes or new messages.

`NetServer!FairSpec`. `WF(Pass)`: the server's loop goes on. For each client
strong fairness of `Due(c)`: the server's end of a record that is over, and the
client's own handlers. It is strong because the pass keeps taking `turn` away
from 0, where clients move, which in reality does not stop them. It stands for
weak fairness of each part, as each happens finitely often. The same holds of
`ParseLaunch(c) \/ ParseGameStart(c)`: a reliable message that is at the head of
its channel arrives (`DeliveredWhileUp`). There is no fairness of `LaunchGame`,
`Quit`, `Crash` or `EnterGame`: the user may do nothing for ever.

`NetResend!FairSpec`. The loops of both ends go on (weak fairness of `ClientRun` and
`ServerRun` with every mark expired, and of building and running tics). A second
of silence is a fact that comes true unless game data keeps coming, hence
`WF(...) \/ Heard(...)`: it is not assumed of an end that hears something again and
again. Of each kind of packet that is on its way again and again, some get
through. `Lose` is not fair, and is never forced.

`MobileInput!FairSpec`. `WF(Engine)`: the main loop, driven by the browser's frames,
keeps calling `BuildNewTic`, and a call ends. `SF(RunTic)`: tics that are built are run;
it is strong because a call of `BuildNewTic` is made of several steps here, and
`RunTic` waits for its end. Nothing is assumed of fingers or listeners.

`ForgeSaves!FairSpec`. An interval timer fires (`TimerSaves`), a hash is computed
(`JobReads`), a transaction runs (`WF(Database)`), and a database in which
transactions are made again and again does not abort all of them (`SF(Commit)`).
Nothing is assumed of the user, the game or the page's life.

`Zone!FairSpec`. A call that is under way goes on (`WF(Turn)`): there is one thread.
Nothing is assumed of the callers.

## 4. What is proved

For every value of the constants that meets the stated assumptions, any number
of messages, clients, tics, fingers, recipes and blocks, and no bound but those of
the specification. `MaxMsgs`, `MaxTics` and their like remain parameters, and are
arbitrary.

**NetConnProofs.** `Spec` implies `[]TypeOK`, `[]StopAndWait`, `[]InOrderOnce`,
`[]NoneLost`, `[]HangUp`, `[]RemoteMeansPeerLeft`, and `ImplementsFifo`. The inductive
invariant is `TypeOK`, `StopAndWait` and `HangUp`. `InOrderOnce` alone is not
inductive: that a packet with the expected byte is the expected message needs to
know of every packet in `net` how its byte and its number are related
(`InFlight`), that counters are counts modulo `SeqMod` (`Counters`), that the list
is consecutive (`QueueNumbered`), and that the ends are never more than one
message apart (`Window`): then two candidates for a byte differ by less than
`SeqMod`, and a lemma on `%` makes them equal. `HangUp` is the invariant for
`RemoteMeansPeerLeft`: a DISCONNECT in flight means that its sender is leaving
and cannot come back, which in turn needs that a client whose SYN reply is still
to come has not been able to hang up. The refinement is then one step per action: all
but `NewReliable` and the delivery in sequence are stutters of `FifoChannel`.

**NetTicsProofs.** `ExpandExact`: `ExpandTicNum(relative, TicByte(t)) = t` whenever
`t` is within `TicLow` of `relative`. `Spec` implies `[]TypeOK`, `[]TicsUnderstood`,
`[]AckTruthful`, `[]NothingForgotten`, `[]NothingOverwritten`, `[]NobodySkipped`. These
depend on each other in a circle, through the byte: if numbers are understood,
windows do not run apart, and if windows do not run apart, numbers are
understood. The inductive invariant `IInv` closes it: besides `TypeOK` and
`AckTruthful` it says how far the parties can be apart (`NearAcks`, `NearOwn`,
`NearStart`, `NotOutrun`, `Throttled`), that a window holds only what was made
(`Made`, `Received`), and that tics sent to a client have everyone still there
(`Complete`, `Paired`). `NothingForgotten` is what stands between
`NET_SV_SendTics` and its `I_Error`.

From `IInv` follow three results more. `NobodyWaitsInVain` (`NoStandoff`): of the
clients one has been sent the fewest tics (`OneIsLast`; the order of the numbers is
well-founded); when all that is under way has come and everyone has run all that it
has, each player has made the tic after its last one, so that client can be sent
more, unless the window holds it back, and then the window can move.
`PlayersStayTogether`: no client is ever more than `MaxAhead + 1` tics ahead of a
connected player's game, which is the lag that a slow player imposes on the others.
`TicsImplementGame`: every step is a step of `LockstepGame` or a stutter. Its invariant
beside `IInv` is `CopiesMade`: each copy of a tic that is kept for a client has ticcmds
that were made only, also those of players that have left since.

**NetServerProofs.** `LobbyInv` is `TypeOK`, `Records` (one record in a slot),
`Lives` (what a process can know at its place in the code, and which packets may
still be on their way from it and to it), and `InStep` (in a game, who is
connected has its slot in `sv_players` and has got or will get the one GAMESTART
with its number; before the game nobody has one). From it follow
`NobodyLeftBehind`, `OneGame`, `NumbersArePlaces`, `EmptyMeansWaiting`,
`PlayersAgreeOnMode` and `NumberingFrozen` for any clients, drones, modes and
slots. `NeverOverfull`, which says that no more players are connected than
`max_players` allows (`NotOverfull`), needs `LimitsAgree`: the limits are at least
one, players of one game have one limit, and drones bring the same one. Without the last part it is false:
`NET_SV_MaxPlayers` takes the limit of the first connected record, which may be
a drone of another game.

**NetResendProofs.** `ResendInv` says that a tic missing before one that came carries
a mark at both ends (`HolesAsked`), and that what is marked at the client, and what
its requests ask for, is something the server has made, or is the one tic that it
asks for by itself (`SeenOrAsked`, `AskedInTime`). Hence `RequestsWhole`: the test of
`NET_SV_ParseResendRequest` that drops a whole request never does so for a request
of more than one tic.

`Limits`, proved from `ResendInv`, says how far the numbers of the two ends can be
apart. Its core is that a packet with tic `t` acknowledges at least the tics before
`t - MaxAhead` (`UpBounded`), whenever it was sent: so what the server has of the player
is never far ahead of what the player acknowledged. Two theorems follow.
`WhatIsLackedIsKept` (`StillKept`): a tic that one end waits for, once it is made, is in
the send queue of the other, so a request for it that gets through finds it.
`NeverDead` (`NoDeadEnd`): with nothing on its way, one end has something to do, or the
server lacks something inside its window, which is where `CheckDeadlock` looks.
`KeptAssumption` is what they need: `MaxUnacked + 1` and `2 * MaxAhead + 2` are at most
`BackupTics` (41 and 18 against 128). The run has games of two tics, too short to fill a
queue; both formulas were checked by hand on five tics with queues of three.

**MobileControlsProofs, MobileInputProofs.** For any pointers, controls and layouts
the two maps of owners are inverse and an output is active exactly while it is
owned (`OwnershipHolds`; `OwnershipInShell` with the shell around it). `InputInv` adds
the keys: what the game takes for pressed is held, or a release without a later
press of its key is in the ring (`LiftedLast`); FIRE is held exactly for a finger of the
last flush or for a tap still to be released; and between two calls of `BuildNewTic`
the ring has at most the release of a cleared tap (`RingAtRest`). From it follow `NoKeySticks`,
`HeldFireHasAReason` and `NoTapLeaksIntoEditor`. `InputAssumption` asks for a ring that
one flush cannot fill (`RingSize > 3 + 2 * MaxPulse`); the code has 64 and a flush
posts few, but a burst of pulses in one tic could lose a lap, and then
`NoStuckKey` would not hold. `TapsShoot` is the action property `TapShoots`: a tap's
press is taken back only when a command with the attack button was built of it, whatever
calls of `BuildNewTic` have declined. It needs `TapCounted`: a count of one stands
only between two calls, for a tap that is still to be released, and a game that has FIRE
pressed then has built the attack.

**ForgeSavesProofs.** `Inv` has the types; which transaction may stand where in the
queue (`QueueShape`); what a page can hold in each stage of a launch (`PageShape`); how
the ages of the copies of a save compare: database, queue, job, page, engine
(`Ages`); where a save that was cleared may still be (`Purged`); and the order of two
writes of one save (`Ordered`). `ClearedStaysCleared` and `NeverOlder` follow, for any
number of recipes, files and waiting transactions.

**ZoneProofs.** `IInv` is the heap (`Linked`, `Tiled`, `NoFreeNeighbours`), `Owned`, and for
each loop what it stands on. The scan stands at `base`, with a block before it that
is not free, or has `base` free and stands behind it, and `start` is not free, which
is why no merge takes it away (`ScanShape`); so the scan ends. The walk stands at a
block in the list or at a header that was merged into the free block before it,
still says free and has that block's link (`StaleHere`), and behind it there is no
block of the level (`WalkShape`); so `LevelGone`. One lemma, `FreeKeeps`, says what
`Z_Free` does to a list of any length.

`SearchIsThorough` says of the scan what `Z_Malloc` relies on for its `I_Error`: of the
blocks between `start` and `scan` each is one that may not be thrown out, or is free and
too small, though what is freed merges backwards over blocks that were passed (`ScanClean`),
and the blocks leave no gap in the zone (`Covered`). With it `ZoneImplementsContract`:
the turns of a loop that merge, step and move the rover are stutters of `ZoneContract`,
and each of the others is one of its steps. `CallsAreFinite`: `scan` comes nearer to the
end of its way with every turn (`ToGo`), also when `Z_FreeTags` goes on from a header
that was merged away, since that header's link still points forward (`StaleAhead`). No call
takes more turns than the zone has units; that a call that could go on does go on
is all that `CallsEnd` adds.

The proofs use the named assumptions of the modules (`SeqModAssumption`,
`BoundsAssumption`, `TicNumAssumption`, `TicsAssumption`, `WindowAssumption`,
`LobbyAssumption`, `ResendAssumption`, `ControlsAssumption`, `InputAssumption`,
`SavesAssumption`, `KeptAssumption`, `JobAssumption`, `ZoneAssumption`), the library's facts on finite
sets and on the order of the natural numbers, and the facts on arithmetic and sequences that the back ends know. TLC
evaluates the assumptions on every instance.

**Only model-checked.** Liveness (`DeliveredWhileUp`, `HangUpEnds`, `NoHalfOpen`,
`StartupEnds`, `ServerRecovers`, `GameGoesOn`, `LiftedLetsGo`, `SavedEventually`,
`CallsEnd`), which is out of the prover's reach, as is anything about `ENABLED`. Every
other property of a passing run has a theorem. `InOrderOnce` and `NoneLost` have theorems
and no run of their own: `ImplementsFifo`, which the run checks, says as much; `NotOverfull`, `StillKept`,
`NearTogether` and `EveryTurnAdvances` have theorems only. What a
recursive function computes for every input cannot be proved with the installed
provers; nothing here needs it.

## 5. Where code and comments disagree

The runs that are expected to end in a violation show these.

- `start_is_heard` (`net_client.c:1138`). A LAUNCH that arrives in the same batch
  as the SYN reply is undone, since `NET_CL_Connect` sets `client_state` back when
  the batch has been handled. The client goes on, blocks in `BlockUntilStart`,
  and drops the GAMESTART for which it waits.
- `lockstep` (`net_server.c:1684`). Copies of one tic are made for different
  clients at different moments. GAMEDATA of a player that has hung up is still
  taken if it comes between them, so one client plays the tic with that player
  and another without; the games diverge.

- `tap_release` (`web/p7/forge-shell.html:235`). `docs/tasks/P06/DOOM-P6-061.md:51`
  asks for "at least one release tic" between two taps. The shell counts the tics
  built for a press, but not those for its release: when `BuildNewTic` is too far
  ahead and declines, it has drained the release already, and the next tap makes
  one long press of the two.
- `return_flushes` (`web/forge/forge-app.js:618`). `docs/FORGE_WORKSTATION.md:28` says
  that Return "flushes saves". It joins the job under way (`415`), which may have
  read the files before the game's last save, and then loads the page again.

More were seen in the models and have no run of their own. The netgame:

- `net_server.c:1835` says "any player disconnecting should cause an abort". That
  holds when the record is freed. For five seconds before, the record sleeps,
  is not counted, and the game can start without the player.
- `net_server.c:1848` says that the game ends when no players are left. When a
  record times out in the waiting phase, the server asks pointers that do not know
  a player accepted since, finds no player, and hangs up on everybody.
- `net_client.c:453`. A SYN reply handled after a DISCONNECT of the same batch makes
  the client CONNECTED to a server that has left, until its time-out.
- `net_client.c:675` speaks of "the first few tics" but forces a request for the very
  first one of the window only.
- Drones bring a limit of players as well: drones of another game can let one
  player too many in (`NET_SV_MaxPlayers`; `LimitsAgree` in `NetServerProofs`).
- `net_common.h:41` says that a sleeping connection is kept valid for some
  seconds; `NET_CL_Run` (`net_client.c:1020`) closes the client's at once
  (`RunSleep`). A repeated DISCONNECT is then not answered, and the server ends by
  running out of retries, which `HangUpEnds` covers.
- `net_common.c:42` says that a reliable packet is "guaranteed to reach its
  destination". `NET_Conn_Run` sends them only while CONNECTED, so a message
  queued just before a hang-up, as the reason of an abort is
  (`net_server.c:1837`), is never sent.
- `net_server.c:735` checks for a free slot before it looks for the client, so one
  that holds the last slot and repeats its SYN is rejected.
- `net_server.c:761` speaks of "all the other clients", but the mode is adopted
  whenever no player is there, and drones of the old game may be.

The browser:

- `docs/tasks/P06/DOOM-P6-062.md:54` has Cancel restore the exact baseline. Owners
  that began in the editor stay (`runtime.ts:689`), so a finger that still drags
  moves the control again. A configuration update or a profile of another tab
  stores the draft during an edit (`653`).
- A backup that is imported after a launch has failed is overwritten by Return or by
  a hidden page, which store the files of the failed launch (`forge-app.js:1024`).
  Clear or Import between `prepare` and `start` is undone in the same way by what
  the game saves later; the properties count that as a new save.
- When the workspace cannot be stored, `returnToForge` (`619`) ends with an error
  after it has stopped the save timer, and the game that still runs is stored only
  when the page is hidden. A launch that fails late sets the timer all the same.

Memory:

- `z_zone.c:285` says "scanned all the way around the list". The scan gives up on
  reaching `start`, the block before its first one, and never looks at it: an
  allocation fails although that block could be purged.
- `W_CacheLumpNum(lump, PU_CACHE)` (`w_wad.c:412`) makes a lump purgable that another
  caller holds as `PU_STATIC`; nothing counts the holders. `wi_stuff.c` works around
  it.

## 6. What is not modelled, and why

See the table of components. In the parts that are: NAT hole punching, query
responses, master registration and console messages (they change no state that
the properties read); checksums of WADs and clients of the old protocol (values
that are compared for a warning, or a path not taken by this program);
addresses and their reference counts (memory, not protocol); real time (any
timer may have expired). The contents of ticcmds and the simulation are data
to the protocol; it is right when all clients get the same.

Of the browser: importing archives and their quarantine, capsules and drafts, and
the mounting of payloads are long data conversions behind one `await` each; the
older shells are not part of the release. Of the simulation: it is one thread
without outside events inside a tic; what could go wrong there is arithmetic on
data that a model of any useful size would have to leave out. Sister games
(Heretic, Hexen, Strife) and the setup tool are not part of the product, and make
up most of the lines that are not covered.

## 7. What is left

- The mount stage of `player-bridge.js`: one engine, started with the files of one
  recipe, all of them verified.
- Abstract specifications of the lobby (who is in which game) and of a store of saves,
  implemented by `NetServer` and `ForgeSaves`.
- `NetQuery` (attempts and late answers), `NetLoop` (the drop when a queue of 15 is
  full), `OplQueue` (the heap of callbacks), `Thinkers` (removal while the list is
  walked): small modules against abstract specifications.
- Several controls of a sort, and physical keyboards, in `MobileInput`.
