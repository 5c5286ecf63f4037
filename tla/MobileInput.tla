----------------------------- MODULE MobileInput -----------------------------
(***************************************************************************)
(* From a finger to a ticcmd: the controls runtime, the shell's adapter    *)
(* (held keys, LOOK tap-to-fire), the native adapter sfhs_mobile_input.c,  *)
(* the event ring of d_event.c, the responders and G_BuildTiccmd.          *)
(*                                                                         *)
(* Listeners run between two calls of BuildNewTic.  A call of BuildNewTic  *)
(* is StartTic, one Respond for each waiting event, then Build; nothing    *)
(* interleaves with it (phase).  Of the controls one of each sort is kept: *)
(* a held button (FIRE), a relative surface (LOOK) and a pulse (MENU).     *)
(***************************************************************************)
EXTENDS MobileControls, Sequences

CONSTANTS
    Fire, Look, Menu,   \* the controls
    MaxQueue,           \* lookTapFire.maxQueue
    RingSize,           \* MAXEVENTS
    MaxAhead            \* tics BuildNewTic may be ahead of gametic

ASSUME InputAssumption ==
    /\ Controls = {Fire, Look, Menu}
    /\ Fire # Look /\ Look # Menu /\ Fire # Menu
    /\ Kind[Fire] = "hold" /\ Kind[Look] = "relative1d" /\ Kind[Menu] = "pulse"
    /\ MaxQueue \in Nat \ {0}
    /\ MaxAhead \in Nat
    /\ RingSize \in Nat /\ RingSize > 3 + 2 * MaxPulse

VARIABLES
    fingers,            \* pointers in contact
    tracker,            \* lookTapTracker: the pointer it follows, or None
    queued,             \* lookTapFire.queued
    releaseTicPending,  \* lookTapFire.releaseTicPending
    sincePress,         \* tics built since pressBuildTicCount, at most 1
    held,               \* held[] of the native adapter
    fingerFired,        \* history: a finger was on FIRE at the last flush
    ring,               \* events that wait, oldest first
    gamekeydown,
    menuactive,
    mode,               \* "level", or "demo": title loop and demo playback
    gameaction,         \* "none" | "load" | "playdemo"
    ahead,              \* maketic - gametic
    attack,             \* BT_ATTACK of the command built last
    phase               \* "idle" | "events": where BuildNewTic is

tapVars == <<tracker, queued, releaseTicPending, sincePress>>
keyVars == <<held, fingerFired, ring, gamekeydown>>
gameVars == <<menuactive, mode, gameaction, ahead, attack, phase>>
vars == <<controlVars, fingers, tapVars, keyVars, gameVars>>

Keys == {"fire", "menu"}
Down(k) == [key |-> k, type |-> "down"]
Up(k) == [key |-> k, type |-> "up"]
Mouse == [key |-> "none", type |-> "mouse"]
Events == {Mouse} \cup {Down(k) : k \in Keys} \cup {Up(k) : k \in Keys}

Init ==
    /\ ControlsInit
    /\ fingers = {}
    /\ tracker = None /\ queued = 0 /\ releaseTicPending = FALSE /\ sincePress = 0
    /\ held = [k \in Keys |-> FALSE] /\ fingerFired = FALSE
    /\ ring = <<>>
    /\ gamekeydown = [k \in Keys |-> FALSE]
    /\ menuactive = FALSE /\ mode = "demo" /\ gameaction = "none"
    /\ ahead = 0 /\ attack = FALSE /\ phase = "idle"

(***************************************************************************)
(* The ring.  D_PostEvent does not look at the tail, so the event that     *)
(* fills the ring makes it empty: only the events of the last, incomplete  *)
(* lap can still be popped.                                                *)
(***************************************************************************)

PostEvents(q, evs) ==
    LET all == q \o evs
    IN  SubSeq(all, Len(all) - (Len(all) % RingSize) + 1, Len(all))

\* sfhs_mobile_input_set_held posts an event only when the state changes.
HeldEvents(k, down) ==
    IF held[k] = down THEN <<>> ELSE <<IF down THEN Down(k) ELSE Up(k)>>

\* n calls of sfhs_mobile_input_pulse: each posts both events.
PulseEvents(k, n) == [i \in 1..(2 * n) |-> IF i % 2 = 1 THEN Down(k) ELSE Up(k)]

(***************************************************************************)
(* LOOK tap-to-fire.                                                       *)
(***************************************************************************)

\* The adapter's subscription: a gesture ends when its pointer stops owning
\* LOOK or the controls are not mounted.
Observed(t) ==
    IF t # None /\ (lifecycle' # "mounted" \/ owners'[t] # Look) THEN None ELSE t

\* Mutant: forgets that the adapter holds FIRE for the tap that is given up.
ClearTapsHolding ==
    /\ tracker' = None
    /\ queued' = 0 /\ releaseTicPending' = FALSE /\ sincePress' = 0
    /\ UNCHANGED keyVars

\* Mutant: lets FIRE go without telling the engine.
ClearTapsSilently ==
    /\ tracker' = None
    /\ queued' = 0 /\ releaseTicPending' = FALSE /\ sincePress' = 0
    /\ held' = IF releaseTicPending THEN [held EXCEPT !["fire"] = FALSE] ELSE held
    /\ UNCHANGED <<fingerFired, ring, gamekeydown>>

\* clearLookTapFire, called before the runtime's own listener releases all.
ClearTaps ==
    /\ tracker' = None
    /\ queued' = 0 /\ releaseTicPending' = FALSE /\ sincePress' = 0
    /\ held' = IF releaseTicPending THEN [held EXCEPT !["fire"] = FALSE] ELSE held
    /\ ring' = IF releaseTicPending THEN PostEvents(ring, HeldEvents("fire", FALSE)) ELSE ring
    /\ UNCHANGED <<fingerFired, gamekeydown>>

\* acceptLookTap, for a gesture short and still enough.
QueueTap ==
    IF /\ lifecycle = "mounted"
       /\ ~active[Fire]
       /\ queued < MaxQueue
      THEN queued + 1 ELSE queued

\* Mutant: a tap presses for one flush, whether or not a tic is built of it.
ReleaseDrainedAtOnce == ~active[Fire] /\ releaseTicPending

\* drainLookTapFire: the FIRE state of this flush, and the tap state after it.
EffectivePrimary ==
    \/ active[Fire]
    \/ IF releaseTicPending THEN sincePress = 0 ELSE queued > 0

PressDrained == ~active[Fire] /\ ~releaseTicPending /\ queued > 0
ReleaseDrained == ~active[Fire] /\ releaseTicPending /\ sincePress > 0

DrainTaps ==
    /\ queued' = IF active[Fire] THEN 0 ELSE IF PressDrained THEN queued - 1 ELSE queued
    /\ releaseTicPending' = (PressDrained \/ (releaseTicPending /\ ~active[Fire] /\ ~ReleaseDrained))
    /\ sincePress' = IF active[Fire] \/ PressDrained \/ ReleaseDrained THEN 0 ELSE sincePress
    /\ UNCHANGED tracker

(***************************************************************************)
(* Pointer events.  The adapter listens in the capture phase, so it sees   *)
(* an event before the runtime does.                                       *)
(***************************************************************************)

Idle == phase = "idle" /\ Listening

PointerDown(p, c) ==
    LET t == IF c = Look /\ lifecycle = "mounted" /\ tracker = None THEN p ELSE tracker
    IN  /\ Idle /\ p \notin fingers
        /\ fingers' = fingers \cup {p}
        /\ IF CanOwn(p, c)
             THEN BeginOwner(p, c) /\ tracker' = Observed(t)
             ELSE UNCHANGED controlVars /\ tracker' = t
        /\ UNCHANGED <<queued, releaseTicPending, sincePress, keyVars, gameVars>>

PointerMove(p) ==
    /\ Idle /\ p \in fingers
    /\ IF owners[p] # None THEN MoveOwner(p) ELSE UNCHANGED controlVars
    /\ \/ tracker' = tracker
       \/ tracker = p /\ tracker' = None        \* beyond the slop
    /\ UNCHANGED <<fingers, queued, releaseTicPending, sincePress, keyVars, gameVars>>

ReleaseIfOwner(p) ==
    IF owners[p] # None THEN ReleaseOwner(p) ELSE UNCHANGED controlVars

PointerUp(p) ==
    /\ Idle /\ p \in fingers
    /\ fingers' = fingers \ {p}
    /\ ReleaseIfOwner(p)
    /\ IF tracker = p
         THEN tracker' = None /\ queued' \in {queued, QueueTap}
         ELSE tracker' = Observed(tracker) /\ UNCHANGED queued
    /\ UNCHANGED <<releaseTicPending, sincePress, keyVars, gameVars>>

\* pointercancel, and lostpointercapture of a finger that stays down.
PointerLost(p, lifted) ==
    /\ Idle /\ p \in fingers
    /\ fingers' = IF lifted THEN fingers \ {p} ELSE fingers
    /\ ReleaseIfOwner(p)
    /\ tracker' = IF tracker = p THEN None ELSE Observed(tracker)
    /\ UNCHANGED <<queued, releaseTicPending, sincePress, keyVars, gameVars>>

TapTimeout ==
    /\ Idle /\ tracker # None /\ tracker' = None
    /\ UNCHANGED <<controlVars, fingers, queued, releaseTicPending, sincePress, keyVars, gameVars>>

(***************************************************************************)
(* The shell.                                                              *)
(***************************************************************************)

\* blur, pagehide, a hidden document, resize; settings, diagnostics or the
\* panel editor opened; a LOOK option changed.
Interrupt ==
    /\ Idle /\ ReleaseAll /\ ClearTaps /\ UNCHANGED <<fingers, gameVars>>

\* orientationchange and visualViewport resize reach only the runtime.
ViewportChange ==
    /\ Idle /\ ReleaseAll /\ tracker' = Observed(tracker)
    /\ UNCHANGED <<fingers, queued, releaseTicPending, sincePress, keyVars, gameVars>>

StartShell ==
    /\ phase = "idle" /\ Mount
    /\ UNCHANGED <<fingers, tapVars, keyVars, gameVars>>

\* Mutant: forgets the taps.
EditToggleOverTaps ==
    /\ Idle /\ BeginEdit /\ tracker' = Observed(tracker)
    /\ UNCHANGED <<fingers, queued, releaseTicPending, sincePress, keyVars, gameVars>>

EditToggle ==
    /\ Idle /\ BeginEdit /\ ClearTaps /\ UNCHANGED <<fingers, gameVars>>

CloseEditor ==
    /\ Idle /\ (CommitEdit \/ CancelEdit)
    /\ UNCHANGED <<fingers, tapVars, keyVars, gameVars>>

\* Opening the panel editor cancels a control edit first.
BeginPanelEdit ==
    /\ Idle /\ CancelEditAndRelease /\ ClearTaps /\ UNCHANGED <<fingers, gameVars>>

ResetControls ==
    /\ Idle /\ ResetProfile /\ ClearTaps /\ UNCHANGED <<fingers, gameVars>>

\* The file is read asynchronously: taps made meanwhile stay queued.
PickProfile ==
    /\ Idle /\ ClearTaps /\ UNCHANGED <<controlVars, fingers, gameVars>>

ProfileRead(l) ==
    /\ Idle
    /\ ImportProfile(l) \/ ReplaceProfile(l)
    /\ tracker' = Observed(tracker)
    /\ UNCHANGED <<fingers, queued, releaseTicPending, sincePress, keyVars, gameVars>>

(***************************************************************************)
(* The engine.                                                             *)
(***************************************************************************)

\* I_StartTic: sfhs_mobile_input_flush_controls, flushForDoomTic.
StartTic ==
    /\ Idle
    /\ phase' = "events"
    /\ Flush /\ DrainTaps
    /\ held' = [held EXCEPT !["fire"] = EffectivePrimary] /\ fingerFired' = active[Fire]
    /\ ring' = PostEvents(ring, HeldEvents("fire", EffectivePrimary)
                                \o (IF pending[Look] > 0 THEN <<Mouse>> ELSE <<>>)
                                \o PulseEvents("menu", pending[Menu]))
    /\ UNCHANGED <<fingers, gamekeydown, menuactive, mode, gameaction, ahead, attack>>

\* M_Responder.  While the menu is up, which keys it takes depends on the page:
\* a message takes any key and closes, a save name takes every key.  There a
\* mouse that has moved far enough acts as a key, too.
MenuEats(e) ==
    /\ \/ menuactive /\ e.type # "up" /\ menuactive' \in BOOLEAN
       \/ ~menuactive /\ e = Down("menu") /\ menuactive' = TRUE
    /\ UNCHANGED gamekeydown

MenuPasses(e) == e.type = "down" => e.key # "menu"

\* G_Responder.
GameTakes(e) ==
    IF mode = "demo" /\ gameaction = "none"
      THEN menuactive' = (menuactive \/ e.type = "down") /\ UNCHANGED gamekeydown
      ELSE /\ gamekeydown' = IF e.type = "mouse" THEN gamekeydown
                             ELSE [gamekeydown EXCEPT ![e.key] = (e.type = "down")]
           /\ UNCHANGED menuactive

\* One turn of the loop of D_ProcessEvents.
Respond ==
    /\ phase = "events" /\ ring # <<>>
    /\ ring' = Tail(ring)
    /\ MenuEats(Head(ring)) \/ (MenuPasses(Head(ring)) /\ GameTakes(Head(ring)))
    /\ UNCHANGED <<controlVars, fingers, tapVars, held, fingerFired, mode, gameaction, ahead,
                   attack, phase>>

\* Mutant: does not count the tic for the tap that waits for it.
BuildUncounted ==
    /\ phase = "events" /\ ring = <<>> /\ phase' = "idle"
    /\ IF ahead > MaxAhead THEN UNCHANGED <<attack, ahead>>
       ELSE attack' = gamekeydown["fire"] /\ ahead' = ahead + 1
    /\ UNCHANGED <<controlVars, fingers, tapVars, keyVars, menuactive, mode, gameaction>>

\* The rest of BuildNewTic: a call too far ahead of the game builds nothing.
Build ==
    /\ phase = "events" /\ ring = <<>>
    /\ phase' = "idle"
    /\ IF ahead > MaxAhead
         THEN UNCHANGED <<attack, ahead, sincePress>>
         ELSE /\ attack' = gamekeydown["fire"]
              /\ ahead' = ahead + 1
              /\ sincePress' = IF releaseTicPending THEN 1 ELSE sincePress
    /\ UNCHANGED <<controlVars, fingers, tracker, queued, releaseTicPending, keyVars,
                   menuactive, mode, gameaction>>

\* RunTic: G_Ticker performs the game action; loading a level forgets all keys.
RunTic ==
    /\ phase = "idle" /\ ahead > 0
    /\ ahead' = ahead - 1
    /\ gameaction' = "none"
    /\ mode' = CASE gameaction = "load" -> "level"
                 [] gameaction = "playdemo" -> "demo"
                 [] gameaction = "none" -> mode
    /\ gamekeydown' = IF gameaction = "none" THEN gamekeydown ELSE [k \in Keys |-> FALSE]
    /\ UNCHANGED <<controlVars, fingers, tapVars, held, fingerFired, ring, menuactive, attack,
                   phase>>

\* A level is over or the player is reborn, whatever menu is up; or the menu
\* starts or loads a game and closes.
LoadLevel ==
    /\ phase = "idle" /\ gameaction = "none" /\ gameaction' = "load"
    /\ \/ mode = "level" /\ UNCHANGED menuactive
       \/ menuactive /\ menuactive' = FALSE
    /\ UNCHANGED <<controlVars, fingers, tapVars, keyVars, mode, ahead, attack, phase>>

\* The menu ends the game (D_StartTitle); the title loop goes on to a demo.
ToTitle ==
    /\ phase = "idle"
    /\ \/ mode = "level" /\ menuactive /\ menuactive' = FALSE /\ gameaction' = "none"
       \/ mode = "demo" /\ UNCHANGED menuactive /\ gameaction' = "playdemo"
    /\ mode' = "demo"
    /\ UNCHANGED <<controlVars, fingers, tapVars, keyVars, ahead, attack, phase>>

Engine == StartTic \/ Respond \/ Build

Next ==
    \/ \E p \in Pointers, c \in Controls : PointerDown(p, c)
    \/ \E p \in Pointers : PointerMove(p) \/ PointerUp(p)
    \/ \E p \in Pointers, lifted \in BOOLEAN : PointerLost(p, lifted)
    \/ \E l \in Layouts : ProfileRead(l)
    \/ TapTimeout \/ Interrupt \/ ViewportChange
    \/ StartShell \/ EditToggle \/ CloseEditor \/ BeginPanelEdit
    \/ ResetControls \/ PickProfile
    \/ Engine \/ RunTic \/ LoadLevel \/ ToTitle

Spec == Init /\ [][Next]_vars

\* The main loop keeps calling BuildNewTic while the page is shown, and runs
\* the tics that are built.
FairSpec == Spec /\ WF_vars(Engine) /\ SF_vars(RunTic)

(***************************************************************************)
(* Properties.                                                             *)
(***************************************************************************)

InputTypeOK ==
    /\ fingers \subseteq Pointers
    /\ tracker \in Pointers \cup {None}
    /\ queued \in 0..MaxQueue
    /\ releaseTicPending \in BOOLEAN
    /\ sincePress \in {0, 1}
    /\ held \in [Keys -> BOOLEAN] /\ fingerFired \in BOOLEAN
    /\ ring \in Seq(Events)
    /\ gamekeydown \in [Keys -> BOOLEAN]
    /\ menuactive \in BOOLEAN
    /\ mode \in {"level", "demo"}
    /\ gameaction \in {"none", "load", "playdemo"}
    /\ ahead \in 0..(MaxAhead + 1)
    /\ attack \in BOOLEAN
    /\ phase \in {"idle", "events"}

TypeOK == ControlsTypeOK /\ InputTypeOK

\* The last event that waits for k lifts it.
LiftedLast(k) ==
    \E i \in 1..Len(ring) :
        /\ ring[i] = Up(k)
        /\ \A j \in (i + 1)..Len(ring) : ring[j] # Down(k)

\* No key of a running game is stuck: a key the game takes for pressed is one
\* the adapter holds, or its release is on its way, through level loads, menus
\* that eat presses, demos that drop releases, and cleared taps.
NoStuckKey ==
    mode = "level" =>
        \A k \in Keys : gamekeydown[k] => held[k] \/ LiftedLast(k)

\* The native adapter holds FIRE for one reason, and never without: a finger was
\* on FIRE at the last flush, or a tap has pressed it and its release is still
\* to come.  So neither a tap's release nor an interruption takes a finger's
\* press away, and none leaves FIRE held for a tap that is gone.
HeldForAReason ==
    /\ held["fire"] <=> fingerFired \/ releaseTicPending
    /\ ~(fingerFired /\ releaseTicPending)

\* No tap waits, is tracked or is being released while the layout editor is
\* open: no shot leaks into an edit.
NoTapInEditor ==
    lifecycle = "editing" => queued = 0 /\ tracker = None /\ ~releaseTicPending

\* A press of a tap that the game has seen is not taken back before a command
\* with the attack button was built, whichever tics BuildNewTic declined.
TapShoots ==
    [][StartTic /\ ReleaseDrained /\ gamekeydown["fire"] => attack]_vars

\* Each tap has a command without the attack button before the next one
\* presses.  Stated where no finger uses FIRE itself.
TapIsReleased ==
    [][StartTic /\ PressDrained => ~attack]_vars

\* Once the fingers are off the screen for good, the tap queue drains, FIRE is
\* let go of, and no running game has a key pressed.
LetGo == queued = 0 /\ ~held["fire"] /\ (mode = "level" => \A k \in Keys : ~gamekeydown[k])
LiftedLetsGo == <>[](fingers = {}) => <>[]LetGo
=============================================================================
