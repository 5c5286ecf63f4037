--------------------------- MODULE MobileControls ---------------------------
(***************************************************************************)
(* The browser controls runtime of vendor/sfhs-mobile-controls-v1: which   *)
(* pointer owns which control, what each control puts out, and the life    *)
(* cycle of the layout editor.  The DOM runs one listener at a time, so    *)
(* every method and every listener of runtime.ts is one action.            *)
(* Coordinates are abstracted away: a stick or a relative control is       *)
(* active or not, its undrained travel is zero or not, and a layout is a   *)
(* member of Layouts.                                                      *)
(***************************************************************************)
EXTENDS Naturals

CONSTANTS
    Pointers,       \* pointer identifiers (fingers, the mouse)
    Controls,       \* declared controls
    Kind,           \* control -> "stick2d" | "relative1d" | "hold" | "pulse" | "toggle"
    Editable,       \* controls whose declaration does not say editable: false
    Layouts,        \* valid layouts
    DefaultLayout,
    MaxPulse,       \* bound: pulses of one control between two flushes
    None

Kinds == {"stick2d", "relative1d", "hold", "pulse", "toggle"}

ASSUME ControlsAssumption ==
    /\ Kind \in [Controls -> Kinds]
    /\ Editable \subseteq Controls
    /\ DefaultLayout \in Layouts
    /\ MaxPulse \in Nat \ {0}
    /\ None \notin Controls \cup Pointers \cup Layouts

VARIABLES
    lifecycle,      \* "created" | "mounted" | "editing" | "destroyed"
    owners,         \* pointer -> the control it owns, or None
    ownerByControl, \* control -> the pointer that owns it, or None
    dragging,       \* pointers whose owner record has an editKind
    active,         \* control -> stick/relative active, hold pressed, toggle on
    pending,        \* control -> pulses (or travel) not yet drained by flush
    layout,         \* profile.layouts as shown
    editBaseline    \* the layout Cancel goes back to, or None

ownerVars == <<owners, ownerByControl, dragging>>
outputVars == <<active, pending>>
profileVars == <<lifecycle, layout, editBaseline>>
controlVars == <<ownerVars, outputVars, profileVars>>

Listening == lifecycle \in {"mounted", "editing"}
Drains(c) == Kind[c] \in {"relative1d", "pulse"}
Momentary(c) == Kind[c] \in {"stick2d", "relative1d", "hold"}

ControlsInit ==
    /\ lifecycle = "created"
    /\ owners = [p \in Pointers |-> None]
    /\ ownerByControl = [c \in Controls |-> None]
    /\ dragging = {}
    /\ active = [c \in Controls |-> FALSE]
    /\ pending = [c \in Controls |-> 0]
    /\ layout = DefaultLayout
    /\ editBaseline = None

(***************************************************************************)
(* Pointers.                                                               *)
(***************************************************************************)

CanOwn(p, c) ==
    /\ Listening
    /\ ownerByControl[c] = None
    /\ owners[p] = None
    /\ lifecycle = "editing" => c \in Editable

\* What pressing control c does to its output outside the editor.
PressOutput(c) ==
    /\ active' = CASE Momentary(c) -> [active EXCEPT ![c] = TRUE]
                   [] Kind[c] = "toggle" -> [active EXCEPT ![c] = ~@]
                   [] Kind[c] = "pulse" -> active
    /\ pending' = IF Kind[c] = "pulse" THEN [pending EXCEPT ![c] = @ + 1] ELSE pending

BeginOwner(p, c) ==
    /\ CanOwn(p, c)
    /\ Kind[c] = "pulse" => pending[c] < MaxPulse
    /\ owners' = [owners EXCEPT ![p] = c]
    /\ ownerByControl' = [ownerByControl EXCEPT ![c] = p]
    /\ IF lifecycle = "editing"
         THEN dragging' = dragging \cup {p} /\ UNCHANGED outputVars
         ELSE PressOutput(c) /\ UNCHANGED dragging
    /\ UNCHANGED profileVars

\* A move of an owner that began in the editor drags or resizes its control,
\* whatever the life cycle is by then; any other adds travel to a relative
\* control.
MoveOwner(p) ==
    /\ Listening
    /\ owners[p] # None
    /\ IF p \in dragging
         THEN layout' \in Layouts /\ UNCHANGED pending
         ELSE /\ pending' = IF Kind[owners[p]] = "relative1d"
                              THEN [pending EXCEPT ![owners[p]] = 1] ELSE pending
              /\ UNCHANGED layout
    /\ UNCHANGED <<ownerVars, active, lifecycle, editBaseline>>

\* Mutant: forgets that a relative control has an active state, too.
ReleaseOutputOfHold(c) ==
    IF Kind[c] \in {"stick2d", "hold"} THEN [active EXCEPT ![c] = FALSE] ELSE active
ReleaseOutput(c) == IF Momentary(c) THEN [active EXCEPT ![c] = FALSE] ELSE active

ReleaseOwner(p) ==
    /\ owners[p] # None
    /\ owners' = [owners EXCEPT ![p] = None]
    /\ ownerByControl' = [ownerByControl EXCEPT ![owners[p]] = None]
    /\ dragging' = dragging \ {p}
    /\ active' = ReleaseOutput(owners[p])
    /\ UNCHANGED <<pending, profileVars>>

Released ==
    /\ owners' = [p \in Pointers |-> None]
    /\ ownerByControl' = [c \in Controls |-> None]
    /\ dragging' = {}
    /\ active' = [c \in Controls |-> FALSE]
    /\ pending' = [c \in Controls |-> 0]

\* Called by the consumer, and by the blur, pagehide, hidden-document, resize
\* and orientation listeners.
ReleaseAll == Released /\ UNCHANGED profileVars

\* The consumer's drain, once per BuildNewTic.
Flush ==
    /\ pending' = [c \in Controls |-> IF Drains(c) THEN 0 ELSE pending[c]]
    /\ UNCHANGED <<ownerVars, active, profileVars>>

(***************************************************************************)
(* Life cycle and profile.                                                 *)
(***************************************************************************)

\* A stored layout that validates is taken over.
Mount ==
    /\ lifecycle = "created"
    /\ lifecycle' = "mounted"
    /\ layout' \in Layouts
    /\ UNCHANGED <<ownerVars, outputVars, editBaseline>>

Destroy ==
    /\ lifecycle # "destroyed"
    /\ Released
    /\ lifecycle' = "destroyed"
    /\ UNCHANGED <<layout, editBaseline>>

BeginEdit ==
    /\ lifecycle = "mounted"
    /\ Released
    /\ editBaseline' = layout
    /\ lifecycle' = "editing"
    /\ UNCHANGED layout

\* Neither end of an edit releases the owners that began in it.
CommitEdit ==
    /\ lifecycle = "editing"
    /\ lifecycle' = "mounted"
    /\ editBaseline' = None
    /\ UNCHANGED <<ownerVars, outputVars, layout>>

CancelEdit ==
    /\ lifecycle = "editing"
    /\ lifecycle' = "mounted"
    /\ layout' = editBaseline
    /\ editBaseline' = None
    /\ UNCHANGED <<ownerVars, outputVars>>

\* cancelEdit and releaseAll called by one listener.
CancelEditAndRelease ==
    /\ lifecycle = "editing"
    /\ Released
    /\ lifecycle' = "mounted"
    /\ layout' = editBaseline
    /\ editBaseline' = None

ImportProfile(l) ==
    /\ Listening
    /\ Released
    /\ layout' = l
    /\ UNCHANGED <<lifecycle, editBaseline>>

ResetProfile ==
    /\ Listening
    /\ Released
    /\ layout' = DefaultLayout
    /\ editBaseline' = None
    /\ lifecycle' = IF lifecycle = "editing" THEN "mounted" ELSE lifecycle

\* The storage event of another tab, and updateLayout.
ReplaceProfile(l) ==
    /\ Listening
    /\ layout' = l
    /\ UNCHANGED <<ownerVars, outputVars, lifecycle, editBaseline>>

ControlsNext ==
    \/ \E p \in Pointers, c \in Controls : BeginOwner(p, c)
    \/ \E p \in Pointers : MoveOwner(p) \/ ReleaseOwner(p)
    \/ \E l \in Layouts : ImportProfile(l) \/ ReplaceProfile(l)
    \/ ReleaseAll \/ Flush
    \/ Mount \/ Destroy \/ BeginEdit \/ CommitEdit \/ CancelEdit
    \/ CancelEditAndRelease \/ ResetProfile

ControlsSpec == ControlsInit /\ [][ControlsNext]_controlVars

(***************************************************************************)
(* Properties.                                                             *)
(***************************************************************************)

ControlsTypeOK ==
    /\ lifecycle \in {"created", "mounted", "editing", "destroyed"}
    /\ owners \in [Pointers -> Controls \cup {None}]
    /\ ownerByControl \in [Controls -> Pointers \cup {None}]
    /\ dragging \subseteq Pointers
    /\ active \in [Controls -> BOOLEAN]
    /\ pending \in [Controls -> 0..MaxPulse]
    /\ layout \in Layouts
    /\ editBaseline \in Layouts \cup {None}

\* The two ownership maps of runtime.ts (owners by pointer, ownerByControl)
\* are each other's inverse: no control has two owners and none is orphaned,
\* through every interleaving of presses, lost captures and release-alls.
Inverse ==
    \A p \in Pointers, c \in Controls : owners[p] = c <=> ownerByControl[c] = p

\* A stick, a relative control or a held button puts out input exactly while
\* a pointer that is not dragging it in the editor owns it; so nothing stays
\* pressed when its pointer is gone (releaseOwner, releaseAll).
ActiveIffOwned ==
    \A c \in Controls : Momentary(c) =>
        (active[c] <=> ownerByControl[c] # None /\ ownerByControl[c] \notin dragging)

\* A drag belongs to a pointer that owns a control (editKind is a field of
\* the owner record).
DragsAreOwned == \A p \in dragging : owners[p] # None

\* Cancel has a baseline to go back to.
BaselineKept == lifecycle = "editing" => editBaseline # None

Ownership == Inverse /\ ActiveIffOwned /\ DragsAreOwned /\ BaselineKept
=============================================================================
