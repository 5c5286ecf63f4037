------------------------ MODULE MobileControlsProofs ------------------------
(***************************************************************************)
(* For any set of pointers and controls the runtime keeps its ownership    *)
(* maps inverse to each other and its outputs in step with them.           *)
(***************************************************************************)
EXTENDS MobileControls, TLAPS

ControlsInv == ControlsTypeOK /\ Ownership

USE ControlsAssumption
USE DEF Kinds

LEMMA InitControls == ControlsInit => ControlsInv
BY DEF ControlsInit, ControlsInv, ControlsTypeOK, Ownership, Inverse, ActiveIffOwned,
       DragsAreOwned, BaselineKept, Momentary

\* Every operation that ends in Released leaves nothing owned and nothing on.
LEMMA ReleasedKeeps ==
    ASSUME Released,
           lifecycle' \in {"created", "mounted", "editing", "destroyed"},
           layout' \in Layouts,
           editBaseline' \in Layouts \cup {None},
           lifecycle' = "editing" => editBaseline' # None
    PROVE  ControlsInv'
BY DEF Released, ControlsInv, ControlsTypeOK, Ownership, Inverse, ActiveIffOwned,
       DragsAreOwned, BaselineKept, Momentary

LEMMA BeginOwnerKeeps ==
    ASSUME ControlsInv, NEW p \in Pointers, NEW c \in Controls, BeginOwner(p, c)
    PROVE  ControlsInv'
<1> USE DEF ControlsInv, BeginOwner, CanOwn, PressOutput, profileVars, outputVars
<1>1. ControlsTypeOK'
  <2>1. active' \in [Controls -> BOOLEAN] /\ pending' \in [Controls -> 0..MaxPulse]
    <3>1. CASE lifecycle = "editing"
      BY <3>1 DEF ControlsTypeOK
    <3>2. CASE lifecycle # "editing"
      <4>1. CASE Momentary(c)
        BY <3>2, <4>1 DEF ControlsTypeOK, Momentary
      <4>2. CASE Kind[c] = "toggle"
        BY <3>2, <4>2 DEF ControlsTypeOK, Momentary
      <4>3. CASE Kind[c] = "pulse"
        BY <3>2, <4>3 DEF ControlsTypeOK, Momentary
      <4>4. QED
        BY <4>1, <4>2, <4>3 DEF Momentary
    <3>3. QED
      BY <3>1, <3>2
  <2>2. QED
    BY <2>1 DEF ControlsTypeOK
<1>2. Inverse'
  BY DEF ControlsTypeOK, Ownership, Inverse
<1>3. DragsAreOwned'
  BY DEF ControlsTypeOK, Ownership, DragsAreOwned
<1>4. BaselineKept'
  BY DEF Ownership, BaselineKept
<1>5. ActiveIffOwned'
  <2> SUFFICES ASSUME NEW d \in Controls, Momentary(d)
               PROVE  (active[d] <=> ownerByControl[d] # None /\ ownerByControl[d] \notin dragging)'
    BY DEF ActiveIffOwned, Momentary
  <2>0. p \notin dragging
    BY DEF Ownership, DragsAreOwned
  <2>1. CASE d = c
    BY <2>0, <2>1 DEF ControlsTypeOK, Ownership, ActiveIffOwned, Momentary
  <2>2. CASE d # c
    <3>1. ownerByControl[d] # p
      BY DEF ControlsTypeOK, Ownership, Inverse
    <3>2. QED
      BY <2>2, <3>1 DEF ControlsTypeOK, Ownership, ActiveIffOwned, Momentary
  <2>3. QED
    BY <2>1, <2>2
<1>6. QED
  BY <1>1, <1>2, <1>3, <1>4, <1>5 DEF Ownership

LEMMA ReleaseOwnerKeeps ==
    ASSUME ControlsInv, NEW p \in Pointers, ReleaseOwner(p)
    PROVE  ControlsInv'
<1> USE DEF ControlsInv, ReleaseOwner, ReleaseOutput, profileVars
<1>0. owners[p] \in Controls
  BY DEF ControlsTypeOK
<1>1. ControlsTypeOK'
  BY <1>0 DEF ControlsTypeOK
<1>2. Inverse'
  BY <1>0 DEF ControlsTypeOK, Ownership, Inverse
<1>3. DragsAreOwned'
  BY DEF ControlsTypeOK, Ownership, DragsAreOwned
<1>4. BaselineKept'
  BY DEF Ownership, BaselineKept
<1>5. ActiveIffOwned'
  <2> SUFFICES ASSUME NEW d \in Controls, Momentary(d)
               PROVE  (active[d] <=> ownerByControl[d] # None /\ ownerByControl[d] \notin dragging)'
    BY DEF ActiveIffOwned, Momentary
  <2>1. CASE d = owners[p]
    BY <1>0, <2>1 DEF ControlsTypeOK
  <2>2. CASE d # owners[p]
    <3>1. ownerByControl[d] # p
      BY <2>2 DEF ControlsTypeOK, Ownership, Inverse
    <3>2. QED
      BY <1>0, <2>2, <3>1 DEF ControlsTypeOK, Ownership, ActiveIffOwned
  <2>3. QED
    BY <2>1, <2>2
<1>6. QED
  BY <1>1, <1>2, <1>3, <1>4, <1>5 DEF Ownership

LEMMA MoveOwnerKeeps ==
    ASSUME ControlsInv, NEW p \in Pointers, MoveOwner(p)
    PROVE  ControlsInv'
<1> USE DEF ControlsInv, MoveOwner, ownerVars
<1>0. owners[p] \in Controls
  BY DEF ControlsTypeOK
<1>1. ControlsTypeOK'
  BY <1>0 DEF ControlsTypeOK
<1>2. QED
  BY <1>1 DEF Ownership, Inverse, ActiveIffOwned, DragsAreOwned, BaselineKept, Momentary

\* The operations that leave ownership and outputs alone, or only drain.
LEMMA ProfileKeeps ==
    ASSUME ControlsInv,
           UNCHANGED <<ownerVars, active>>,
           pending' \in [Controls -> 0..MaxPulse],
           lifecycle' \in {"created", "mounted", "editing", "destroyed"},
           layout' \in Layouts,
           editBaseline' \in Layouts \cup {None},
           lifecycle' = "editing" => editBaseline' # None
    PROVE  ControlsInv'
BY DEF ControlsInv, ControlsTypeOK, Ownership, Inverse, ActiveIffOwned, DragsAreOwned,
       BaselineKept, Momentary, ownerVars

LEMMA ControlsStep == ControlsInv /\ [ControlsNext]_controlVars => ControlsInv'
<1> SUFFICES ASSUME ControlsInv, [ControlsNext]_controlVars PROVE ControlsInv'
  OBVIOUS
<1>1. ASSUME NEW p \in Pointers, NEW c \in Controls, BeginOwner(p, c) PROVE ControlsInv'
  BY <1>1, BeginOwnerKeeps
<1>2. ASSUME NEW p \in Pointers, MoveOwner(p) \/ ReleaseOwner(p) PROVE ControlsInv'
  BY <1>2, MoveOwnerKeeps, ReleaseOwnerKeeps
<1>3. ASSUME NEW l \in Layouts, ImportProfile(l) PROVE ControlsInv'
  BY <1>3, ReleasedKeeps DEF ImportProfile, ControlsInv, ControlsTypeOK, Ownership, BaselineKept
<1>4. ASSUME NEW l \in Layouts, ReplaceProfile(l) PROVE ControlsInv'
  BY <1>4, ProfileKeeps
     DEF ReplaceProfile, ControlsInv, ControlsTypeOK, Ownership, BaselineKept, outputVars
<1>5. CASE ReleaseAll
  BY <1>5, ReleasedKeeps
     DEF ReleaseAll, profileVars, ControlsInv, ControlsTypeOK, Ownership, BaselineKept
<1>6. CASE Flush
  <2>1. pending' \in [Controls -> 0..MaxPulse]
    BY <1>6 DEF Flush, ControlsInv, ControlsTypeOK
  <2>2. QED
    BY <1>6, <2>1, ProfileKeeps
       DEF Flush, profileVars, ControlsInv, ControlsTypeOK, Ownership, BaselineKept
<1>7. CASE Mount
  BY <1>7, ProfileKeeps DEF Mount, ControlsInv, ControlsTypeOK, outputVars
<1>8. CASE Destroy
  BY <1>8, ReleasedKeeps DEF Destroy, ControlsInv, ControlsTypeOK
<1>9. CASE BeginEdit
  BY <1>9, ReleasedKeeps DEF BeginEdit, ControlsInv, ControlsTypeOK
<1>10. CASE CommitEdit
  BY <1>10, ProfileKeeps DEF CommitEdit, ControlsInv, ControlsTypeOK, outputVars
<1>11. CASE CancelEdit
  BY <1>11, ProfileKeeps
     DEF CancelEdit, ControlsInv, ControlsTypeOK, Ownership, BaselineKept, outputVars
<1>12. CASE CancelEditAndRelease
  BY <1>12, ReleasedKeeps
     DEF CancelEditAndRelease, ControlsInv, ControlsTypeOK, Ownership, BaselineKept
<1>13. CASE ResetProfile
  BY <1>13, ReleasedKeeps DEF ResetProfile, Listening, ControlsInv, ControlsTypeOK
<1>14. CASE UNCHANGED controlVars
  BY <1>14, ProfileKeeps
     DEF controlVars, profileVars, outputVars, ControlsInv, ControlsTypeOK, Ownership, BaselineKept
<1>15. QED
  BY <1>1, <1>2, <1>3, <1>4, <1>5, <1>6, <1>7, <1>8, <1>9, <1>10, <1>11, <1>12, <1>13, <1>14
     DEF ControlsNext

\* Whatever the pointers, controls and kinds of control: the ownership maps of
\* runtime.ts stay inverse, and a momentary control is on exactly while a
\* pointer owns it for play.
THEOREM OwnershipHolds == ControlsSpec => []Ownership
<1>1. ControlsSpec => []ControlsInv
  BY InitControls, ControlsStep, PTL DEF ControlsSpec
<1>2. ControlsInv => Ownership
  BY DEF ControlsInv
<1>3. QED
  BY <1>1, <1>2, PTL
=============================================================================
