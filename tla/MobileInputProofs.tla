------------------------- MODULE MobileInputProofs -------------------------
(***************************************************************************)
(* No key sticks and no tap leaks into the editor, for any number of       *)
(* fingers and any ring that one flush cannot fill.                        *)
(*                                                                         *)
(* NoStuckKey is not inductive: what the game takes for pressed depends on *)
(* the events that still wait.  KeyInv adds that a press that waits        *)
(* belongs to a held key or is followed by its release, that FIRE is held  *)
(* for a reason, and that the ring is all but empty between two calls of   *)
(* BuildNewTic, so that the next flush cannot overrun it.                  *)
(***************************************************************************)
EXTENDS MobileInput, MobileControlsProofs

Pressed(k) == \E i \in 1..Len(ring) : ring[i] = Down(k)

\* Between two calls of BuildNewTic all that waits is the release of a cleared tap.
RingAtRest ==
    /\ phase = "idle" => ring \in {<<>>, <<Up("fire")>>}
    /\ ring = <<Up("fire")>> => ~held["fire"]

KeyInv ==
    /\ HeldForAReason
    /\ RingAtRest
    /\ ~held["menu"]
    /\ LiftedLast("fire") => ~held["fire"]
    /\ \A k \in Keys : Pressed(k) => held[k] \/ LiftedLast(k)
    /\ NoStuckKey

InputInv == InputTypeOK /\ ControlsInv /\ KeyInv /\ NoTapInEditor

LEMMA AtMostOne ==
    ASSUME NEW e \in Events, NEW s \in {<<>>, <<e>>}
    PROVE  /\ s \in Seq(Events) /\ Len(s) \in 0..1
           /\ Len(s) = 1 <=> s = <<e>>
           /\ Len(s) = 1 => s[1] = e
           /\ Len(s) = 0 <=> s = <<>>
<1>1. CASE s = <<>>
  BY <1>1
<1>2. CASE s = <<e>>
  BY <1>2
<1>3. QED
  BY <1>1, <1>2

LEMMA ConcatAt ==
    ASSUME NEW s \in Seq(Events), NEW t \in Seq(Events)
    PROVE  /\ s \o t \in Seq(Events)
           /\ Len(s \o t) = Len(s) + Len(t)
           /\ \A i \in 1..Len(s) : (s \o t)[i] = s[i]
           /\ \A i \in 1..Len(t) : (s \o t)[Len(s) + i] = t[i]
OBVIOUS

\* Where the parts of what a flush leaves in the ring are.
PartsOf(q, r, h, m, p) ==
    /\ q \in Seq(Events)
    /\ Len(q) = Len(r) + Len(h) + Len(m) + Len(p)
    /\ \A i \in 1..Len(r) : q[i] = r[i]
    /\ \A i \in 1..Len(h) : q[Len(r) + i] = h[i]
    /\ \A i \in 1..Len(m) : q[Len(r) + Len(h) + i] = m[i]
    /\ \A i \in 1..Len(p) : q[Len(r) + Len(h) + Len(m) + i] = p[i]

LEMMA Parts ==
    ASSUME NEW r \in Seq(Events), NEW h \in Seq(Events), NEW m \in Seq(Events),
           NEW p \in Seq(Events)
    PROVE  PartsOf(r \o ((h \o m) \o p), r, h, m, p)
<1>1. PICK a \in Nat, b \in Nat, c \in Nat, d \in Nat :
        a = Len(r) /\ b = Len(h) /\ c = Len(m) /\ d = Len(p)
  OBVIOUS
<1> DEFINE u == h \o m  v == u \o p  q == r \o v
<1>2. u \in Seq(Events) /\ Len(u) = b + c /\ \A i \in 1..b : u[i] = h[i]
  BY <1>1, ConcatAt
<1>x. \A i \in 1..c : u[b + i] = m[i]
  BY <1>1, ConcatAt
<1> HIDE DEF u
<1>3. v \in Seq(Events) /\ Len(v) = b + c + d
  <2>1. v \in Seq(Events) /\ Len(v) = Len(u) + Len(p)
    BY <1>2, ConcatAt
  <2>2. QED
    BY <2>1, <1>1, <1>2
<1>y. \A i \in 1..(b + c) : v[i] = u[i]
  BY <1>2, ConcatAt
<1>z. \A i \in 1..d : v[b + c + i] = p[i]
  <2>1. \A i \in 1..Len(p) : v[Len(u) + i] = p[i]
    BY <1>2, ConcatAt
  <2>2. QED
    BY <2>1, <1>1, <1>2
<1> HIDE DEF v
<1>4. q \in Seq(Events) /\ Len(q) = a + (b + c + d) /\ \A i \in 1..a : q[i] = r[i]
  <2>1. q \in Seq(Events) /\ Len(q) = Len(r) + Len(v) /\ \A i \in 1..Len(r) : q[i] = r[i]
    BY <1>3, ConcatAt
  <2>2. QED
    BY <2>1, <1>1, <1>3
<1>w. \A i \in 1..(b + c + d) : q[a + i] = v[i]
  <2>1. \A i \in 1..Len(v) : q[Len(r) + i] = v[i]
    BY <1>3, ConcatAt
  <2>2. QED
    BY <2>1, <1>1, <1>3
<1> HIDE DEF q
<1>5. ASSUME NEW i \in 1..b PROVE q[a + i] = h[i]
  <2>1. i \in 1..(b + c) /\ i \in 1..(b + c + d)
    OBVIOUS
  <2>2. QED
    BY <2>1, <1>2, <1>x, <1>y, <1>w
<1>6. ASSUME NEW i \in 1..c PROVE q[a + b + i] = m[i]
  <2>1. b + i \in 1..(b + c) /\ b + i \in 1..(b + c + d) /\ a + b + i = a + (b + i)
    OBVIOUS
  <2>2. q[a + (b + i)] = v[b + i] /\ v[b + i] = u[b + i] /\ u[b + i] = m[i]
    BY <2>1, <1>2, <1>x, <1>y, <1>w
  <2>3. QED
    BY <2>1, <2>2
<1>7. ASSUME NEW i \in 1..d PROVE q[a + b + c + i] = p[i]
  <2>1. b + c + i \in 1..(b + c + d) /\ a + b + c + i = a + (b + c + i)
    OBVIOUS
  <2>2. q[a + (b + c + i)] = v[b + c + i] /\ v[b + c + i] = p[i]
    BY <2>1, <1>z, <1>w
  <2>3. QED
    BY <2>1, <2>2
<1>8. Len(q) = a + b + c + d
  BY <1>4
<1>9. q = r \o ((h \o m) \o p)
  BY DEF q, v, u
<1>10. PartsOf(q, r, h, m, p)
  BY <1>1, <1>4, <1>5, <1>6, <1>7, <1>8 DEF PartsOf
<1>11. QED
  BY <1>9, <1>10

USE InputAssumption, ControlsAssumption

LEMMA KeyFacts ==
    /\ \A k, l \in Keys : Down(k) # Up(l) /\ Down(k) # Mouse /\ Up(k) # Mouse
    /\ \A k, l \in Keys : k # l => Down(k) # Down(l) /\ Up(k) # Up(l)
    /\ \A k \in Keys : Down(k) \in Events /\ Up(k) \in Events
    /\ Mouse \in Events
BY DEF Down, Up, Mouse, Events, Keys

LEMMA EventFacts ==
    ASSUME NEW e \in Events
    PROVE  \/ e = Mouse
           \/ \E k \in Keys : e = Down(k) \/ e = Up(k)
BY DEF Events

\* A post that does not fill the ring appends.
LEMMA PostAppends ==
    ASSUME NEW q \in Seq(Events), NEW evs \in Seq(Events), Len(q) + Len(evs) < RingSize
    PROVE  PostEvents(q, evs) = q \o evs
<1> DEFINE all == q \o evs
<1>1. all \in Seq(Events) /\ Len(all) = Len(q) + Len(evs) /\ Len(all) \in Nat
  OBVIOUS
<1>2. Len(all) % RingSize = Len(all)
  BY <1>1
<1>3. SubSeq(all, 1, Len(all)) = all
  BY <1>1
<1>4. Len(all) - (Len(all) % RingSize) + 1 = 1
  BY <1>1, <1>2
<1> HIDE DEF all
<1>5. SubSeq(all, Len(all) - (Len(all) % RingSize) + 1, Len(all)) = all
  BY <1>3, <1>4
<1>6. QED
  BY <1>5 DEF PostEvents, all

LEMMA InitInput == Init => InputInv
<1> SUFFICES ASSUME Init PROVE InputInv
  OBVIOUS
<1>1. ControlsInv
  BY InitControls DEF Init
<1>2. InputTypeOK
  <2>1. ring \in Seq(Events)
    BY DEF Init
  <2>2. queued \in 0..MaxQueue /\ ahead \in 0..(MaxAhead + 1) /\ sincePress \in {0, 1}
    BY DEF Init
  <2>3. /\ releaseTicPending \in BOOLEAN /\ menuactive \in BOOLEAN /\ attack \in BOOLEAN
        /\ held \in [Keys -> BOOLEAN] /\ gamekeydown \in [Keys -> BOOLEAN]
    BY DEF Init
  <2>4. QED
    BY <2>1, <2>2, <2>3 DEF Init, InputTypeOK
<1>3. KeyInv
  BY DEF Init, KeyInv, HeldForAReason, RingAtRest, LiftedLast, Pressed, NoStuckKey, Keys
<1>4. NoTapInEditor
  BY DEF Init, NoTapInEditor, ControlsInit
<1>5. QED
  BY <1>1, <1>2, <1>3, <1>4 DEF InputInv

\* Steps of the runtime and of the adapter that post nothing.
LEMMA QuietKeeps ==
    ASSUME InputInv, UNCHANGED <<keyVars, mode, phase, releaseTicPending>>
    PROVE  KeyInv'
BY DEF InputInv, KeyInv, HeldForAReason, RingAtRest, LiftedLast, Pressed, NoStuckKey, keyVars

\* clearLookTapFire posts at most the one release that keeps the keys in step.
LEMMA ClearKeeps ==
    ASSUME InputInv, phase = "idle", ClearTaps, UNCHANGED <<fingers, gameVars>>
    PROVE  InputTypeOK' /\ KeyInv'
<1>0. /\ InputTypeOK /\ KeyInv
      /\ UNCHANGED <<fingers, fingerFired, gamekeydown, menuactive, mode, gameaction, ahead, attack, phase>>
  BY DEF InputInv, ClearTaps, gameVars
<1>1. tracker' \in Pointers \cup {None} /\ queued' \in 0..MaxQueue /\ sincePress' \in {0, 1}
  BY DEF ClearTaps
<1>2. ~releaseTicPending' /\ releaseTicPending' \in BOOLEAN
  BY DEF ClearTaps
<1>3. CASE ~releaseTicPending
  <2>1. UNCHANGED <<keyVars, mode, phase, releaseTicPending>>
    BY <1>0, <1>2, <1>3 DEF keyVars, ClearTaps, InputTypeOK
  <2>2. InputTypeOK'
    BY <1>0, <1>1, <1>2, <2>1 DEF InputTypeOK, keyVars
  <2>3. KeyInv'
    BY <2>1, QuietKeeps
  <2>4. QED
    BY <2>2, <2>3
<1>4. CASE releaseTicPending
  <2> DEFINE up == <<Up("fire")>>
  <2>1. held["fire"] /\ ~fingerFired /\ ring = <<>>
    BY <1>0, <1>4 DEF KeyInv, HeldForAReason, RingAtRest
  <2>2. HeldEvents("fire", FALSE) = up
    BY <2>1 DEF HeldEvents
  <2>3. up \in Seq(Events) /\ Len(up) = 1 /\ up[1] = Up("fire")
    BY KeyFacts DEF Keys
  <2>4. held' = [held EXCEPT !["fire"] = FALSE] /\ ring' = PostEvents(<<>>, up)
    BY <1>4, <2>1, <2>2 DEF ClearTaps
  <2>5. ring' = up
    <3> HIDE DEF up
    <3>1. <<>> \in Seq(Events) /\ Len(<<>>) + Len(up) < RingSize /\ <<>> \o up = up
      BY <2>3
    <3>2. QED
      BY <2>3, <2>4, <3>1, PostAppends
  <2> HIDE DEF up
  <2>6. ring' \in Seq(Events) /\ Len(ring') = 1 /\ ring'[1] = Up("fire")
    BY <2>3, <2>5
  <2>7. held' \in [Keys -> BOOLEAN] /\ ~held'["fire"] /\ ~held'["menu"]
    BY <1>0, <2>4 DEF InputTypeOK, KeyInv, Keys
  <2>8. InputTypeOK'
    BY <1>0, <1>1, <1>2, <2>6, <2>7 DEF InputTypeOK
  <2>9. \A k \in Keys : ~Pressed(k)'
    BY <2>6, KeyFacts DEF Pressed, Keys
  <2>10. LiftedLast("fire")'
    BY <2>6 DEF LiftedLast
  <2>11. ~LiftedLast("menu")
    BY <2>1 DEF LiftedLast
  <2>12. NoStuckKey'
    BY <1>0, <2>10, <2>11 DEF KeyInv, NoStuckKey, Keys
  <2>13. HeldForAReason' /\ RingAtRest'
    BY <1>0, <1>2, <2>1, <2>5, <2>7 DEF HeldForAReason, RingAtRest, up
  <2>14. QED
    BY <2>7, <2>8, <2>9, <2>12, <2>13 DEF KeyInv
<1>5. QED
  BY <1>3, <1>4, <1>0 DEF InputTypeOK

LEMMA PulseShape ==
    ASSUME NEW n \in Nat
    PROVE  /\ PulseEvents("menu", n) \in Seq(Events)
           /\ Len(PulseEvents("menu", n)) = 2 * n
           /\ \A i \in 1..(2 * n) : PulseEvents("menu", n)[i] \in {Up("menu"), Down("menu")}
           /\ n > 0 => PulseEvents("menu", n)[2 * n] = Up("menu")
<1> DEFINE P == PulseEvents("menu", n)
           um == Up("menu")  dm == Down("menu")
<1>1. um \in Events /\ dm \in Events
  BY KeyFacts DEF Keys
<1>2. P = [i \in 1..(2 * n) |-> IF i % 2 = 1 THEN dm ELSE um]
  BY DEF PulseEvents
<1> HIDE DEF P, um, dm
<1>3. P \in Seq(Events) /\ Len(P) = 2 * n
  BY <1>1, <1>2
<1>4. \A i \in 1..(2 * n) : P[i] \in {um, dm}
  BY <1>2
<1>5. n > 0 => P[2 * n] = um
  <2>1. (2 * n) % 2 = 0
    OBVIOUS
  <2>2. QED
    BY <1>2, <2>1
<1>6. QED
  BY <1>3, <1>4, <1>5 DEF P, um, dm

\* At most one Up(fire), at most one event x, then mouse events and pulses of
\* which the last is an Up(menu).
Flushed(q, a, b, n, x) ==
    /\ a \in 0..1 /\ b \in 0..1 /\ n \in Nat
    /\ Len(q) \in Nat /\ a + b <= Len(q)
    /\ x = Up("fire") \/ x = Down("fire")
    /\ \A i \in 1..Len(q) : i <= a => q[i] = Up("fire")
    /\ \A i \in 1..Len(q) : i > a /\ i <= a + b => q[i] = x
    /\ \A i \in 1..Len(q) : i > a + b => q[i] \in {Mouse, Up("menu"), Down("menu")}
    /\ n > 0 => q[Len(q)] = Up("menu")
    /\ n = 0 => \A i \in 1..Len(q) : i > a + b => q[i] = Mouse

\* What waits in such a ring for the two keys.
Scanned(q, a, b, x) ==
    /\ (\E i \in 1..Len(q) : q[i] = Down("fire")) => b = 1 /\ x = Down("fire")
    /\ (\E i \in 1..Len(q) : q[i] = Down("menu")) => Len(q) > 0 /\ q[Len(q)] = Up("menu")
    /\ (b = 1 /\ x = Down("fire")) =>
         \A i \in 1..Len(q) : q[i] = Up("fire") =>
             \E j \in (i + 1)..Len(q) : q[j] = Down("fire")
    /\ ((b = 1 /\ x = Up("fire")) \/ (b = 0 /\ a = 1)) =>
         \E i \in 1..Len(q) : /\ q[i] = Up("fire")
                              /\ \A j \in (i + 1)..Len(q) : q[j] # Down("fire")
    /\ (b = 0 /\ a = 0) => \A i \in 1..Len(q) : q[i] # Up("fire")

LEMMA FlushScan ==
    ASSUME NEW a, NEW b, NEW n, NEW x, NEW q, Flushed(q, a, b, n, x)
    PROVE  Scanned(q, a, b, x)
<1>N. /\ Up("fire") # Down("fire") /\ Up("fire") # Up("menu") /\ Up("fire") # Down("menu") /\ Up("fire") # Mouse /\ Down("fire") # Up("menu") /\ Down("fire") # Down("menu") /\ Down("fire") # Mouse
      /\ Up("menu") # Down("menu") /\ Down("menu") # Mouse
  BY KeyFacts DEF Keys
<1>F. /\ a \in 0..1 /\ b \in 0..1 /\ n \in Nat
      /\ Len(q) \in Nat /\ a + b <= Len(q)
      /\ x = Up("fire") \/ x = Down("fire")
      /\ \A i \in 1..Len(q) : i <= a => q[i] = Up("fire")
      /\ \A i \in 1..Len(q) : i > a /\ i <= a + b => q[i] = x
      /\ \A i \in 1..Len(q) : i > a + b => q[i] \in {Mouse, Up("menu"), Down("menu")}
      /\ n > 0 => q[Len(q)] = Up("menu")
      /\ n = 0 => \A i \in 1..Len(q) : i > a + b => q[i] = Mouse
  BY DEF Flushed
<1>1. ASSUME NEW i \in 1..Len(q)
      PROVE  \/ i <= a /\ q[i] = Up("fire")
             \/ i > a /\ i <= a + b /\ q[i] = x
             \/ i > a + b /\ q[i] \in {Mouse, Up("menu"), Down("menu")}
  BY <1>F
<1>2. (\E i \in 1..Len(q) : q[i] = Down("fire")) => b = 1 /\ x = Down("fire")
  BY <1>1, <1>N, <1>F
<1>3. (\E i \in 1..Len(q) : q[i] = Down("menu")) => Len(q) > 0 /\ q[Len(q)] = Up("menu")
  <2>1. SUFFICES ASSUME NEW i \in 1..Len(q), q[i] = Down("menu") PROVE Len(q) > 0 /\ q[Len(q)] = Up("menu")
    OBVIOUS
  <2>2. i > a + b
    BY <1>1, <2>1, <1>N, <1>F
  <2>3. n # 0
    BY <2>1, <2>2, <1>N, <1>F
  <2>4. QED
    BY <2>3, <1>F
<1>4. b = 1 /\ x = Down("fire") =>
        \A i \in 1..Len(q) : q[i] = Up("fire") => \E j \in (i + 1)..Len(q) : q[j] = Down("fire")
  <2>1. SUFFICES ASSUME b = 1, x = Down("fire"), NEW i \in 1..Len(q), q[i] = Up("fire")
                 PROVE  \E j \in (i + 1)..Len(q) : q[j] = Down("fire")
    OBVIOUS
  <2>2. i <= a
    BY <1>1, <2>1, <1>N, <1>F
  <2>3. a + 1 \in (i + 1)..Len(q) /\ a + 1 \in 1..Len(q)
    BY <2>1, <2>2, <1>F
  <2>4. q[a + 1] = Down("fire")
    BY <1>F, <2>1, <2>3
  <2>5. QED
    BY <2>3, <2>4
<1>5. ASSUME (b = 1 /\ x = Up("fire")) \/ (b = 0 /\ a = 1)
      PROVE  \E i \in 1..Len(q) : q[i] = Up("fire") /\ \A j \in (i + 1)..Len(q) : q[j] # Down("fire")
  <2>1. \A j \in 1..Len(q) : q[j] # Down("fire")
    BY <1>1, <1>5, <1>N, <1>F
  <2>2. PICK k \in 1..Len(q) : q[k] = Up("fire")
    <3>1. CASE b = 1 /\ x = Up("fire")
      <4>1. a + 1 \in 1..Len(q) /\ a + 1 > a /\ a + 1 <= a + b
        BY <3>1, <1>F
      <4>2. q[a + 1] = Up("fire")
        BY <3>1, <4>1, <1>F
      <4>3. QED
        BY <4>1, <4>2
    <3>2. CASE b = 0 /\ a = 1
      <4>1. 1 \in 1..Len(q) /\ 1 <= a
        BY <3>2, <1>F
      <4>2. QED
        BY <4>1, <1>F
    <3>3. QED
      BY <1>5, <3>1, <3>2
  <2>3. \A j \in (k + 1)..Len(q) : j \in 1..Len(q)
    OBVIOUS
  <2>4. QED
    BY <2>1, <2>2, <2>3
<1>6. b = 0 /\ a = 0 => \A i \in 1..Len(q) : q[i] # Up("fire")
  BY <1>1, <1>N, <1>F
<1>7. QED
  BY <1>2, <1>3, <1>4, <1>5, <1>6 DEF Scanned

\* What a flush appends to the ring: at most one FIRE event, at most one mouse
\* event, then the pairs of the pulses.
FlushLeaves(q, r, h, evs, n) ==
    /\ evs \in Seq(Events) /\ Len(evs) <= 2 + 2 * n
    /\ r \in Seq(Events) /\ Len(r) <= 1
    /\ q \in Seq(Events)
    /\ (\E i \in 1..Len(q) : q[i] = Down("fire")) => h = <<Down("fire")>>
    /\ (\E i \in 1..Len(q) : q[i] = Down("menu")) => Len(q) > 0 /\ q[Len(q)] = Up("menu")
    /\ h = <<Down("fire")>> =>
         \A i \in 1..Len(q) : q[i] = Up("fire") => \E j \in (i + 1)..Len(q) : q[j] = Down("fire")
    /\ (h = <<Up("fire")>> \/ (h = <<>> /\ r = <<Up("fire")>>)) =>
         \E i \in 1..Len(q) : q[i] = Up("fire") /\ \A j \in (i + 1)..Len(q) : q[j] # Down("fire")
    /\ (h = <<>> /\ r = <<>>) => \A i \in 1..Len(q) : q[i] # Up("fire")

LEMMA FlushShape ==
    ASSUME NEW r \in {<<>>, <<Up("fire")>>},
           NEW h \in {<<>>, <<Up("fire")>>, <<Down("fire")>>},
           NEW m \in {<<>>, <<Mouse>>}, NEW n \in Nat,
           NEW evs, evs = (h \o m) \o PulseEvents("menu", n),
           NEW q, q = r \o evs
    PROVE  FlushLeaves(q, r, h, evs, n)
<1>0. PICK x \in {Up("fire"), Down("fire")} : h \in {<<>>, <<x>>}
  OBVIOUS
<1>1. PICK p : p = PulseEvents("menu", n)
  OBVIOUS
<1>2. PICK uf, df, um, dm, mo :
        uf = Up("fire") /\ df = Down("fire") /\ um = Up("menu") /\ dm = Down("menu") /\ mo = Mouse
  OBVIOUS
<1>3. /\ uf \in Events /\ df \in Events /\ um \in Events /\ dm \in Events /\ mo \in Events
      /\ uf # df /\ uf # um /\ uf # dm /\ uf # mo /\ df # um /\ df # dm /\ df # mo
      /\ um # dm /\ dm # mo
  BY <1>2, KeyFacts DEF Keys
<1>4. x \in {uf, df} /\ x \in Events
  BY <1>2, <1>3
<1>5. PICK a, b, c, d, l :
        a = Len(r) /\ b = Len(h) /\ c = Len(m) /\ d = Len(p) /\ l = Len(q)
  OBVIOUS
<1>6. r \in Seq(Events) /\ (a = 1 => r[1] = uf) /\ (a = 1 <=> r = <<uf>>) /\ (a = 0 <=> r = <<>>)
  BY <1>2, <1>3, <1>5, AtMostOne
<1>7. h \in Seq(Events) /\ (b = 1 => h[1] = x) /\ (b = 1 <=> h = <<x>>) /\ (b = 0 <=> h = <<>>)
  BY <1>0, <1>4, <1>5, AtMostOne
<1>8. m \in Seq(Events) /\ (c = 1 => m[1] = mo)
  BY <1>2, <1>3, <1>5, AtMostOne
<1>9. /\ p \in Seq(Events)
      /\ \A i \in 1..d : p[i] \in {um, dm}
      /\ n > 0 => p[d] = um
  BY <1>1, <1>2, <1>5, PulseShape
<1>10. a \in 0..1
  BY <1>2, <1>3, <1>5, AtMostOne
<1>11. b \in 0..1
  BY <1>0, <1>4, <1>5, AtMostOne
<1>12. c \in 0..1
  BY <1>2, <1>3, <1>5, AtMostOne
<1>13. d = 2 * n /\ d \in Nat
  BY <1>1, <1>5, PulseShape
<1>14. q = r \o ((h \o m) \o p)
  BY <1>1
<1>P. PartsOf(q, r, h, m, p)
  <2>1. r \in Seq(Events) /\ h \in Seq(Events) /\ m \in Seq(Events) /\ p \in Seq(Events)
    BY <1>6, <1>7, <1>8, <1>9
  <2>2. PartsOf(r \o ((h \o m) \o p), r, h, m, p)
    BY <2>1, Parts
  <2>3. QED
    BY <2>2, <1>14
<1>15. q \in Seq(Events) /\ l = a + b + c + d
  <2>1. q \in Seq(Events) /\ Len(q) = Len(r) + Len(h) + Len(m) + Len(p)
    BY <1>P DEF PartsOf
  <2>2. QED
    BY <2>1, <1>5
<1>16. /\ \A i \in 1..a : q[i] = r[i]
       /\ \A i \in 1..b : q[a + i] = h[i]
       /\ \A i \in 1..c : q[a + b + i] = m[i]
       /\ \A i \in 1..d : q[a + b + c + i] = p[i]
  <2>1. /\ \A i \in 1..Len(r) : q[i] = r[i]
        /\ \A i \in 1..Len(h) : q[Len(r) + i] = h[i]
        /\ \A i \in 1..Len(m) : q[Len(r) + Len(h) + i] = m[i]
        /\ \A i \in 1..Len(p) : q[Len(r) + Len(h) + Len(m) + i] = p[i]
    BY <1>P DEF PartsOf
  <2>2. \A i \in 1..a : q[i] = r[i]
    BY <2>1, <1>5
  <2>3. \A i \in 1..b : q[a + i] = h[i]
    BY <2>1, <1>5
  <2>4. \A i \in 1..c : q[a + b + i] = m[i]
    BY <2>1, <1>5
  <2>5. \A i \in 1..d : q[a + b + c + i] = p[i]
    BY <2>1, <1>5
  <2>6. QED
    BY <2>2, <2>3, <2>4, <2>5
<1>17. l = a + b + c + d
  BY <1>15
<1>18. l \in Nat /\ a + b <= l
  BY <1>10, <1>11, <1>12, <1>13, <1>17
<1>19. \A i \in 1..l : i <= a => q[i] = uf
  <2>1. SUFFICES ASSUME NEW i \in 1..l, i <= a PROVE q[i] = uf
    OBVIOUS
  <2>2. a = 1 /\ i = 1
    BY <2>1, <1>10, <1>18
  <2>3. 1 \in 1..a
    BY <2>2
  <2>4. QED
    BY <2>2, <2>3, <1>6, <1>16
<1>20. \A i \in 1..l : i > a /\ i <= a + b => q[i] = x
  <2>1. SUFFICES ASSUME NEW i \in 1..l, i > a, i <= a + b PROVE q[i] = x
    OBVIOUS
  <2>2. b = 1 /\ i = a + 1
    BY <2>1, <1>10, <1>11, <1>18
  <2>3. 1 \in 1..b
    BY <2>2
  <2>4. QED
    BY <2>2, <2>3, <1>7, <1>16
<1>21. ASSUME NEW i \in 1..l, i > a + b
       PROVE  q[i] \in {mo, um, dm} /\ (n = 0 => q[i] = mo)
  <2>1. CASE i <= a + b + c
    <3>1. c = 1 /\ i = a + b + 1
      BY <2>1, <1>21, <1>10, <1>11, <1>12, <1>18
    <3>2. 1 \in 1..c
      BY <3>1
    <3>3. QED
      BY <3>1, <3>2, <1>8, <1>16
  <2>2. CASE i > a + b + c
    <3>1. PICK j \in 1..d : i = a + b + c + j
      <4>1. i - (a + b + c) \in 1..d
        BY <2>2, <1>10, <1>11, <1>12, <1>13, <1>17
      <4>2. i = a + b + c + (i - (a + b + c))
        BY <1>10, <1>11, <1>12, <1>18
      <4>3. QED
        BY <4>1, <4>2
    <3>2. q[i] \in {um, dm}
      BY <3>1, <1>9, <1>16
    <3>3. n # 0
      BY <3>1, <1>13
    <3>4. QED
      BY <3>2, <3>3
  <2>3. i <= a + b + c \/ i > a + b + c
    BY <1>10, <1>11, <1>12, <1>18
  <2>4. QED
    BY <2>1, <2>2, <2>3
<1>22. n > 0 => q[l] = um
  <2>1. SUFFICES ASSUME n > 0 PROVE q[l] = um
    OBVIOUS
  <2>2. d \in 1..d
    BY <2>1, <1>13
  <2>3. q[a + b + c + d] = p[d]
    BY <2>2, <1>16
  <2>4. QED
    BY <2>1, <2>3, <1>9, <1>17
<1>23. (\A i \in 1..l : i > a + b => q[i] \in {mo, um, dm})
       /\ (n = 0 => \A i \in 1..l : i > a + b => q[i] = mo)
  BY <1>21
<1>24. Flushed(q, a, b, n, x)
  <2>1. a \in 0..1 /\ b \in 0..1 /\ n \in Nat /\ Len(q) \in Nat /\ a + b <= Len(q)
    BY <1>5, <1>10, <1>11, <1>18
  <2>2. x = Up("fire") \/ x = Down("fire")
    BY <1>2, <1>4
  <2>3. QED
    BY <2>1, <2>2, <1>2, <1>5, <1>19, <1>20, <1>22, <1>23 DEF Flushed
<1>S. Scanned(q, a, b, x)
  BY <1>24, FlushScan, Zenon
<1>25. \A e \in {uf, df} : h = <<e>> <=> b = 1 /\ x = e
  <2>1. SUFFICES ASSUME NEW e \in {uf, df} PROVE h = <<e>> <=> b = 1 /\ x = e
    OBVIOUS
  <2>2. h = <<e>> => b = 1 /\ x = e
    <3>1. h = <<e>> => Len(h) = 1 /\ h[1] = e
      OBVIOUS
    <3>2. QED
      BY <3>1, <1>5, <1>7
  <2>3. b = 1 /\ x = e => h = <<e>>
    BY <1>7
  <2>4. QED
    BY <2>2, <2>3
<1>26. evs \in Seq(Events) /\ Len(evs) = b + c + d
  BY <1>1, <1>5, <1>7, <1>8, <1>9
<1>27. Len(evs) <= 2 + 2 * n
  BY <1>11, <1>12, <1>13, <1>26
<1>28. Len(r) <= 1
  <2>1. a <= 1
    BY <1>10
  <2>2. QED
    BY <2>1, <1>5
<1>29. \/ h = <<Up("fire")>>
       \/ h = <<>> /\ r = <<Up("fire")>>
       => \/ b = 1 /\ x = Up("fire")
          \/ b = 0 /\ a = 1
  BY <1>2, <1>6, <1>7, <1>25
<1>30. h = <<Down("fire")>> <=> b = 1 /\ x = Down("fire")
  BY <1>2, <1>25
<1>31. h = <<>> /\ r = <<>> => b = 0 /\ a = 0
  BY <1>6, <1>7
<1>32. evs \in Seq(Events) /\ r \in Seq(Events) /\ q \in Seq(Events)
  BY <1>6, <1>15, <1>26
<1>33. QED
  BY <1>S, <1>27, <1>28, <1>29, <1>30, <1>31, <1>32 DEF Scanned, FlushLeaves

LEMMA StartTicKeeps ==
    ASSUME InputInv, StartTic
    PROVE  InputTypeOK' /\ KeyInv' /\ NoTapInEditor'
<1> DEFINE k == "fire"
           h == HeldEvents("fire", EffectivePrimary)
           m == IF pending[Look] > 0 THEN <<Mouse>> ELSE <<>>
           n == pending[Menu]
           evs == (h \o m) \o PulseEvents("menu", n)
<1>1. /\ phase = "idle" /\ phase' = "events"
      /\ UNCHANGED <<fingers, gamekeydown, menuactive, mode, gameaction, ahead, attack, tracker>>
      /\ UNCHANGED lifecycle
  BY DEF StartTic, Idle, Flush, DrainTaps, profileVars
<1>2. /\ held' = [held EXCEPT !["fire"] = EffectivePrimary] /\ ring' = PostEvents(ring, evs)
      /\ fingerFired' = active[Fire]
  BY DEF StartTic
<1>3. /\ queued' = IF active[Fire] THEN 0 ELSE IF PressDrained THEN queued - 1 ELSE queued
      /\ releaseTicPending' = (PressDrained \/ (releaseTicPending /\ ~active[Fire] /\ ~ReleaseDrained))
      /\ sincePress' = IF active[Fire] \/ PressDrained \/ ReleaseDrained THEN 0 ELSE sincePress
  BY DEF StartTic, DrainTaps
<1>4. InputTypeOK /\ KeyInv /\ NoTapInEditor /\ ControlsTypeOK
  BY DEF InputInv, ControlsInv
<1>5. ring \in {<<>>, <<Up("fire")>>}
  BY <1>1, <1>4 DEF KeyInv, RingAtRest
<1>6. EffectivePrimary \in BOOLEAN
  BY DEF EffectivePrimary
<1>7. h \in {<<>>, <<Up("fire")>>, <<Down("fire")>>}
  BY DEF HeldEvents
<1>8. /\ h = <<>> <=> held["fire"] = EffectivePrimary
      /\ EffectivePrimary /\ ~held["fire"] => h = <<Down("fire")>>
      /\ ~EffectivePrimary /\ held["fire"] => h = <<Up("fire")>>
      /\ h = <<Down("fire")>> => EffectivePrimary
  <2>1. held["fire"] \in BOOLEAN
    BY <1>4 DEF InputTypeOK, Keys
  <2>2. Down("fire") # Up("fire") /\ <<Down("fire")>> # <<Up("fire")>>
    BY KeyFacts DEF Keys
  <2>3. CASE held["fire"] = EffectivePrimary
    BY <2>3, <2>1, <1>6 DEF HeldEvents
  <2>4. CASE held["fire"] # EffectivePrimary /\ EffectivePrimary
    BY <2>4, <2>1, <1>6 DEF HeldEvents
  <2>5. CASE held["fire"] # EffectivePrimary /\ ~EffectivePrimary
    BY <2>5, <2>1, <2>2, <1>6 DEF HeldEvents
  <2>6. QED
    BY <2>3, <2>4, <2>5
<1>9. n \in Nat /\ n <= MaxPulse
  BY <1>4 DEF ControlsTypeOK
<1>10. m \in {<<>>, <<Mouse>>}
  OBVIOUS
<1> HIDE DEF h, m, n
<1>11. PICK q : q = ring \o evs
  OBVIOUS
<1>S. FlushLeaves(q, ring, h, evs, n)
  BY <1>5, <1>7, <1>9, <1>10, <1>11, FlushShape
<1> HIDE DEF evs
<1>12. /\ evs \in Seq(Events) /\ Len(evs) <= 2 + 2 * n
       /\ ring \in Seq(Events) /\ Len(ring) <= 1
       /\ q \in Seq(Events)
  BY <1>S DEF FlushLeaves
<1>13. /\ (\E i \in 1..Len(q) : q[i] = Down("fire")) => h = <<Down("fire")>>
       /\ (\E i \in 1..Len(q) : q[i] = Down("menu")) => Len(q) > 0 /\ q[Len(q)] = Up("menu")
       /\ h = <<Down("fire")>> =>
            \A i \in 1..Len(q) : q[i] = Up("fire") => \E j \in (i + 1)..Len(q) : q[j] = Down("fire")
       /\ (h = <<>> /\ ring = <<>>) => \A i \in 1..Len(q) : q[i] # Up("fire")
  BY <1>S DEF FlushLeaves
<1>14. (h = <<Up("fire")>> \/ (h = <<>> /\ ring = <<Up("fire")>>)) =>
         \E i \in 1..Len(q) : q[i] = Up("fire") /\ \A j \in (i + 1)..Len(q) : q[j] # Down("fire")
  BY <1>S DEF FlushLeaves
<1>15. ring' = q
  <2>1. Len(ring) \in Nat /\ Len(evs) \in Nat
    BY <1>12
  <2>2. Len(ring) + Len(evs) < RingSize
    BY <2>1, <1>9, <1>12
  <2>3. QED
    BY <2>2, <1>2, <1>11, <1>12, PostAppends
<1>16. held' \in [Keys -> BOOLEAN] /\ (held'["fire"] <=> EffectivePrimary) /\ ~held'["menu"]
  BY <1>2, <1>4, <1>6 DEF InputTypeOK, KeyInv, Keys
<1>17. PressDrained \in BOOLEAN /\ ReleaseDrained \in BOOLEAN
  BY DEF PressDrained, ReleaseDrained
<1>18. queued' \in 0..MaxQueue /\ sincePress' \in {0, 1}
  <2>1. queued \in 0..MaxQueue /\ sincePress \in {0, 1} /\ (PressDrained => queued > 0)
    BY <1>4 DEF InputTypeOK, PressDrained
  <2>2. QED
    BY <2>1, <1>3
<1>19. releaseTicPending' \in BOOLEAN
  BY <1>3
<1>f. fingerFired' \in BOOLEAN
  BY <1>2, <1>4 DEF ControlsTypeOK
<1>20. InputTypeOK'
  BY <1>1, <1>4, <1>f, <1>12, <1>15, <1>16, <1>18, <1>19 DEF InputTypeOK
<1>21. /\ EffectivePrimary <=> fingerFired' \/ releaseTicPending'
       /\ ~(fingerFired' /\ releaseTicPending')
  <2>1. sincePress \in {0, 1}
    BY <1>4 DEF InputTypeOK
  <2>2. CASE active[Fire]
    BY <2>2, <1>2, <1>3 DEF EffectivePrimary, PressDrained
  <2>3. CASE ~active[Fire] /\ ~releaseTicPending
    BY <2>3, <1>2, <1>3 DEF EffectivePrimary, PressDrained
  <2>4. CASE ~active[Fire] /\ releaseTicPending
    <3>1. ~PressDrained /\ (ReleaseDrained <=> sincePress > 0) /\ ~fingerFired'
      BY <2>4, <1>2 DEF PressDrained, ReleaseDrained
    <3>2. releaseTicPending' <=> ~(sincePress > 0)
      BY <2>4, <3>1, <1>3
    <3>3. EffectivePrimary <=> sincePress = 0
      BY <2>4 DEF EffectivePrimary
    <3>4. QED
      BY <2>1, <3>1, <3>2, <3>3
  <2>5. QED
    BY <2>2, <2>3, <2>4
<1>22. EffectivePrimary => h = <<Down("fire")>> \/ (h = <<>> /\ ring = <<>>)
  <2>1. SUFFICES ASSUME EffectivePrimary, h # <<Down("fire")>> PROVE h = <<>> /\ ring = <<>>
    OBVIOUS
  <2>2. held["fire"] /\ h = <<>>
    BY <2>1, <1>8
  <2>3. ring # <<Up("fire")>>
    BY <2>2, <1>4 DEF KeyInv, RingAtRest
  <2>4. QED
    BY <2>2, <2>3, <1>5
<1>23. LiftedLast("fire")' => ~held'["fire"]
  BY <1>13, <1>15, <1>16, <1>22 DEF LiftedLast
<1>24. ring' = <<Up("fire")>> => ~held'["fire"]
  <2>1. SUFFICES ASSUME ring' = <<Up("fire")>> PROVE LiftedLast("fire")'
    BY <1>23
  <2>2. Len(ring') = 1 /\ ring'[1] = Up("fire") /\ \A j \in (1 + 1)..Len(ring') : FALSE
    BY <2>1
  <2>3. QED
    BY <2>2 DEF LiftedLast
<1>25. HeldForAReason' /\ RingAtRest'
  BY <1>1, <1>16, <1>21, <1>24 DEF HeldForAReason, RingAtRest
<1>26. Pressed("fire")' => held'["fire"]
  BY <1>8, <1>13, <1>15, <1>16 DEF Pressed
<1>27. Pressed("menu")' => LiftedLast("menu")'
  <2>1. SUFFICES ASSUME Len(q) > 0, q[Len(q)] = Up("menu") PROVE LiftedLast("menu")'
    BY <1>13, <1>15 DEF Pressed
  <2>2. Len(q) \in 1..Len(q) /\ \A j \in (Len(q) + 1)..Len(q) : FALSE
    BY <2>1, <1>12
  <2>3. QED
    BY <2>1, <2>2, <1>15 DEF LiftedLast
<1>28. mode = "level" /\ gamekeydown["fire"] => held'["fire"] \/ LiftedLast("fire")'
  <2>1. SUFFICES ASSUME mode = "level", gamekeydown["fire"], ~EffectivePrimary
                 PROVE  h = <<Up("fire")>> \/ (h = <<>> /\ ring = <<Up("fire")>>)
    BY <1>14, <1>15, <1>16 DEF LiftedLast
  <2>2. CASE held["fire"]
    BY <2>1, <2>2, <1>8
  <2>3. CASE ~held["fire"]
    <3>1. LiftedLast("fire")
      BY <2>1, <2>3, <1>4 DEF KeyInv, NoStuckKey, Keys
    <3>2. ring # <<>>
      BY <3>1 DEF LiftedLast
    <3>3. held["fire"] = EffectivePrimary
      BY <2>1, <2>3, <1>4, <1>6 DEF InputTypeOK, Keys
    <3>4. QED
      BY <3>2, <3>3, <1>5, <1>8
  <2>4. QED
    BY <2>2, <2>3
<1>29. mode = "level" => ~gamekeydown["menu"]
  <2>1. SUFFICES ASSUME mode = "level", gamekeydown["menu"] PROVE FALSE
    OBVIOUS
  <2>2. LiftedLast("menu")
    BY <2>1, <1>4 DEF KeyInv, NoStuckKey, Keys
  <2>3. PICK i \in 1..Len(ring) : ring[i] = Up("menu")
    BY <2>2 DEF LiftedLast
  <2>4. QED
    BY <2>3, <1>5, KeyFacts DEF Keys
<1>30. NoStuckKey'
  BY <1>1, <1>28, <1>29 DEF NoStuckKey, Keys
<1>31. KeyInv'
  BY <1>16, <1>23, <1>25, <1>26, <1>27, <1>30 DEF KeyInv, Keys
<1>32. NoTapInEditor'
  <2>1. SUFFICES ASSUME lifecycle = "editing" PROVE queued' = 0 /\ tracker' = None /\ ~releaseTicPending'
    BY <1>1 DEF NoTapInEditor
  <2>2. queued = 0 /\ tracker = None /\ ~releaseTicPending
    BY <2>1, <1>4 DEF NoTapInEditor
  <2>3. ~PressDrained
    BY <2>2 DEF PressDrained
  <2>4. QED
    BY <2>2, <2>3, <1>1, <1>3
<1>33. QED
  BY <1>20, <1>31, <1>32

\* Taking the head off the ring.
LEMMA TailFacts ==
    ASSUME ring \in Seq(Events), ring # <<>>, ring' = Tail(ring), NEW k \in Keys
    PROVE  /\ LiftedLast(k)' => LiftedLast(k)
           /\ Pressed(k)' => Pressed(k)
           /\ Head(ring) = Down(k) => Pressed(k)
           /\ LiftedLast(k) => LiftedLast(k)' \/ (Head(ring) = Up(k) /\ ~Pressed(k)')
<1>1. PICK l \in Nat : l = Len(ring') /\ Len(ring) = l + 1
  BY DEF Events
<1>2. \A i \in 1..l : ring'[i] = ring[i + 1]
  BY <1>1
<1>3. Head(ring) = ring[1]
  OBVIOUS
<1>4. LiftedLast(k)' => LiftedLast(k)
  <2>1. SUFFICES ASSUME NEW i \in 1..l, ring'[i] = Up(k),
                        \A j \in (i + 1)..l : ring'[j] # Down(k)
                 PROVE  LiftedLast(k)
    BY <1>1 DEF LiftedLast
  <2>2. i + 1 \in 1..(l + 1) /\ ring[i + 1] = Up(k)
    <3>1. i + 1 \in 1..(l + 1)
      OBVIOUS
    <3>2. QED
      BY <3>1, <2>1, <1>2
  <2>3. ASSUME NEW j \in ((i + 1) + 1)..(l + 1) PROVE ring[j] # Down(k)
    <3>1. j - 1 \in (i + 1)..l /\ j - 1 \in 1..l /\ (j - 1) + 1 = j
      OBVIOUS
    <3>2. QED
      BY <3>1, <2>1, <1>2
  <2>4. QED
    BY <2>2, <2>3, <1>1 DEF LiftedLast
<1>5. Pressed(k)' => Pressed(k)
  <2>1. SUFFICES ASSUME NEW i \in 1..l, ring'[i] = Down(k) PROVE Pressed(k)
    BY <1>1 DEF Pressed
  <2>2. i + 1 \in 1..(l + 1) /\ ring[i + 1] = Down(k)
    <3>1. i + 1 \in 1..(l + 1)
      OBVIOUS
    <3>2. QED
      BY <3>1, <2>1, <1>2
  <2>3. QED
    BY <2>2, <1>1 DEF Pressed
<1>6. Head(ring) = Down(k) => Pressed(k)
  <2>1. 1 \in 1..(l + 1)
    OBVIOUS
  <2>2. QED
    BY <2>1, <1>1, <1>3 DEF Pressed
<1>7. LiftedLast(k) => LiftedLast(k)' \/ (Head(ring) = Up(k) /\ ~Pressed(k)')
  <2>1. SUFFICES ASSUME NEW i \in 1..(l + 1), ring[i] = Up(k),
                        \A j \in (i + 1)..(l + 1) : ring[j] # Down(k)
                 PROVE  LiftedLast(k)' \/ (Head(ring) = Up(k) /\ ~Pressed(k)')
    BY <1>1 DEF LiftedLast
  <2>2. \A j \in 1..l : j + 1 > i => ring'[j] # Down(k)
    <3>1. SUFFICES ASSUME NEW j \in 1..l, j + 1 > i PROVE ring'[j] # Down(k)
      OBVIOUS
    <3>2. j + 1 \in (i + 1)..(l + 1)
      BY <3>1
    <3>3. QED
      BY <3>2, <2>1, <1>2
  <2>3. CASE i = 1
    <3>1. \A j \in 1..l : ring'[j] # Down(k)
      <4>1. \A j \in 1..l : j + 1 > i
        BY <2>3
      <4>2. QED
        BY <4>1, <2>2
    <3>2. QED
      BY <3>1, <2>1, <2>3, <1>1, <1>3 DEF Pressed
  <2>4. CASE i > 1
    <3>1. PICK e \in 1..l : e + 1 = i
      <4>1. i - 1 \in 1..l /\ (i - 1) + 1 = i
        BY <2>4
      <4>2. QED
        BY <4>1
    <3>2. ring'[e] = Up(k)
      BY <3>1, <2>1, <1>2
    <3>3. \A j \in (e + 1)..l : ring'[j] # Down(k)
      <4>1. \A j \in (e + 1)..l : j \in 1..l /\ j + 1 > i
        BY <3>1
      <4>2. QED
        BY <4>1, <2>2
    <3>4. QED
      BY <3>2, <3>3, <1>1 DEF LiftedLast
  <2>5. QED
    BY <2>3, <2>4
<1>8. QED
  BY <1>4, <1>5, <1>6, <1>7

LEMMA RespondKeeps ==
    ASSUME InputInv, Respond
    PROVE  InputTypeOK' /\ KeyInv' /\ NoTapInEditor'
<1> DEFINE e == Head(ring)
<1>1. /\ phase = "events" /\ ring # <<>> /\ ring' = Tail(ring)
      /\ UNCHANGED <<fingers, tracker, queued, releaseTicPending, sincePress, held, fingerFired>>
      /\ UNCHANGED <<mode, gameaction, ahead, attack, phase, lifecycle>>
  BY DEF Respond, tapVars, controlVars, profileVars
<1>2. InputTypeOK /\ KeyInv /\ NoTapInEditor
  BY DEF InputInv
<1>3. ring \in Seq(Events) /\ ring' \in Seq(Events) /\ e \in Events
  BY <1>1, <1>2 DEF InputTypeOK
<1>4. MenuEats(e) \/ (MenuPasses(e) /\ GameTakes(e))
  BY DEF Respond
<1> HIDE DEF e
<1>5. /\ (e.type = "down" <=> \E k \in Keys : e = Down(k))
      /\ \A k \in Keys : e = Up(k) => e.type = "up" /\ e.key = k
      /\ e.type = "mouse" \/ (e.key \in Keys /\ e.type = "down" /\ e = Down(e.key))
                          \/ (e.key \in Keys /\ e.type = "up" /\ e = Up(e.key))
  BY <1>3 DEF Events, Mouse, Up, Down, Keys
<1>6. menuactive' \in BOOLEAN
  BY <1>2, <1>4 DEF InputTypeOK, MenuEats, GameTakes
<1>7. gamekeydown' \in [Keys -> BOOLEAN]
  <2>1. CASE gamekeydown' = gamekeydown
    BY <2>1, <1>2 DEF InputTypeOK
  <2>2. CASE gamekeydown' = [gamekeydown EXCEPT ![e.key] = (e.type = "down")]
    BY <2>2, <1>2 DEF InputTypeOK
  <2>3. QED
    BY <2>1, <2>2, <1>4 DEF MenuEats, GameTakes
<1>8. \A k \in Keys : gamekeydown'[k] => gamekeydown[k] \/ e = Down(k)
  <2>1. CASE gamekeydown' = gamekeydown
    BY <2>1
  <2>2. CASE e.type # "mouse" /\ gamekeydown' = [gamekeydown EXCEPT ![e.key] = (e.type = "down")]
    BY <2>2, <1>2, <1>5 DEF InputTypeOK
  <2>3. QED
    BY <2>1, <2>2, <1>4 DEF MenuEats, GameTakes
<1>9. \A k \in Keys : mode = "level" /\ e = Up(k) => ~gamekeydown'[k]
  <2>1. SUFFICES ASSUME NEW k \in Keys, mode = "level", e = Up(k) PROVE ~gamekeydown'[k]
    OBVIOUS
  <2>2. e.type = "up" /\ e.key = k
    BY <2>1, <1>5
  <2>3. ~MenuEats(e)
    BY <2>1, <2>2, KeyFacts DEF MenuEats, Keys
  <2>4. gamekeydown' = [gamekeydown EXCEPT ![k] = (e.type = "down")]
    BY <2>1, <2>2, <2>3, <1>4 DEF GameTakes
  <2>5. QED
    BY <2>2, <2>4, <1>2 DEF InputTypeOK
<1>10. \A k \in Keys : /\ LiftedLast(k)' => LiftedLast(k)
                       /\ Pressed(k)' => Pressed(k)
                       /\ e = Down(k) => Pressed(k)
                       /\ LiftedLast(k) => LiftedLast(k)' \/ (e = Up(k) /\ ~Pressed(k)')
  BY <1>1, <1>3, TailFacts DEF e
<1>11. InputTypeOK'
  BY <1>1, <1>2, <1>3, <1>6, <1>7 DEF InputTypeOK
<1>12. \A k \in Keys : Pressed(k)' => held[k] \/ LiftedLast(k)'
  BY <1>2, <1>10 DEF KeyInv
<1>13. NoStuckKey'
  <2>1. SUFFICES ASSUME mode = "level", NEW k \in Keys, gamekeydown'[k]
                 PROVE  held[k] \/ LiftedLast(k)'
    BY <1>1 DEF NoStuckKey
  <2>2. e # Up(k)
    BY <2>1, <1>9
  <2>3. held[k] \/ LiftedLast(k)
    <3>1. CASE gamekeydown[k]
      BY <3>1, <2>1, <1>2 DEF KeyInv, NoStuckKey
    <3>2. CASE e = Down(k)
      BY <3>2, <1>2, <1>10 DEF KeyInv
    <3>3. QED
      BY <3>1, <3>2, <2>1, <1>8
  <2>4. QED
    BY <2>2, <2>3, <1>10
<1>14. LiftedLast("fire")' => ~held["fire"]
  BY <1>2, <1>10 DEF KeyInv, Keys
<1>15. HeldForAReason' /\ RingAtRest'
  <2>1. ring' = <<Up("fire")>> => ~held["fire"]
    <3>1. SUFFICES ASSUME ring' = <<Up("fire")>> PROVE LiftedLast("fire")'
      BY <1>14
    <3>2. Len(ring') = 1 /\ ring'[1] = Up("fire") /\ \A j \in (1 + 1)..Len(ring') : FALSE
      BY <3>1
    <3>3. QED
      BY <3>2 DEF LiftedLast
  <2>2. QED
    BY <2>1, <1>1, <1>2 DEF KeyInv, HeldForAReason, RingAtRest
<1>16. KeyInv'
  BY <1>1, <1>2, <1>12, <1>13, <1>14, <1>15 DEF KeyInv
<1>17. NoTapInEditor'
  BY <1>1, <1>2 DEF NoTapInEditor
<1>18. QED
  BY <1>11, <1>16, <1>17

\* The steps of BuildNewTic's end and of the game loop.
LEMMA EngineKeeps ==
    ASSUME InputInv, Build \/ RunTic \/ LoadLevel \/ ToTitle
    PROVE  InputTypeOK' /\ KeyInv' /\ NoTapInEditor'
<1>1. InputTypeOK /\ KeyInv /\ NoTapInEditor
  BY DEF InputInv
<1>2. UNCHANGED <<fingers, tracker, queued, releaseTicPending, held, fingerFired, ring, lifecycle>>
  BY DEF Build, RunTic, LoadLevel, ToTitle, tapVars, keyVars, controlVars, profileVars
<1>3. NoTapInEditor'
  BY <1>1, <1>2 DEF NoTapInEditor
<1>4. \A k \in Keys : LiftedLast(k)' = LiftedLast(k) /\ Pressed(k)' = Pressed(k)
  BY <1>2 DEF LiftedLast, Pressed
<1>5. phase' = "idle"
  BY DEF Build, RunTic, LoadLevel, ToTitle
<1>6. HeldForAReason' /\ RingAtRest'
  <2>1. ring \in {<<>>, <<Up("fire")>>}
    BY <1>1 DEF KeyInv, RingAtRest, Build, RunTic, LoadLevel, ToTitle
  <2>2. QED
    BY <2>1, <1>1, <1>2 DEF KeyInv, HeldForAReason, RingAtRest
<1>7. ASSUME gamekeydown' \in [Keys -> BOOLEAN],
             mode' = "level" => \A k \in Keys : gamekeydown'[k] => mode = "level" /\ gamekeydown[k]
      PROVE  KeyInv'
  <2>1. NoStuckKey'
    BY <1>1, <1>2, <1>4, <1>7 DEF KeyInv, NoStuckKey
  <2>2. QED
    BY <2>1, <1>1, <1>2, <1>4, <1>6 DEF KeyInv, Keys
<1>8. CASE Build
  <2>1. UNCHANGED <<gamekeydown, menuactive, mode, gameaction>>
    BY <1>8 DEF Build, keyVars
  <2>2. ahead' \in 0..(MaxAhead + 1) /\ sincePress' \in {0, 1}
    BY <1>1, <1>8 DEF Build, InputTypeOK
  <2>3. attack' \in BOOLEAN
    BY <1>1, <1>8 DEF Build, InputTypeOK, Keys
  <2>4. InputTypeOK'
    BY <1>1, <1>2, <1>5, <2>1, <2>2, <2>3 DEF InputTypeOK
  <2>5. QED
    BY <1>1, <1>3, <1>7, <2>1, <2>4 DEF InputTypeOK
<1>9. CASE RunTic
  <2>1. UNCHANGED <<sincePress, menuactive, attack>> /\ gameaction' = "none"
    BY <1>9 DEF RunTic, tapVars
  <2>2. ahead' \in 0..(MaxAhead + 1)
    BY <1>1, <1>9 DEF RunTic, InputTypeOK
  <2>3. mode' \in {"level", "demo"} /\ (gameaction = "none" => mode' = mode)
    BY <1>1, <1>9 DEF RunTic, InputTypeOK
  <2>4. gamekeydown' = IF gameaction = "none" THEN gamekeydown ELSE [k \in Keys |-> FALSE]
    BY <1>9 DEF RunTic
  <2>5. gamekeydown' \in [Keys -> BOOLEAN]
    BY <1>1, <2>4 DEF InputTypeOK
  <2>6. InputTypeOK'
    BY <1>1, <1>2, <1>5, <2>1, <2>2, <2>3, <2>5 DEF InputTypeOK
  <2>7. \A k \in Keys : gamekeydown'[k] => gameaction = "none" /\ gamekeydown[k]
    BY <2>4
  <2>8. QED
    BY <1>3, <1>7, <2>3, <2>5, <2>6, <2>7
<1>10. CASE LoadLevel
  <2>1. /\ UNCHANGED <<sincePress, gamekeydown, mode, ahead, attack>>
        /\ gameaction' = "load" /\ menuactive' \in BOOLEAN
    BY <1>1, <1>10 DEF LoadLevel, tapVars, keyVars, InputTypeOK
  <2>2. InputTypeOK'
    BY <1>1, <1>2, <1>5, <2>1 DEF InputTypeOK
  <2>3. QED
    BY <1>1, <1>3, <1>7, <2>1, <2>2 DEF InputTypeOK
<1>11. CASE ToTitle
  <2>1. /\ UNCHANGED <<sincePress, gamekeydown, ahead, attack>>
        /\ mode' = "demo" /\ gameaction' \in {"none", "playdemo"}
    BY <1>11 DEF ToTitle, tapVars, keyVars
  <2>2. menuactive' \in BOOLEAN
    BY <1>1, <1>11 DEF ToTitle, InputTypeOK
  <2>3. InputTypeOK'
    BY <1>1, <1>2, <1>5, <2>1, <2>2 DEF InputTypeOK
  <2>4. QED
    BY <1>1, <1>3, <1>7, <2>1, <2>3 DEF InputTypeOK
<1>12. QED
  BY <1>8, <1>9, <1>10, <1>11

\* A listener that posts nothing.
LEMMA ListenerKeeps ==
    ASSUME InputInv, UNCHANGED <<keyVars, gameVars, releaseTicPending, sincePress>>,
           fingers' \subseteq Pointers, tracker' \in Pointers \cup {None},
           queued' \in 0..MaxQueue,
           lifecycle' = "editing" => lifecycle = "editing" /\ tracker' = None /\ queued' = queued
    PROVE  InputTypeOK' /\ KeyInv' /\ NoTapInEditor'
<1>1. KeyInv'
  BY QuietKeeps DEF gameVars
<1>2. InputTypeOK'
  BY DEF InputInv, InputTypeOK, keyVars, gameVars
<1>3. NoTapInEditor'
  BY DEF InputInv, NoTapInEditor
<1>4. QED
  BY <1>1, <1>2, <1>3

\* A listener that clears the taps.
LEMMA ClearingKeeps ==
    ASSUME InputInv, Idle, ClearTaps, UNCHANGED <<fingers, gameVars>>
    PROVE  InputTypeOK' /\ KeyInv' /\ NoTapInEditor'
<1>1. InputTypeOK' /\ KeyInv'
  BY ClearKeeps DEF Idle
<1>2. NoTapInEditor'
  BY DEF ClearTaps, NoTapInEditor
<1>3. QED
  BY <1>1, <1>2

Pointing == \E p \in Pointers :
    \/ \E c \in Controls : PointerDown(p, c)
    \/ PointerMove(p) \/ PointerUp(p)
    \/ \E lifted \in BOOLEAN : PointerLost(p, lifted)

\* Every step of the composition is a step of the runtime or leaves it alone.
LEMMA RuntimeStep == Next => [ControlsNext]_controlVars
<1> SUFFICES ASSUME Next PROVE [ControlsNext]_controlVars
  OBVIOUS
<1>1. CASE Pointing
  BY <1>1 DEF Pointing, PointerDown, PointerMove, PointerUp, PointerLost, ReleaseIfOwner, ControlsNext
<1>2. CASE \E l \in Layouts : ProfileRead(l)
  BY <1>2 DEF ProfileRead, ControlsNext
<1>3. CASE TapTimeout \/ Interrupt \/ ViewportChange \/ PickProfile \/ ResetControls
  BY <1>3 DEF TapTimeout, Interrupt, ViewportChange, PickProfile, ResetControls, ControlsNext
<1>4. CASE StartShell \/ EditToggle \/ CloseEditor \/ BeginPanelEdit
  BY <1>4 DEF StartShell, EditToggle, CloseEditor, BeginPanelEdit, ControlsNext
<1>5. CASE Engine
  BY <1>5 DEF Engine, StartTic, Respond, Build, ControlsNext
<1>6. CASE RunTic \/ LoadLevel \/ ToTitle
  BY <1>6 DEF RunTic, LoadLevel, ToTitle
<1>7. QED
  BY <1>1, <1>2, <1>3, <1>4, <1>5, <1>6 DEF Next, Pointing

LEMMA PointingKeeps ==
    ASSUME InputInv, Pointing
    PROVE  InputTypeOK' /\ KeyInv' /\ NoTapInEditor'
<1>1. /\ InputTypeOK /\ NoTapInEditor
      /\ tracker \in Pointers \cup {None} /\ queued \in 0..MaxQueue /\ fingers \subseteq Pointers
      /\ lifecycle = "editing" => tracker = None
      /\ None \notin Pointers
  BY DEF InputInv, InputTypeOK, NoTapInEditor
<1>2. Observed(None) = None /\ \A t \in Pointers : Observed(t) \in Pointers \cup {None}
  BY DEF Observed
<1>3. ASSUME NEW p \in Pointers, NEW c \in Controls, PointerDown(p, c)
      PROVE  InputTypeOK' /\ KeyInv' /\ NoTapInEditor'
  <2> DEFINE t == IF c = Look /\ lifecycle = "mounted" /\ tracker = None THEN p ELSE tracker
  <2>1. /\ UNCHANGED <<queued, releaseTicPending, sincePress, keyVars, gameVars>>
        /\ fingers' = fingers \cup {p} /\ tracker' \in {t, Observed(t)}
    BY <1>3 DEF PointerDown
  <2>2. lifecycle' = lifecycle
    BY <1>3 DEF PointerDown, BeginOwner, profileVars, controlVars
  <2>3. t \in Pointers \cup {None} /\ (lifecycle = "editing" => t = None)
    BY <1>1
  <2> HIDE DEF t
  <2>4. tracker' \in Pointers \cup {None} /\ (lifecycle = "editing" => tracker' = None)
    BY <2>1, <2>3, <1>2
  <2>5. QED
    BY <1>1, <2>1, <2>2, <2>4, ListenerKeeps
<1>4. ASSUME NEW p \in Pointers, PointerMove(p)
      PROVE  InputTypeOK' /\ KeyInv' /\ NoTapInEditor'
  <2>1. /\ UNCHANGED <<fingers, queued, releaseTicPending, sincePress, keyVars, gameVars>>
        /\ tracker' = tracker \/ tracker' = None
    BY <1>4 DEF PointerMove
  <2>2. lifecycle' = lifecycle
    BY <1>4 DEF PointerMove, MoveOwner, profileVars, controlVars
  <2>3. QED
    BY <1>1, <2>1, <2>2, ListenerKeeps
<1>5. ASSUME NEW p \in Pointers, ReleaseIfOwner(p) PROVE lifecycle' = lifecycle
  BY <1>5 DEF ReleaseIfOwner, ReleaseOwner, profileVars, controlVars
<1>6. ASSUME NEW p \in Pointers, PointerUp(p)
      PROVE  InputTypeOK' /\ KeyInv' /\ NoTapInEditor'
  <2>1. /\ UNCHANGED <<releaseTicPending, sincePress, keyVars, gameVars>>
        /\ fingers' = fingers \ {p}
        /\ lifecycle' = lifecycle
    BY <1>5, <1>6 DEF PointerUp
  <2>2. QueueTap \in 0..MaxQueue
    BY <1>1 DEF QueueTap
  <2>3. CASE tracker = p
    <3>1. tracker' = None /\ queued' \in {queued, QueueTap}
      BY <1>6, <2>3 DEF PointerUp
    <3>2. lifecycle # "editing"
      BY <1>1, <2>3
    <3>3. queued' \in 0..MaxQueue
      BY <1>1, <2>2, <3>1
    <3>4. QED
      BY <1>1, <2>1, <3>1, <3>2, <3>3, ListenerKeeps
  <2>4. CASE tracker # p
    <3>1. tracker' = Observed(tracker) /\ queued' = queued
      BY <1>6, <2>4 DEF PointerUp
    <3>2. QED
      BY <1>1, <1>2, <2>1, <3>1, ListenerKeeps
  <2>5. QED
    BY <2>3, <2>4
<1>7. ASSUME NEW p \in Pointers, NEW lifted \in BOOLEAN, PointerLost(p, lifted)
      PROVE  InputTypeOK' /\ KeyInv' /\ NoTapInEditor'
  <2>1. /\ UNCHANGED <<queued, releaseTicPending, sincePress, keyVars, gameVars>>
        /\ fingers' \subseteq fingers
        /\ lifecycle' = lifecycle
        /\ tracker' \in {None, Observed(tracker)}
    BY <1>5, <1>7 DEF PointerLost
  <2>2. QED
    BY <1>1, <1>2, <2>1, ListenerKeeps
<1>8. QED
  BY <1>3, <1>4, <1>6, <1>7 DEF Pointing

LEMMA ShellKeeps ==
    ASSUME InputInv,
           \/ \E l \in Layouts : ProfileRead(l)
           \/ TapTimeout \/ Interrupt \/ ViewportChange
           \/ StartShell \/ EditToggle \/ CloseEditor \/ BeginPanelEdit
           \/ ResetControls \/ PickProfile
    PROVE  InputTypeOK' /\ KeyInv' /\ NoTapInEditor'
<1>1. /\ tracker \in Pointers \cup {None} /\ queued \in 0..MaxQueue /\ fingers \subseteq Pointers
      /\ lifecycle = "editing" => tracker = None
  BY DEF InputInv, InputTypeOK, NoTapInEditor
<1>2. Observed(None) = None /\ \A t \in Pointers : Observed(t) \in Pointers \cup {None}
  BY DEF Observed
<1>3. CASE Interrupt \/ EditToggle \/ BeginPanelEdit \/ ResetControls \/ PickProfile
  BY <1>3, ClearingKeeps DEF Interrupt, EditToggle, BeginPanelEdit, ResetControls, PickProfile
<1>4. CASE \E l \in Layouts : ProfileRead(l)
  <2>1. /\ UNCHANGED <<fingers, queued, releaseTicPending, sincePress, keyVars, gameVars>>
        /\ lifecycle' = lifecycle /\ tracker' = Observed(tracker)
    BY <1>4 DEF ProfileRead, ImportProfile, ReplaceProfile
  <2>2. QED
    BY <1>1, <1>2, <2>1, ListenerKeeps
<1>5. CASE ViewportChange
  <2>1. /\ UNCHANGED <<fingers, queued, releaseTicPending, sincePress, keyVars, gameVars>>
        /\ lifecycle' = lifecycle /\ tracker' = Observed(tracker)
    BY <1>5 DEF ViewportChange, ReleaseAll, profileVars
  <2>2. QED
    BY <1>1, <1>2, <2>1, ListenerKeeps
<1>6. CASE TapTimeout
  <2>1. /\ UNCHANGED <<fingers, queued, releaseTicPending, sincePress, keyVars, gameVars>>
        /\ lifecycle' = lifecycle /\ tracker' = None
    BY <1>6 DEF TapTimeout, controlVars, profileVars
  <2>2. QED
    BY <1>1, <2>1, ListenerKeeps
<1>7. CASE StartShell \/ CloseEditor
  <2>1. /\ UNCHANGED <<fingers, tapVars, keyVars, gameVars>> /\ lifecycle' = "mounted"
    BY <1>7 DEF StartShell, CloseEditor, Mount, CommitEdit, CancelEdit
  <2>2. UNCHANGED <<tracker, queued, releaseTicPending, sincePress>>
    BY <2>1 DEF tapVars
  <2>3. QED
    BY <1>1, <2>1, <2>2, ListenerKeeps
<1>8. QED
  BY <1>3, <1>4, <1>5, <1>6, <1>7

LEMMA InputStep == InputInv /\ [Next]_vars => InputInv'
<1> SUFFICES ASSUME InputInv, [Next]_vars PROVE InputInv'
  OBVIOUS
<1>1. CASE Next
  <2>1. ControlsInv'
    BY <1>1, RuntimeStep, ControlsStep DEF InputInv
  <2>2. InputTypeOK' /\ KeyInv' /\ NoTapInEditor'
    BY <1>1, StartTicKeeps, RespondKeeps, EngineKeeps, PointingKeeps, ShellKeeps
       DEF Next, Engine, Pointing
  <2>3. QED
    BY <2>1, <2>2 DEF InputInv
<1>2. CASE UNCHANGED vars
  BY <1>2 DEF vars, controlVars, ownerVars, outputVars, profileVars, tapVars, keyVars, gameVars,
              InputInv, InputTypeOK, ControlsInv, ControlsTypeOK, Ownership, Inverse,
              ActiveIffOwned, DragsAreOwned, BaselineKept, KeyInv, HeldForAReason, RingAtRest,
              LiftedLast, Pressed, NoStuckKey, NoTapInEditor
<1>3. QED
  BY <1>1, <1>2

\* The invariant holds of every behaviour of Spec.
LEMMA InputInvHolds == Spec => []InputInv
BY InitInput, InputStep, PTL DEF Spec

\* The composition keeps every variable in its type, and never queues more
\* than MaxQueue taps or builds further ahead than MaxAhead allows.
THEOREM TypesHold == Spec => []TypeOK
<1>1. InputInv => TypeOK
  BY DEF InputInv, TypeOK, ControlsInv
<1>2. QED
  BY <1>1, InputInvHolds, PTL

\* The runtime's ownership survives everything the shell does with it.
THEOREM OwnershipInShell == Spec => []Ownership
<1>1. InputInv => Ownership
  BY DEF InputInv, ControlsInv
<1>2. QED
  BY <1>1, InputInvHolds, PTL

\* G_Responder's gamekeydown never outlives held[] and the releases under way,
\* for any number of fingers and pulses.
THEOREM NoKeySticks == Spec => []NoStuckKey
<1>1. InputInv => NoStuckKey
  BY DEF InputInv, KeyInv
<1>2. QED
  BY <1>1, InputInvHolds, PTL

\* sfhs_mobile_input.c holds FIRE exactly for a finger of the last flush or for a tap
\* that is still to be released, and never for both.
THEOREM HeldFireHasAReason == Spec => []HeldForAReason
<1>1. InputInv => HeldForAReason
  BY DEF InputInv, KeyInv
<1>2. QED
  BY <1>1, InputInvHolds, PTL

\* No tap queued by the shell's adapter is left when the editor is open.
THEOREM NoTapLeaksIntoEditor == Spec => []NoTapInEditor
<1>1. InputInv => NoTapInEditor
  BY DEF InputInv
<1>2. QED
  BY <1>1, InputInvHolds, PTL

\* The one tic that a tap waits for is one in which FIRE was seen: it is counted between
\* two calls of BuildNewTic only, for a tap that is still being released, and a game that
\* takes FIRE for pressed since then has built the attack.
TapCounted ==
    /\ phase = "events" => sincePress = 0
    /\ sincePress # 0 => releaseTicPending
    /\ sincePress # 0 /\ gamekeydown["fire"] => attack

LEMMA TapCountedAtFirst == Init => TapCounted
  BY DEF Init, TapCounted

LEMMA TapCountedKept ==
    ASSUME TapCounted,
           UNCHANGED <<phase, sincePress, releaseTicPending, gamekeydown, attack>>
    PROVE  TapCounted'
  BY DEF TapCounted

LEMMA TapCountedStep == InputInv /\ TapCounted /\ [Next]_vars => TapCounted'
<1> SUFFICES ASSUME InputInv, TapCounted, [Next]_vars PROVE TapCounted'
  OBVIOUS
<1> USE DEF keyVars, gameVars, tapVars
<1>1. CASE Pointing
  BY <1>1, TapCountedKept DEF Pointing, PointerDown, PointerMove, PointerUp, PointerLost
<1>2. CASE TapTimeout \/ ViewportChange \/ StartShell \/ CloseEditor \/ \E l \in Layouts : ProfileRead(l)
  BY <1>2, TapCountedKept DEF TapTimeout, ViewportChange, StartShell, CloseEditor, ProfileRead
<1>3. CASE Interrupt \/ EditToggle \/ BeginPanelEdit \/ ResetControls \/ PickProfile
  BY <1>3 DEF Interrupt, EditToggle, BeginPanelEdit, ResetControls, PickProfile, ClearTaps,
              TapCounted
<1>4. CASE StartTic
  <2>1. sincePress' = IF active[Fire] \/ PressDrained \/ ReleaseDrained THEN 0 ELSE sincePress
    BY <1>4 DEF StartTic, DrainTaps
  <2>2. sincePress \in {0, 1}
    BY DEF InputInv, InputTypeOK
  <2>3. sincePress # 0 => active[Fire] \/ ReleaseDrained
    BY <2>2 DEF TapCounted, ReleaseDrained
  <2>4. sincePress' = 0
    BY <2>1, <2>3
  <2>5. QED
    BY <2>4 DEF TapCounted
<1>5. CASE Respond
  <2>1. phase = "events" /\ phase' = phase /\ sincePress' = sincePress
    BY <1>5 DEF Respond
  <2>2. QED
    BY <2>1 DEF TapCounted
<1>6. CASE Build
  <2>1. /\ sincePress = 0 /\ phase' = "idle"
        /\ UNCHANGED <<releaseTicPending, gamekeydown>>
    BY <1>6 DEF Build, TapCounted
  <2>2. sincePress' # 0 => releaseTicPending /\ attack' = gamekeydown["fire"]
    BY <1>6, <2>1 DEF Build
  <2>3. QED
    BY <2>1, <2>2 DEF TapCounted
<1>7. CASE RunTic
  <2>1. /\ UNCHANGED <<sincePress, releaseTicPending, attack, phase>>
        /\ gamekeydown' = IF gameaction = "none" THEN gamekeydown ELSE [k \in Keys |-> FALSE]
    BY <1>7 DEF RunTic
  <2>2. gamekeydown'["fire"] => gamekeydown["fire"]
    BY <2>1 DEF Keys
  <2>3. QED
    BY <2>1, <2>2 DEF TapCounted
<1>8. CASE LoadLevel \/ ToTitle
  BY <1>8, TapCountedKept DEF LoadLevel, ToTitle
<1>9. CASE UNCHANGED vars
  BY <1>9, TapCountedKept DEF vars
<1>10. QED
  BY <1>1, <1>2, <1>3, <1>4, <1>5, <1>6, <1>7, <1>8, <1>9 DEF Next, Engine, Pointing

\* drainLookTapFire takes a tap's press back only after a command with the attack button
\* was built of it, whichever calls of BuildNewTic declined to build in between.
THEOREM TapsShoot == Spec => TapShoots
<1>1. TapCounted /\ InputInv /\ [Next]_vars
        => [StartTic /\ ReleaseDrained /\ gamekeydown["fire"] => attack]_vars
  BY DEF TapCounted, InputInv, InputTypeOK, ReleaseDrained
<1>2. QED
  BY <1>1, InputInvHolds, TapCountedAtFirst, TapCountedStep, PTL DEF Spec, TapShoots
=============================================================================
