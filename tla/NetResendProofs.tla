--------------------------- MODULE NetResendProofs ---------------------------
(***************************************************************************)
(* The tics that have come and those that have been asked for are together *)
(* the first tics of the window, at both ends and whatever the link loses. *)
(* That is inductive, which HolesAsked, that speaks of the holes only, is  *)
(* not: where the scan of ParseGameData stops at a tic that was asked for, *)
(* nothing says what is before it.                                         *)
(***************************************************************************)
EXTENDS NetResend, WellFoundedInduction, TLAPS

Packets == [kind : Kinds, first : Int, last : Int, ack : Int]

\* S is an interval that starts at first.
Segment(S, first) == \A t \in S : \A u \in first..t - 1 : u \in S

Types ==
    /\ start \in Nat /\ have \subseteq Window(start) /\ asked \subseteq Window(start)
    /\ sendseq \in Nat /\ acked \in Int
    /\ cstart \in Nat /\ chave \subseteq Window(cstart) /\ casked \subseteq Window(cstart)
    /\ maketic \in Nat /\ gametic \in Nat
    /\ wire \subseteq Packets

SeenOrAsked == Segment(have \cup asked, start) /\ Segment(chave \cup casked, cstart)

\* Only the first tic of the client's window is asked for before it is made.
AskedInTime ==
    /\ \A m \in OfKind(wire, "downGame") : m.first <= m.last /\ m.last < sendseq
    /\ \A m \in OfKind(wire, "upResend") : m.first <= m.last
    /\ RequestsWhole
    /\ \A t \in chave : t < sendseq
    /\ \A t \in casked : t < sendseq \/ t = cstart

ResendInv == Types /\ SeenOrAsked /\ AskedInTime

\* The link makes no packets.
LEMMA SentIsPart ==
    ASSUME NEW w, NEW ps, NEW v \in Sent(w, ps)
    PROVE  v \subseteq w \cup ps
BY DEF Sent

LEMMA RequestsArePackets ==
    ASSUME NEW kind \in Kinds, NEW S \in SUBSET Int
    PROVE  \A m \in Requests(kind, S) :
               /\ m \in Packets
               /\ m.kind = kind /\ m.first \in S /\ m.last \in S /\ m.first <= m.last
               /\ m.first..m.last \subseteq S
<1> SUFFICES ASSUME NEW m \in Requests(kind, S)
             PROVE  /\ m \in Packets
                    /\ m.kind = kind /\ m.first \in S /\ m.last \in S /\ m.first <= m.last
                    /\ m.first..m.last \subseteq S
  OBVIOUS
<1>1. PICK r \in S \X S : /\ m = Packet(kind, r[1], r[2], 0)
                          /\ r[1] <= r[2] /\ r[1]..r[2] \subseteq S
  BY DEF Requests, Runs
<1>2. m = [kind |-> kind, first |-> r[1], last |-> r[2], ack |-> 0]
  BY <1>1 DEF Packet
<1>3. r[1] \in S /\ r[2] \in S /\ r[1] \in Int /\ r[2] \in Int
  OBVIOUS
<1>4. m.kind = kind /\ m.first = r[1] /\ m.last = r[2]
  BY <1>2
<1>5. m \in Packets
  BY <1>2, <1>3 DEF Packets
<1> QED
  BY <1>1, <1>3, <1>4, <1>5

\* There is a first tic that has not come, as the window ends.
LEMMA FirstMissing ==
    ASSUME NEW s \in Nat, NEW h \in SUBSET Window(s),
           NEW e, e = CHOOSE t \in s..s + BackupTics : t \notin h /\ s..t - 1 \subseteq h
    PROVE  e \in s..s + BackupTics /\ e \notin h /\ s..e - 1 \subseteq h
<1> DEFINE T == (s..s + BackupTics) \ h
           R == OpToRel(<, Nat)
<1>1. T \subseteq Nat /\ s + BackupTics \in T
  BY ResendAssumption DEF Window
<1>2. IsWellFoundedOn(R, Nat)
  BY NatLessThanWellFounded
<1>3. \E t \in T : \A u \in T : ~(<<u, t>> \in R)
  <2> HIDE DEF T, R
  <2> QED  BY <1>1, <1>2, WFMin
<1>4. PICK t \in T : \A u \in T : ~(u < t)
  BY <1>1, <1>3 DEF OpToRel
<1>5. \A u \in s..t - 1 : u \in h
  BY <1>1, <1>4, ResendAssumption
<1> QED
  BY <1>1, <1>4, <1>5

LEMMA ExpectedIsNext ==
    ASSUME start \in Nat, have \subseteq Window(start)
    PROVE  /\ Expected \in start..start + BackupTics
           /\ Expected \notin have /\ start..Expected - 1 \subseteq have
BY FirstMissing DEF Expected

\* What one end knows after a packet with the tics from first to last, and
\* after the request that the packet makes it send.
Scanned(begin, held, marks, first, last) ==
    LET now == held \cup (Window(begin) \cap first..last)
        run == MissingRun(begin, now, marks, first)
    IN  /\ Segment(now \cup marks \cup run, begin)
        /\ run \subseteq Window(begin)
        /\ run \subseteq begin..first - 1

LEMMA ScanCovers ==
    ASSUME NEW begin \in Int, NEW held \in SUBSET Int, NEW marks \in SUBSET Int,
           Segment(held \cup marks, begin),
           NEW first \in Int, NEW last \in Int
    PROVE  Scanned(begin, held, marks, first, last)
<1> DEFINE now == held \cup (Window(begin) \cap first..last)
           run == MissingRun(begin, now, marks, first)
           end == Smaller(first, begin + BackupTics - 1)
<1>1. end \in Int /\ end <= first /\ end <= begin + BackupTics - 1
  BY ResendAssumption DEF Smaller
<1>2. run = {t \in begin..end - 1 : \A u \in t..end - 1 : u \notin now /\ u \notin marks}
  BY DEF MissingRun, Unasked
<1>3. \A u \in begin..end - 1 : u \in now \cup marks \cup run
  <2> SUFFICES ASSUME NEW u \in begin..end - 1, u \notin run
               PROVE  u \in now \cup marks
    OBVIOUS
  <2>1. PICK v \in u..end - 1 : v \in now \/ v \in marks
    BY <1>2
  <2>2. v \in held \cup marks
    BY <2>1, <1>1
  <2> QED
    BY <2>2, <1>1 DEF Segment
<1>4. ASSUME NEW t \in now \cup marks \cup run, NEW u \in begin..t - 1
      PROVE  u \in now \cup marks \cup run
  <2>1. CASE t \in held \cup marks
    BY <2>1 DEF Segment
  <2>2. CASE t \in run
    <3>1. u \in begin..end - 1
      BY <2>2, <1>1, <1>2
    <3> QED
      BY <3>1, <1>3
  <2>3. CASE t \in Window(begin) \cap first..last
    <3>1. t < begin + BackupTics /\ t <= last
      BY <2>3, ResendAssumption DEF Window
    <3>2. CASE u >= first
      BY <3>1, <3>2, ResendAssumption DEF Window
    <3>3. CASE u < first
      <4>1. u \in begin..end - 1
        BY <3>1, <3>3, ResendAssumption DEF Smaller
      <4> QED
        BY <4>1, <1>3
    <3> QED
      BY <3>2, <3>3
  <2> QED
    BY <2>1, <2>2, <2>3
<1>5. Segment(now \cup marks \cup run, begin)
  BY <1>4 DEF Segment
<1>6. run \subseteq Window(begin) /\ run \subseteq begin..first - 1
  BY <1>1, <1>2, ResendAssumption DEF Window
<1> QED
  BY <1>5, <1>6 DEF Scanned

LEMMA ScanForward ==
    ASSUME NEW S, NEW begin \in Int, Segment(S, begin), NEW next \in Int, next >= begin
    PROVE  Segment(From(next, S), next)
BY DEF Segment, From

LEMMA WindowForward ==
    ASSUME NEW begin \in Int, NEW next \in Int, next >= begin, NEW S, S \subseteq Window(begin)
    PROVE  From(next, S) \subseteq Window(next)
<1> SUFFICES ASSUME NEW t \in From(next, S)
             PROVE  t \in Window(next)
  OBVIOUS
<1>1. t \in Window(begin) /\ t >= next
  BY DEF From
<1> QED
  BY <1>1, ResendAssumption DEF Window
-----------------------------------------------------------------------------
(* Each handler.                                                           *)

USE DEF ResendInv

LEMMA InitHolds == Init => ResendInv
BY ResendAssumption
DEF Init, Types, SeenOrAsked, AskedInTime, RequestsWhole, OfKind, Segment

\* What a new wire must satisfy when the server has made made tics.
WireOK(w, made) ==
    /\ w \subseteq Packets
    /\ \A m \in w : m.kind = "downGame" => m.first <= m.last /\ m.last < made
    /\ \A m \in w : m.kind = "upResend" =>
                      m.first <= m.last /\ (m.last < made \/ m.first = m.last)

LEMMA WireMeans ==
    (wire \subseteq Packets /\ AskedInTime) =>
        WireOK(wire, sendseq)
BY DEF WireOK, AskedInTime, RequestsWhole, OfKind

LEMMA WireFollows ==
    ASSUME WireOK(wire', sendseq')
    PROVE  /\ \A m \in OfKind(wire', "downGame") : m.first <= m.last /\ m.last < sendseq'
           /\ \A m \in OfKind(wire', "upResend") : m.first <= m.last
           /\ RequestsWhole'
BY DEF WireOK, RequestsWhole, OfKind

LEMMA WireGrows ==
    ASSUME NEW w, NEW made \in Int, NEW more \in Int, made <= more, WireOK(w, made)
    PROVE  WireOK(w, more)
<1>1. \A m \in w : m \in Packets /\ m.last \in Int
  BY DEF WireOK, Packets
<1> QED
  BY <1>1 DEF WireOK

LEMMA WireSent ==
    ASSUME NEW w, NEW ps, NEW made, WireOK(w, made), WireOK(ps, made),
           NEW v \in Sent(w, ps)
    PROVE  WireOK(v, made)
<1>1. v \subseteq w \cup ps
  BY SentIsPart
<1> QED
  BY <1>1 DEF WireOK

LEMMA RequestsUpOK ==
    ASSUME NEW S \in SUBSET Int, NEW made \in Int, NEW only \in Int,
           \A t \in S : t < made \/ t = only, \A t \in S : t >= only
    PROVE  WireOK(Requests("upResend", S), made)
<1>1. \A m \in Requests("upResend", S) :
         /\ m \in Packets /\ m.first \in S /\ m.last \in S /\ m.first <= m.last
         /\ m.kind = "upResend"
  BY RequestsArePackets DEF Kinds
<1>2. ASSUME NEW m \in Requests("upResend", S)
      PROVE  m.last < made \/ m.first = m.last
  <2> DEFINE a == m.first
             b == m.last
  <2>1. a \in S /\ b \in S /\ a \in Int /\ b \in Int /\ a <= b
    BY <1>1
  <2>2. a >= only /\ (b < made \/ b = only)
    BY <2>1
  <2> HIDE DEF a, b
  <2>3. b < made \/ a = b
    BY <2>1, <2>2
  <2> QED
    BY <2>3 DEF a, b
<1> QED
  BY <1>1, <1>2 DEF WireOK

LEMMA RequestsDownOK ==
    ASSUME NEW S \in SUBSET Int, NEW made
    PROVE  WireOK(Requests("downResend", S), made)
<1>1. \A m \in Requests("downResend", S) : m \in Packets /\ m.kind = "downResend"
  BY RequestsArePackets DEF Kinds
<1> QED
  BY <1>1 DEF WireOK

LEMMA GameUpOK ==
    ASSUME NEW first \in Int, NEW last \in Int, NEW ack \in Int, NEW made
    PROVE  WireOK({Packet("upGame", first, last, ack)}, made)
BY DEF WireOK, Packet, Packets, Kinds

LEMMA GameDownOK ==
    ASSUME NEW first \in Int, NEW last \in Int, NEW made \in Int, first <= last, last < made
    PROVE  WireOK({Packet("downGame", first, last, 0)}, made)
BY DEF WireOK, Packet, Packets, Kinds
LEMMA BuildNewTicOK ==
    ASSUME ResendInv, BuildNewTic
    PROVE  ResendInv'
<1>1. maketic \in Nat /\ cstart \in Nat /\ sendseq \in Nat /\ wire \subseteq Packets
  BY DEF Types
<1>2. SendTics(maketic - ExtraTics, maketic)
        = Packet("upGame", Larger(maketic - ExtraTics, 0), maketic, cstart)
  BY DEF SendTics
<1>3. Larger(maketic - ExtraTics, 0) \in Int
  BY <1>1, ResendAssumption DEF Larger
<1>4. WireOK(wire', sendseq)
  <2>1. WireOK(wire, sendseq)
    BY <1>1, WireMeans
  <2>2. WireOK({SendTics(maketic - ExtraTics, maketic)}, sendseq)
    BY <1>1, <1>2, <1>3, GameUpOK
  <2>3. wire' \in Sent(wire, {SendTics(maketic - ExtraTics, maketic)})
    BY DEF BuildNewTic
  <2> QED
    BY <2>1, <2>2, <2>3, WireSent
<1>5. sendseq' = sendseq
  BY DEF BuildNewTic, serverVars
<1>6. Types'
  BY <1>1, <1>4 DEF Types, BuildNewTic, serverVars, WireOK, Window
<1>7. SeenOrAsked'
  BY DEF SeenOrAsked, BuildNewTic, serverVars
<1>8. AskedInTime'
  <2>1. (\A t \in chave' : t < sendseq') /\ (\A t \in casked' : t < sendseq' \/ t = cstart')
    BY DEF AskedInTime, BuildNewTic, serverVars
  <2> QED
    BY <1>4, <1>5, <2>1, WireFollows DEF AskedInTime
<1> QED
  BY <1>6, <1>7, <1>8

LEMMA RunTicOK ==
    ASSUME ResendInv, RunTic
    PROVE  ResendInv'
<1>1. Types'
  BY DEF Types, RunTic, serverVars, Window
<1>2. SeenOrAsked' /\ AskedInTime'
  BY DEF SeenOrAsked, AskedInTime, RunTic, serverVars, RequestsWhole, OfKind
<1> QED
  BY <1>1, <1>2

LEMMA ClientParseGameDataOK ==
    ASSUME ResendInv, NEW m \in OfKind(wire, "downGame"), ClientParseGameData(m)
    PROVE  ResendInv'
<1> DEFINE now == chave \cup (Window(cstart) \cap m.first..m.last)
           run == MissingRun(cstart, now, casked, m.first)
<1>1. /\ cstart \in Nat /\ sendseq \in Nat /\ wire \subseteq Packets /\ m \in wire
      /\ m.first \in Int /\ m.last \in Int /\ m.first <= m.last /\ m.last < sendseq
  BY DEF Types, OfKind, Packets, AskedInTime
<1>2. chave \subseteq Window(cstart) /\ casked \subseteq Window(cstart)
  BY DEF Types
<1>3. Window(cstart) \subseteq Int
  BY <1>1 DEF Window
<1>4. /\ UNCHANGED <<serverVars, cstart, maketic, gametic>>
      /\ chave' = now /\ casked' = casked \cup run
      /\ wire' \in Sent(wire \ {m}, Requests("upResend", run))
  BY DEF ClientParseGameData, Carried
<1>5. /\ Segment(now \cup casked \cup run, cstart)
      /\ run \subseteq Window(cstart) /\ run \subseteq cstart..m.first - 1
  <2>1. Segment(chave \cup casked, cstart)
    BY DEF SeenOrAsked
  <2>2. chave \in SUBSET Int /\ casked \in SUBSET Int /\ cstart \in Int
    BY <1>1, <1>2, <1>3
  <2>3. m.first \in Int /\ m.last \in Int
    BY <1>1
  <2> HIDE DEF ResendInv
  <2>4. Scanned(cstart, chave, casked, m.first, m.last)
    BY <2>1, <2>2, <2>3, ScanCovers
  <2> QED
    BY <2>4 DEF Scanned
<1> HIDE DEF run
<1>6. \A t \in now : t < sendseq
  BY <1>1, <1>3 DEF AskedInTime
<1>7. \A t \in run : t < sendseq /\ t >= cstart
  BY <1>1, <1>5
<1>8. WireOK(wire', sendseq)
  <2>1. WireOK(wire \ {m}, sendseq)
    BY <1>1, WireMeans DEF WireOK
  <2>2. WireOK(Requests("upResend", run), sendseq)
    <3>1. run \in SUBSET Int /\ sendseq \in Int /\ cstart \in Int
      BY <1>1, <1>3, <1>5
    <3>2. (\A t \in run : t < sendseq \/ t = cstart) /\ (\A t \in run : t >= cstart)
      BY <1>7
    <3> HIDE DEF ResendInv
    <3> QED
      BY <3>1, <3>2, RequestsUpOK
  <2> QED
    BY <1>4, <2>1, <2>2, WireSent
<1>9. Types'
  <2>1. now \subseteq Window(cstart) /\ casked \cup run \subseteq Window(cstart)
    BY <1>2, <1>5
  <2>2. wire' \subseteq Packets
    BY <1>8 DEF WireOK
  <2> QED
    BY <1>4, <2>1, <2>2 DEF Types, serverVars, Window
<1>10. SeenOrAsked'
  <2>1. chave' \cup casked' = now \cup casked \cup run
    BY <1>4
  <2> QED
    BY <1>4, <1>5, <2>1 DEF SeenOrAsked, serverVars
<1>11. AskedInTime'
  <2>1. /\ sendseq' = sendseq /\ cstart' = cstart
        /\ chave' = now /\ casked' = casked \cup run
    BY <1>4 DEF serverVars
  <2>2. (\A t \in chave' : t < sendseq') /\ (\A t \in casked' : t < sendseq' \/ t = cstart')
    BY <1>6, <1>7, <2>1 DEF AskedInTime
  <2> QED
    BY <1>8, <2>1, <2>2, WireFollows DEF AskedInTime
<1> QED
  BY <1>9, <1>10, <1>11

LEMMA ClientParseResendRequestOK ==
    ASSUME ResendInv, NEW m \in OfKind(wire, "downResend"), ClientParseResendRequest(m)
    PROVE  ResendInv'
<1> DEFINE first == Larger(m.first, maketic - BackupTics)
           last == Smaller(m.last, maketic - 1)
<1>1. /\ cstart \in Nat /\ maketic \in Nat /\ wire \subseteq Packets /\ m \in wire
      /\ m.first \in Int /\ m.last \in Int
  BY DEF Types, OfKind, Packets
<1>2. first \in Int /\ last \in Int /\ Larger(first, 0) \in Int
  BY <1>1, ResendAssumption DEF Larger, Smaller
<1>3. /\ UNCHANGED <<serverVars, cstart, chave, casked, maketic, gametic>>
      /\ wire' = wire \ {m} \/ wire' \in Sent(wire \ {m}, {SendTics(first, last)})
  BY DEF ClientParseResendRequest
<1>4. WireOK(wire \ {m}, sendseq)
  BY <1>1, WireMeans DEF WireOK
<1>5. WireOK({SendTics(first, last)}, sendseq)
  <2> HIDE DEF first, last
  <2> QED
    BY <1>1, <1>2, GameUpOK DEF SendTics
<1>6. WireOK(wire', sendseq)
  BY <1>3, <1>4, <1>5, WireSent
<1>7. Types' /\ SeenOrAsked'
  BY <1>3, <1>6 DEF Types, SeenOrAsked, serverVars, Window, WireOK
<1>8. AskedInTime'
  <2>1. (\A t \in chave' : t < sendseq') /\ (\A t \in casked' : t < sendseq' \/ t = cstart')
    BY <1>3 DEF AskedInTime, serverVars
  <2>2. sendseq' = sendseq
    BY <1>3 DEF serverVars
  <2> QED
    BY <1>6, <2>1, <2>2, WireFollows DEF AskedInTime
<1> QED
  BY <1>7, <1>8
LEMMA ClientRunOK ==
    ASSUME ResendInv, NEW expired \in SUBSET casked, NEW deadlocked \in BOOLEAN,
           NEW due \in BOOLEAN, ClientRun(expired, deadlocked, due)
    PROVE  ResendInv'
<1> DEFINE Again(next) == (From(next, expired) \ chave) \cup ForcedResend(next, deadlocked)
           Acks(next) == IF needAck /\ due THEN {Packet("upGame", 0, -1, next)} ELSE {}
<1>1. PICK next \in cstart..cstart + BackupTics :
        /\ UNCHANGED <<serverVars, maketic, gametic>>
        /\ cstart..next - 1 \subseteq chave /\ next \notin chave
        /\ cstart' = next /\ chave' = From(next, chave)
        /\ casked' = From(next, casked) \cup Again(next)
        /\ wire' \in Sent(wire, Requests("upResend", Again(next)) \cup Acks(next))
  BY DEF ClientRun
<1>2. /\ cstart \in Nat /\ sendseq \in Nat /\ next \in Nat /\ next >= cstart
      /\ next <= cstart + BackupTics /\ BackupTics \in Nat
      /\ wire \subseteq Packets /\ chave \subseteq Window(cstart) /\ casked \subseteq Window(cstart)
  BY ResendAssumption DEF Types
<1>3. chave \subseteq Int /\ casked \subseteq Int /\ expired \subseteq Int
  BY <1>2 DEF Window
<1>4. ForcedResend(next, deadlocked) \subseteq {next}
  BY DEF ForcedResend
<1>5. /\ Again(next) \subseteq casked \cup {next}
      /\ \A t \in Again(next) : t \in Int /\ t >= next
  <2>1. \A t \in From(next, expired) : t \in casked /\ t \in Int /\ t >= next
    BY <1>3 DEF From
  <2>2. next \in Int /\ next >= next
    BY <1>2
  <2>3. \A t \in Again(next) : t \in From(next, expired) \/ t = next
    BY <1>4
  <2> QED
    BY <2>1, <2>2, <2>3
<1> HIDE DEF Again, ResendInv
<1>6. \A t \in casked : t >= next => (t < sendseq \/ t = next)
  \* if cstart was asked for early, nothing has come, and next is cstart
  <2>1. CASE next = cstart
    BY <2>1 DEF ResendInv, AskedInTime
  <2>2. CASE next > cstart
    <3>1. cstart \in chave
      BY <1>1, <1>2, <2>2
    <3>2. cstart < sendseq
      BY <3>1 DEF ResendInv, AskedInTime
    <3> QED
      BY <1>2, <1>3, <2>2, <3>2 DEF ResendInv, AskedInTime
  <2> QED
    BY <1>2, <2>1, <2>2
<1>7. \A t \in Again(next) : (t < sendseq \/ t = next) /\ t >= next
  BY <1>5, <1>6
<1>8. WireOK(wire', sendseq)
  <2>1. WireOK(wire, sendseq)
    BY <1>2, WireMeans DEF ResendInv
  <2>2. WireOK(Requests("upResend", Again(next)), sendseq)
    <3>1. Again(next) \in SUBSET Int /\ sendseq \in Int /\ next \in Int
      BY <1>2, <1>5
    <3> QED
      BY <1>7, <3>1, RequestsUpOK
  <2>3. WireOK(Acks(next), sendseq)
    <3>1. WireOK({Packet("upGame", 0, -1, next)}, sendseq) /\ WireOK({}, sendseq)
      BY <1>2, GameUpOK DEF WireOK
    <3> QED
      BY <3>1
  <2>4. WireOK(Requests("upResend", Again(next)) \cup Acks(next), sendseq)
    BY <2>2, <2>3 DEF WireOK
  <2> QED
    BY <1>1, <2>1, <2>4, WireSent
<1>9. chave' \subseteq Window(next) /\ casked' \subseteq Window(next)
  <2>1. From(next, chave) \subseteq Window(next) /\ From(next, casked) \subseteq Window(next)
    BY <1>2, WindowForward
  <2>2. next \in Window(next)
    BY <1>2, ResendAssumption DEF Window
  <2>3. Again(next) \subseteq Window(next)
    <3>1. \A t \in casked : t >= next => t \in Window(next)
      BY <1>2 DEF Window
    <3> QED
      BY <1>5, <2>2, <3>1
  <2> QED
    BY <1>1, <2>1, <2>3
<1>10. Types'
  <2>1. wire' \subseteq Packets
    BY <1>8 DEF WireOK
  <2> QED
    BY <1>1, <1>2, <1>9, <2>1 DEF ResendInv, Types, serverVars, Window
<1>11. SeenOrAsked'
  <2>1. Segment(chave \cup casked, cstart)
    BY DEF ResendInv, SeenOrAsked
  <2>2. Segment(From(next, chave \cup casked), next)
    BY <1>2, <2>1, ScanForward
  <2>3. chave' \cup casked' = From(next, chave \cup casked) \cup {t \in Again(next) : t = next}
    BY <1>1, <1>5 DEF From
  <2>4. Segment(chave' \cup casked', next)
    <3>1. ASSUME NEW t \in chave' \cup casked', NEW u \in next..t - 1
          PROVE  u \in From(next, chave \cup casked)
      <4>1. t # next
        BY <1>2
      <4>2. t \in From(next, chave \cup casked)
        BY <2>3, <4>1
      <4> QED
        BY <2>2, <4>2 DEF Segment
    <3> QED
      BY <2>3, <3>1 DEF Segment
  <2> QED
    BY <1>1, <2>4 DEF ResendInv, SeenOrAsked, serverVars
<1>12. AskedInTime'
  <2>1. sendseq' = sendseq
    BY <1>1 DEF serverVars
  <2>2. \A t \in chave' : t < sendseq'
    BY <1>1, <2>1 DEF From, ResendInv, AskedInTime
  <2>3. \A t \in casked' : t < sendseq' \/ t = cstart'
    BY <1>1, <1>6, <1>7, <2>1 DEF From
  <2> QED
    BY <1>8, <2>1, <2>2, <2>3, WireFollows DEF AskedInTime
<1> QED
  BY <1>10, <1>11, <1>12 DEF ResendInv

LEMMA ServerParseGameDataOK ==
    ASSUME ResendInv, NEW m \in OfKind(wire, "upGame"), ServerParseGameData(m)
    PROVE  ResendInv'
<1> DEFINE now == have \cup (Window(start) \cap m.first..m.last)
           run == MissingRun(start, now, asked, m.first)
<1>1. /\ start \in Nat /\ sendseq \in Nat /\ acked \in Int /\ wire \subseteq Packets
      /\ m \in wire /\ m.first \in Int /\ m.last \in Int /\ m.ack \in Int
      /\ have \subseteq Window(start) /\ asked \subseteq Window(start)
  BY DEF Types, OfKind, Packets
<1>2. Window(start) \subseteq Int
  BY <1>1 DEF Window
<1>3. /\ UNCHANGED <<start, sendseq, clientVars>>
      /\ have' = now /\ asked' = asked \cup run /\ acked' = Larger(acked, m.ack)
      /\ wire' \in Sent(wire \ {m}, Requests("downResend", run))
  BY DEF ServerParseGameData, Carried
<1>4. /\ Segment(now \cup asked \cup run, start)
      /\ run \subseteq Window(start)
  <2>1. Segment(have \cup asked, start)
    BY DEF SeenOrAsked
  <2>2. have \in SUBSET Int /\ asked \in SUBSET Int /\ start \in Int
    BY <1>1, <1>2
  <2>3. m.first \in Int /\ m.last \in Int
    BY <1>1
  <2> HIDE DEF ResendInv
  <2>4. Scanned(start, have, asked, m.first, m.last)
    BY <2>1, <2>2, <2>3, ScanCovers
  <2> QED
    BY <2>4 DEF Scanned
<1> HIDE DEF run
<1>5. WireOK(wire', sendseq)
  <2>1. WireOK(wire \ {m}, sendseq)
    BY <1>1, WireMeans DEF WireOK
  <2>2. WireOK(Requests("downResend", run), sendseq)
    BY <1>2, <1>4, RequestsDownOK
  <2> QED
    BY <1>3, <2>1, <2>2, WireSent
<1>6. Types'
  <2>1. now \subseteq Window(start) /\ asked \cup run \subseteq Window(start)
    BY <1>1, <1>4
  <2>2. wire' \subseteq Packets /\ Larger(acked, m.ack) \in Int
    BY <1>1, <1>5 DEF WireOK, Larger
  <2> QED
    BY <1>3, <2>1, <2>2 DEF Types, clientVars, Window
<1>7. SeenOrAsked'
  <2>1. have' \cup asked' = now \cup asked \cup run
    BY <1>3
  <2> QED
    BY <1>3, <1>4, <2>1 DEF SeenOrAsked, clientVars
<1>8. AskedInTime'
  <2>1. sendseq' = sendseq /\ cstart' = cstart /\ chave' = chave /\ casked' = casked
    BY <1>3 DEF clientVars
  <2>2. (\A t \in chave' : t < sendseq') /\ (\A t \in casked' : t < sendseq' \/ t = cstart')
    BY <2>1 DEF AskedInTime
  <2> QED
    BY <1>5, <2>1, <2>2, WireFollows DEF AskedInTime
<1> QED
  BY <1>6, <1>7, <1>8
LEMMA ServerParseGameDataACKOK ==
    ASSUME ResendInv, NEW m \in OfKind(wire, "upGame"), ServerParseGameDataACK(m)
    PROVE  ResendInv'
<1>1. /\ wire \subseteq Packets /\ m.ack \in Int /\ acked \in Int
      /\ wire' = wire \ {m} /\ acked' = Larger(acked, m.ack)
      /\ UNCHANGED <<start, have, asked, sendseq, clientVars>>
  BY DEF Types, OfKind, Packets, ServerParseGameDataACK
<1>2. Types'
  BY <1>1 DEF Types, clientVars, Window, Larger
<1>3. SeenOrAsked' /\ AskedInTime'
  BY <1>1 DEF SeenOrAsked, AskedInTime, RequestsWhole, OfKind, clientVars
<1> QED
  BY <1>2, <1>3

LEMMA ServerParseResendRequestOK ==
    ASSUME ResendInv, NEW m \in OfKind(wire, "upResend"), ServerParseResendRequest(m)
    PROVE  ResendInv'
<1>1. /\ sendseq \in Nat /\ wire \subseteq Packets /\ m \in wire
      /\ m.first \in Int /\ m.last \in Int /\ m.first <= m.last
  BY DEF Types, OfKind, Packets, AskedInTime
<1>2. WireOK(wire \ {m}, sendseq)
  BY <1>1, WireMeans DEF WireOK
<1>3. WireOK(wire', sendseq)
  <2>1. CASE Carried(m) \subseteq InQueue
    <3>1. m.last \in Carried(m)
      BY <1>1 DEF Carried
    <3>2. m.last < sendseq
      BY <1>1, <2>1, <3>1 DEF InQueue
    <3>3. WireOK({Packet("downGame", m.first, m.last, 0)}, sendseq)
      BY <1>1, <3>2, GameDownOK
    <3> QED
      BY <1>2, <2>1, <3>3, WireSent DEF ServerParseResendRequest
  <2>2. CASE ~(Carried(m) \subseteq InQueue)
    BY <1>2, <2>2 DEF ServerParseResendRequest
  <2> QED
    BY <2>1, <2>2
<1>4. UNCHANGED <<serverVars, clientVars>>
  BY DEF ServerParseResendRequest
<1>5. Types' /\ SeenOrAsked'
  BY <1>3, <1>4 DEF Types, SeenOrAsked, serverVars, clientVars, Window, WireOK
<1>6. AskedInTime'
  <2>1. (\A t \in chave' : t < sendseq') /\ (\A t \in casked' : t < sendseq' \/ t = cstart')
    BY <1>4 DEF AskedInTime, serverVars, clientVars
  <2>2. sendseq' = sendseq
    BY <1>4 DEF serverVars
  <2> QED
    BY <1>3, <2>1, <2>2, WireFollows DEF AskedInTime
<1> QED
  BY <1>5, <1>6

LEMMA LoseOK ==
    ASSUME ResendInv, NEW m \in wire, Lose(m)
    PROVE  ResendInv'
BY DEF Lose, Types, SeenOrAsked, AskedInTime, RequestsWhole, OfKind, serverVars,
       clientVars, Window

LEMMA ServerRunOK ==
    ASSUME ResendInv, NEW expired \in SUBSET asked, NEW silent \in BOOLEAN,
           ServerRun(expired, silent)
    PROVE  ResendInv'
<1> DEFINE made == IF CanPump THEN sendseq + 1 ELSE sendseq
           pumped == IF CanPump
                       THEN {Packet("downGame", Larger(sendseq - ExtraTics, 0), sendseq, 0)}
                       ELSE {}
           stuck == silent /\ Expected \in Window(start)
           ahead == IF stuck THEN DeadlockRun ELSE {}
           repeated == IF stuck /\ made > acked
                         THEN {Packet("downGame", acked, made - 1, 0)} ELSE {}
           Again(next) == From(next, expired) \ (have \cup ahead)
<1>1. PICK next \in start..start + BackupTics :
        /\ UNCHANGED <<acked, clientVars>>
        /\ \A tic \in start..next - 1 : CanAdvance(tic)
        /\ sendseq' = made /\ start' = next /\ have' = From(next, have)
        /\ asked' = From(next, asked \cup (ahead \cap Window(start)))
        /\ wire' \in Sent(wire, pumped \cup repeated \cup Requests("downResend", ahead)
                                     \cup Requests("downResend", Again(next)))
  BY DEF ServerRun
<1>2. /\ start \in Nat /\ next \in Nat /\ next >= start /\ sendseq \in Nat /\ acked \in Int
      /\ wire \subseteq Packets /\ have \subseteq Window(start) /\ asked \subseteq Window(start)
      /\ ExtraTics \in Nat /\ DeadlockTics \in Nat
  BY ResendAssumption DEF Types
<1>3. /\ Expected \in Int
      /\ start..Expected - 1 \subseteq have /\ Window(start) \subseteq Int
  BY <1>2, ExpectedIsNext, ResendAssumption DEF Window
<1>4. ahead \subseteq Int /\ have \subseteq Int /\ asked \subseteq Int
  BY <1>2, <1>3 DEF DeadlockRun
<1>5. made \in Nat /\ made >= sendseq
  BY <1>2
<1>6. WireOK(wire', made)
  <2>1. WireOK(wire, made)
    BY <1>2, <1>5, WireMeans, WireGrows
  <2>2. WireOK(pumped, made)
    <3>1. CASE CanPump
      <4>1. Larger(sendseq - ExtraTics, 0) \in Int /\ Larger(sendseq - ExtraTics, 0) <= sendseq
        BY <1>2 DEF Larger
      <4>2. sendseq < made /\ made \in Int
        BY <1>2, <3>1
      <4> HIDE DEF made
      <4> QED
        BY <1>2, <3>1, <4>1, <4>2, GameDownOK
    <3>2. CASE ~CanPump
      BY <3>2 DEF WireOK
    <3> QED
      BY <3>1, <3>2
  <2>3. WireOK(repeated, made)
    <3>1. CASE stuck /\ made > acked
      <4>1. acked \in Int /\ made - 1 \in Int /\ acked <= made - 1 /\ made - 1 < made
        BY <1>2, <1>5, <3>1
      <4>2. made \in Int
        BY <1>5
      <4> HIDE DEF made, stuck
      <4> QED
        BY <3>1, <4>1, <4>2, GameDownOK
    <3>2. CASE ~(stuck /\ made > acked)
      BY <3>2 DEF WireOK
    <3> QED
      BY <3>1, <3>2
  <2>4. WireOK(Requests("downResend", ahead), made)
    BY <1>4, RequestsDownOK
  <2>5. WireOK(Requests("downResend", Again(next)), made)
    <3>1. Again(next) \in SUBSET Int
      BY <1>4 DEF From
    <3> QED
      BY <3>1, RequestsDownOK
  <2> HIDE DEF made, pumped, repeated, ahead, Again, stuck
  <2>6. WireOK(pumped \cup repeated \cup Requests("downResend", ahead)
                 \cup Requests("downResend", Again(next)), made)
    BY <2>2, <2>3, <2>4, <2>5 DEF WireOK
  <2> QED
    BY <1>1, <2>1, <2>6, WireSent
<1>7. Segment(have \cup asked \cup (ahead \cap Window(start)), start)
  <2>1. Segment(have \cup asked, start)
    BY DEF SeenOrAsked
  <2>2. ASSUME NEW t \in ahead \cap Window(start), NEW u \in start..t - 1
        PROVE  u \in have \cup (ahead \cap Window(start))
    <3>1. ahead = Expected..Expected + DeadlockTics
      BY <2>2 DEF DeadlockRun
    <3>2. CASE u < Expected
      BY <1>2, <1>3, <3>2
    <3>3. CASE u >= Expected
      <4>1. u \in ahead
        BY <1>2, <1>3, <2>2, <3>1, <3>3
      <4>2. u \in Window(start)
        BY <1>2, <1>3, <2>2, ResendAssumption DEF Window
      <4> QED
        BY <4>1, <4>2
    <3> QED
      BY <1>3, <3>2, <3>3
  <2> HIDE DEF ahead
  <2> QED
    BY <2>1, <2>2 DEF Segment
<1> HIDE DEF made, pumped, repeated, ahead, Again, stuck, ResendInv
<1>8. SeenOrAsked'
  <2>1. Segment(From(next, have \cup asked \cup (ahead \cap Window(start))), next)
    BY <1>2, <1>7, ScanForward
  <2>2. have' \cup asked' = From(next, have \cup asked \cup (ahead \cap Window(start)))
    BY <1>1 DEF From
  <2> QED
    BY <1>1, <2>1, <2>2 DEF ResendInv, SeenOrAsked, clientVars
<1>9. Types'
  <2>1. have' \subseteq Window(next) /\ asked' \subseteq Window(next)
    <3>1. asked \cup (ahead \cap Window(start)) \subseteq Window(start)
      BY <1>2
    <3> QED
      BY <1>1, <1>2, <3>1, WindowForward
  <2>2. wire' \subseteq Packets
    BY <1>6 DEF WireOK
  <2> QED
    BY <1>1, <1>2, <1>5, <2>1, <2>2 DEF ResendInv, Types, clientVars, Window
<1>10. AskedInTime'
  <2>1. sendseq' = made /\ chave' = chave /\ casked' = casked /\ cstart' = cstart
    BY <1>1 DEF clientVars
  <2>2. chave \subseteq Int /\ casked \subseteq Int
    BY DEF ResendInv, Types, Window
  <2>3. (\A t \in chave' : t < sendseq') /\ (\A t \in casked' : t < sendseq' \/ t = cstart')
    BY <1>2, <1>5, <2>1, <2>2 DEF ResendInv, AskedInTime
  <2> QED
    BY <1>6, <2>1, <2>3, WireFollows DEF AskedInTime
<1> QED
  BY <1>8, <1>9, <1>10 DEF ResendInv

-----------------------------------------------------------------------------

LEMMA StepHolds == ResendInv /\ [Next]_vars => ResendInv'
<1> SUFFICES ASSUME ResendInv, [Next]_vars
             PROVE  ResendInv'
  OBVIOUS
<1> HIDE DEF ResendInv
<1>1. CASE BuildNewTic
  BY <1>1, BuildNewTicOK
<1>2. CASE RunTic
  BY <1>2, RunTicOK
<1>3. ASSUME NEW expired \in SUBSET casked, NEW deadlocked \in BOOLEAN, NEW due \in BOOLEAN,
             ClientRun(expired, deadlocked, due)
      PROVE  ResendInv'
  BY <1>3, ClientRunOK
<1>4. ASSUME NEW expired \in SUBSET asked, NEW silent \in BOOLEAN, ServerRun(expired, silent)
      PROVE  ResendInv'
  BY <1>4, ServerRunOK
<1>5. ASSUME NEW kind \in Kinds, Deliver(kind)
      PROVE  ResendInv'
  <2>1. PICK m \in OfKind(wire, kind) :
               \/ kind = "upGame" /\ ServerParseGameDataACK(m)
               \/ kind = "upGame" /\ ServerParseGameData(m)
               \/ kind = "upResend" /\ ServerParseResendRequest(m)
               \/ kind = "downGame" /\ ClientParseGameData(m)
               \/ kind = "downResend" /\ ClientParseResendRequest(m)
    BY <1>5 DEF Deliver, Kinds
  <2> QED
    BY <2>1, ServerParseGameDataACKOK, ServerParseGameDataOK, ServerParseResendRequestOK,
       ClientParseGameDataOK, ClientParseResendRequestOK
<1>6. ASSUME NEW m \in wire, Lose(m)
      PROVE  ResendInv'
  BY <1>6, LoseOK
<1>7. CASE UNCHANGED vars
  BY <1>7 DEF vars, ResendInv, Types, SeenOrAsked, AskedInTime, RequestsWhole, OfKind,
              serverVars, clientVars, Window
<1> QED
  BY <1>1, <1>2, <1>3, <1>4, <1>5, <1>6, <1>7 DEF Next

LEMMA InvHolds == Spec => []ResendInv
<1> HIDE DEF ResendInv
<1> QED
  BY InitHolds, StepHolds, PTL DEF Spec

\* For every window and whatever the link loses or reorders: what is missing
\* before a tic that has come has been asked for, so that the request of
\* NET_CL_CheckResends and NET_SV_CheckResends is repeated until it comes.
THEOREM HolesAreAsked == Spec => []HolesAsked
<1>1. ResendInv => HolesAsked
  BY DEF SeenOrAsked, Segment, HolesAsked
<1> HIDE DEF ResendInv
<1> QED
  BY <1>1, InvHolds, PTL

\* No request of a client is one that NET_SV_ParseResendRequest throws away as
\* a whole because of a tic at its end that has not been made.
THEOREM RequestsAreWhole == Spec => []RequestsWhole
<1>1. ResendInv => RequestsWhole
  BY DEF AskedInTime
<1> HIDE DEF ResendInv
<1> QED
  BY <1>1, InvHolds, PTL

-----------------------------------------------------------------------------
(* How far apart the ends can be.  An acknowledgement that comes with a    *)
(* tic is at most MaxAhead behind it, and the server sends no tic of the   *)
(* other player that this one's tics have not made possible.               *)

\* What the packets of the player say, when it has made tics up to made and
\* has all full tics up to got.
UpBounded(w, made, got) ==
    \A m \in OfKind(w, "upGame") :
        m.last < made /\ m.ack <= got /\ m.last <= m.ack + MaxAhead

Limits ==
    /\ start <= acked /\ acked <= cstart /\ cstart <= sendseq
    /\ start <= maketic
    /\ sendseq <= acked + MaxUnacked + 1
    /\ sendseq <= Expected + MaxAhead + 1
    /\ gametic <= cstart /\ gametic <= maketic /\ maketic <= gametic + MaxAhead + 1
    /\ \A t \in have : t < maketic /\ t <= acked + MaxAhead
    /\ UpBounded(wire, maketic, cstart)

LEMMA LimitsAtFirst == Init => Limits
<1> SUFFICES ASSUME Init PROVE Limits
  OBVIOUS
<1>1. Expected \in Nat
  BY ExpectedIsNext, ResendAssumption DEF Init, Window
<1> QED
  BY <1>1, ResendAssumption DEF Init, Limits, UpBounded, OfKind

\* What is added to the wire beside what it has is bounded as well.
LEMMA UpSent ==
    ASSUME NEW w \in SUBSET Packets, NEW ps \in SUBSET Packets, NEW v \in Sent(w, ps),
           NEW made \in Int, NEW got \in Int, NEW made2 \in Int, NEW got2 \in Int,
           made <= made2, got <= got2,
           UpBounded(w, made, got), UpBounded(ps, made2, got2)
    PROVE  UpBounded(v, made2, got2)
<1> SUFFICES ASSUME NEW m \in OfKind(v, "upGame")
             PROVE  m.last < made2 /\ m.ack <= got2 /\ m.last <= m.ack + MaxAhead
  BY DEF UpBounded
<1>1. m \in OfKind(w, "upGame") \/ m \in OfKind(ps, "upGame")
  BY SentIsPart DEF OfKind
<1>2. m.last \in Int /\ m.ack \in Int
  BY <1>1 DEF OfKind, Packets
<1> QED
  BY <1>1, <1>2 DEF UpBounded

LEMMA UpLess ==
    ASSUME NEW w \in SUBSET Packets, NEW v \in SUBSET w,
           NEW made \in Int, NEW got \in Int, NEW made2 \in Int, NEW got2 \in Int,
           made <= made2, got <= got2, UpBounded(w, made, got)
    PROVE  UpBounded(v, made2, got2)
BY DEF UpBounded, OfKind, Packets

\* The requests, and what the server sends, acknowledge nothing.
LEMMA UpRequests ==
    ASSUME NEW kind \in Kinds, kind # "upGame", NEW S \in SUBSET Int,
           NEW made, NEW got
    PROVE  UpBounded(Requests(kind, S), made, got) /\ Requests(kind, S) \subseteq Packets
BY RequestsArePackets DEF UpBounded, OfKind

LEMMA UpTics ==
    ASSUME Types, NEW first \in Int, NEW last \in Int, NEW made \in Int,
           last < made, last <= cstart + MaxAhead
    PROVE  /\ UpBounded({SendTics(first, last)}, made, cstart)
           /\ {SendTics(first, last)} \subseteq Packets
<1>1. Larger(first, 0) \in Int /\ cstart \in Int
  BY DEF Larger, Types
<1> QED
  BY <1>1 DEF UpBounded, OfKind, SendTics, Packet, Packets, Kinds

\* The server's tic that it waits for does not go back.
LEMMA ExpectedGrows ==
    ASSUME Types, Types', start <= start', start' <= Expected,
           \A t \in have : t >= start' => t \in have'
    PROVE  Expected \in Nat /\ Expected' \in Nat /\ Expected <= Expected'
<1>1. /\ Expected \in start..start + BackupTics /\ start..Expected - 1 \subseteq have
      /\ start \in Nat /\ start' \in Nat
  BY ExpectedIsNext DEF Types
<1>2. Expected' \in start'..start' + BackupTics /\ Expected' \notin have'
  <2>1. start' \in Nat /\ have' \in SUBSET Window(start')
    BY DEF Types, Window
  <2> QED  BY <2>1, FirstMissing DEF Expected
<1>3. ~(Expected' < Expected)
  <2> SUFFICES ASSUME Expected' < Expected PROVE FALSE
    OBVIOUS
  <2>1. Expected' \in start..Expected - 1 /\ Expected' >= start'
    BY <1>1, <1>2, ResendAssumption
  <2> QED  BY <1>1, <1>2, <2>1
<1> QED
  BY <1>1, <1>2, <1>3, ResendAssumption

LEMMA LimitNumbers ==
    ASSUME Types
    PROVE  /\ start \in Nat /\ acked \in Int /\ cstart \in Nat /\ sendseq \in Nat
           /\ maketic \in Nat /\ gametic \in Nat /\ Expected \in Nat
           /\ have \subseteq Int /\ wire \subseteq Packets
           /\ MaxAhead \in Nat /\ MaxUnacked \in Nat /\ BackupTics \in Nat
<1>1. Expected \in Nat
  BY ExpectedIsNext, ResendAssumption DEF Types
<1> QED
  BY <1>1, ResendAssumption DEF Types, Window

LEMMA StillWithin ==
    ASSUME NEW a \in Int, NEW b \in Int, NEW c \in Int, NEW k \in Int, a <= b + k + 1, b <= c
    PROVE  a <= c + k + 1
OBVIOUS

LEMMA BuildNewTicLimits ==
    ASSUME Types, Limits, BuildNewTic
    PROVE  Limits'
<1> USE LimitNumbers
<1>1. /\ maketic' = maketic + 1 /\ maketic - gametic <= MaxAhead
      /\ UNCHANGED <<start, have, asked, sendseq, acked, cstart, gametic>>
      /\ wire' \in Sent(wire, {SendTics(maketic - ExtraTics, maketic)})
  BY DEF BuildNewTic, serverVars
<1>2. Expected' = Expected
  BY <1>1 DEF Expected
<1>3. UpBounded({SendTics(maketic - ExtraTics, maketic)}, maketic + 1, cstart)
      /\ {SendTics(maketic - ExtraTics, maketic)} \subseteq Packets
  <2>1. maketic <= cstart + MaxAhead
    BY <1>1 DEF Limits
  <2>2. maketic - ExtraTics \in Int /\ maketic + 1 \in Int /\ maketic < maketic + 1
    BY ResendAssumption
  <2> QED  BY <2>1, <2>2, UpTics
<1>4. UpBounded(wire', maketic', cstart')
  BY <1>1, <1>3, UpSent DEF Limits
<1> QED
  BY <1>1, <1>2, <1>4 DEF Limits

LEMMA RunTicLimits ==
    ASSUME Types, Limits, RunTic
    PROVE  Limits'
<1>1. /\ gametic < maketic /\ gametic < cstart /\ gametic' = gametic + 1
      /\ UNCHANGED <<start, have, asked, sendseq, acked, cstart, maketic, wire>>
  BY LimitNumbers DEF RunTic, serverVars, Smaller
<1>2. Expected' = Expected
  BY <1>1 DEF Expected
<1> QED
  BY <1>1, <1>2, LimitNumbers DEF Limits, UpBounded, OfKind

\* A step that only takes a packet from the wire or adds requests and game data of the
\* server to it.
LEMMA WireLimits ==
    ASSUME Types, Limits, UpBounded(wire', maketic, cstart),
           UNCHANGED <<start, have, sendseq, acked, cstart, maketic, gametic>>
    PROVE  Limits'
<1>1. Expected' = Expected
  BY DEF Expected
<1> QED
  BY <1>1, LimitNumbers DEF Limits

LEMMA ClientParseGameDataLimits ==
    ASSUME ResendInv, Limits, NEW m \in OfKind(wire, "downGame"), ClientParseGameData(m)
    PROVE  Limits'
<1> DEFINE now == chave \cup (Window(cstart) \cap Carried(m))
           run == MissingRun(cstart, now, casked, m.first)
<1>1. /\ UNCHANGED <<start, have, asked, sendseq, acked, cstart, maketic, gametic>>
      /\ wire' \in Sent(wire \ {m}, Requests("upResend", run))
  BY DEF ClientParseGameData, serverVars
<1>2. run \in SUBSET Int
  BY DEF MissingRun, Unasked
<1>3. /\ UpBounded(Requests("upResend", run), maketic, cstart)
      /\ Requests("upResend", run) \subseteq Packets
  BY <1>2, UpRequests DEF Kinds
<1>4. UpBounded(wire \ {m}, maketic, cstart) /\ wire \ {m} \subseteq Packets
  BY LimitNumbers, UpLess DEF ResendInv, Limits
<1>5. UpBounded(wire', maketic, cstart)
  <2> HIDE DEF run
  <2> QED  BY <1>1, <1>3, <1>4, LimitNumbers, UpSent DEF ResendInv
<1> QED
  BY <1>1, <1>5, WireLimits DEF ResendInv

LEMMA ClientParseResendRequestLimits ==
    ASSUME ResendInv, Limits, NEW m \in OfKind(wire, "downResend"), ClientParseResendRequest(m)
    PROVE  Limits'
<1> DEFINE first == Larger(m.first, maketic - BackupTics)
           last == Smaller(m.last, maketic - 1)
<1> USE LimitNumbers DEF ResendInv
<1>1. /\ UNCHANGED <<start, have, asked, sendseq, acked, cstart, maketic, gametic>>
      /\ \/ wire' \in Sent(wire \ {m}, {SendTics(first, last)})
         \/ wire' = wire \ {m}
  BY DEF ClientParseResendRequest, serverVars
<1>2. UpBounded(wire \ {m}, maketic, cstart) /\ wire \ {m} \subseteq Packets
  BY UpLess DEF Limits
<1>3. UpBounded(wire', maketic, cstart)
  <2>1. m.first \in Int /\ m.last \in Int
    BY DEF OfKind, Packets
  <2>2. first \in Int /\ last \in Int /\ last < maketic
    BY <2>1 DEF Larger, Smaller
  <2>3. last <= cstart + MaxAhead
    BY <2>2 DEF Limits
  <2> HIDE DEF first, last
  <2>4. /\ UpBounded({SendTics(first, last)}, maketic, cstart)
        /\ {SendTics(first, last)} \subseteq Packets
    BY <2>2, <2>3, UpTics
  <2>5. CASE wire' \in Sent(wire \ {m}, {SendTics(first, last)})
    BY <1>2, <2>4, <2>5, UpSent
  <2> QED  BY <1>1, <1>2, <2>5
<1> QED
  BY <1>1, <1>3, WireLimits

LEMMA ServerParseResendRequestLimits ==
    ASSUME ResendInv, Limits, NEW m \in OfKind(wire, "upResend"), ServerParseResendRequest(m)
    PROVE  Limits'
<1> USE LimitNumbers DEF ResendInv
<1>1. /\ UNCHANGED <<start, have, asked, sendseq, acked, cstart, maketic, gametic>>
      /\ \/ wire' \in Sent(wire \ {m}, {Packet("downGame", m.first, m.last, 0)})
         \/ wire' = wire \ {m}
  BY DEF ServerParseResendRequest, serverVars, clientVars
<1>2. UpBounded(wire \ {m}, maketic, cstart) /\ wire \ {m} \subseteq Packets
  BY UpLess DEF Limits
<1>3. /\ UpBounded({Packet("downGame", m.first, m.last, 0)}, maketic, cstart)
      /\ {Packet("downGame", m.first, m.last, 0)} \subseteq Packets
  BY DEF UpBounded, OfKind, Packet, Packets, Kinds
<1> QED
  BY <1>1, <1>2, <1>3, UpSent, WireLimits

LEMMA LoseLimits ==
    ASSUME Types, Limits, NEW m \in wire, Lose(m)
    PROVE  Limits'
<1>1. UpBounded(wire', maketic, cstart)
  BY LimitNumbers, UpLess DEF Limits, Lose
<1> QED
  BY <1>1, WireLimits DEF Lose, serverVars, clientVars
LEMMA ClientRunLimits ==
    ASSUME ResendInv, Limits, NEW expired \in SUBSET casked,
           NEW deadlocked \in BOOLEAN, NEW due \in BOOLEAN,
           ClientRun(expired, deadlocked, due)
    PROVE  Limits'
<1> DEFINE Again(next) == (From(next, expired) \ chave) \cup ForcedResend(next, deadlocked)
           Acks(next) == IF needAck /\ due THEN {Packet("upGame", 0, -1, next)} ELSE {}
<1> USE LimitNumbers DEF ResendInv
<1>1. PICK next \in cstart..cstart + BackupTics :
        /\ UNCHANGED <<start, have, asked, sendseq, acked, maketic, gametic>>
        /\ cstart..next - 1 \subseteq chave /\ cstart' = next
        /\ wire' \in Sent(wire, Requests("upResend", Again(next)) \cup Acks(next))
  BY DEF ClientRun, serverVars
<1>2. next \in Nat /\ cstart <= next
  OBVIOUS
<1>3. next <= sendseq
  <2>1. CASE next = cstart
    BY <2>1 DEF Limits
  <2>2. CASE next # cstart
    <3>1. next - 1 \in chave
      BY <1>1, <1>2, <2>2
    <3> QED  BY <3>1, <1>2 DEF AskedInTime
  <2> QED  BY <2>1, <2>2
<1>4. Again(next) \in SUBSET Int
  <2>1. expired \subseteq Int
    BY DEF Types, Window
  <2>2. \A t \in Again(next) : t \in expired \/ t = next
    BY DEF From, ForcedResend
  <2>3. next \in Int
    BY <1>2
  <2> HIDE DEF Again
  <2> QED  BY <2>1, <2>2, <2>3, Zenon
<1>5. /\ UpBounded(Requests("upResend", Again(next)), maketic, next)
      /\ Requests("upResend", Again(next)) \subseteq Packets
  <2> HIDE DEF Again
  <2> QED  BY <1>4, UpRequests DEF Kinds
<1>6. UpBounded(Acks(next), maketic, next) /\ Acks(next) \subseteq Packets
  BY <1>2 DEF UpBounded, OfKind, Packet, Packets, Kinds
<1>7. UpBounded(wire', maketic, next)
  <2> HIDE DEF Again, Acks
  <2>1. /\ UpBounded(Requests("upResend", Again(next)) \cup Acks(next), maketic, next)
        /\ Requests("upResend", Again(next)) \cup Acks(next) \subseteq Packets
    BY <1>5, <1>6 DEF UpBounded, OfKind
  <2>2. UpBounded(wire, maketic, cstart)
    BY DEF Limits
  <2> QED  BY <1>1, <1>2, <2>1, <2>2, UpSent
<1>8. Expected' = Expected
  BY <1>1 DEF Expected
<1> QED
  BY <1>1, <1>2, <1>3, <1>7, <1>8 DEF Limits

LEMMA ServerParseGameDataLimits ==
    ASSUME ResendInv, ResendInv', Limits, NEW m \in OfKind(wire, "upGame"),
           ServerParseGameData(m)
    PROVE  Limits'
<1> DEFINE now == have \cup (Window(start) \cap Carried(m))
           run == MissingRun(start, now, asked, m.first)
<1> USE LimitNumbers DEF ResendInv
<1>1. /\ UNCHANGED <<start, sendseq, cstart, maketic, gametic>>
      /\ have' = now /\ acked' = Larger(acked, m.ack)
      /\ wire' \in Sent(wire \ {m}, Requests("downResend", run))
  BY DEF ServerParseGameData, clientVars
<1>2. /\ m.first \in Int /\ m.last \in Int /\ m.ack \in Int
      /\ m.last < maketic /\ m.ack <= cstart /\ m.last <= m.ack + MaxAhead
  BY DEF OfKind, Packets, Limits, UpBounded
<1>3. /\ acked' \in Int /\ acked <= acked' /\ m.ack <= acked' /\ acked' <= cstart
  BY <1>1, <1>2 DEF Larger, Limits
<1>4. \A t \in have' : t < maketic /\ t <= acked' + MaxAhead
  <2> SUFFICES ASSUME NEW t \in have' PROVE t < maketic /\ t <= acked' + MaxAhead
    OBVIOUS
  <2>1. CASE t \in have
    BY <1>3, <2>1 DEF Limits
  <2>2. CASE t \in Carried(m)
    BY <1>2, <1>3, <2>2 DEF Carried
  <2> QED  BY <1>1, <2>1, <2>2
<1>5. Expected \in Nat /\ Expected' \in Nat /\ Expected <= Expected'
  <2>1. start <= Expected
    BY ExpectedIsNext DEF Types
  <2> QED  BY <1>1, <2>1, ExpectedGrows
<1>6. run \in SUBSET Int
  BY DEF MissingRun, Unasked
<1>7. UpBounded(wire', maketic, cstart)
  <2> HIDE DEF run
  <2>1. /\ UpBounded(Requests("downResend", run), maketic, cstart)
        /\ Requests("downResend", run) \subseteq Packets
    BY <1>6, UpRequests DEF Kinds
  <2>2. UpBounded(wire \ {m}, maketic, cstart) /\ wire \ {m} \subseteq Packets
    BY UpLess DEF Limits
  <2> QED  BY <1>1, <2>1, <2>2, UpSent
<1> HIDE DEF now, run
<1>8. start <= acked /\ cstart <= sendseq /\ start <= maketic
      /\ sendseq <= acked + MaxUnacked + 1 /\ sendseq <= Expected + MaxAhead + 1
      /\ gametic <= cstart /\ gametic <= maketic /\ maketic <= gametic + MaxAhead + 1
  BY DEF Limits
<1>9. /\ start \in Int /\ acked \in Int /\ sendseq \in Int /\ MaxAhead \in Int /\ MaxUnacked \in Int
      /\ Expected \in Int /\ Expected' \in Int /\ acked' \in Int
  BY <1>3, <1>5
<1>10. start <= acked' /\ sendseq <= acked' + MaxUnacked + 1 /\ sendseq <= Expected' + MaxAhead + 1
  <2>1. start <= acked'
    BY <1>3, <1>8, <1>9
  <2>2. sendseq <= acked' + MaxUnacked + 1
    BY <1>3, <1>8, <1>9, StillWithin, Zenon
  <2>3. sendseq <= Expected' + MaxAhead + 1
    BY <1>5, <1>8, <1>9, StillWithin, Zenon
  <2> QED  BY <2>1, <2>2, <2>3
<1> QED
  BY <1>1, <1>3, <1>4, <1>7, <1>8, <1>10 DEF Limits

LEMMA ServerParseGameDataACKLimits ==
    ASSUME ResendInv, Limits, NEW m \in OfKind(wire, "upGame"), ServerParseGameDataACK(m)
    PROVE  Limits'
<1> USE LimitNumbers DEF ResendInv
<1>1. /\ UNCHANGED <<start, have, sendseq, cstart, maketic, gametic>>
      /\ acked' = Larger(acked, m.ack) /\ wire' = wire \ {m}
  BY DEF ServerParseGameDataACK, clientVars
<1>2. m.ack \in Int /\ m.ack <= cstart
  BY DEF OfKind, Packets, Limits, UpBounded
<1>3. acked' \in Int /\ acked <= acked' /\ acked' <= cstart
  BY <1>1, <1>2 DEF Larger, Limits
<1>4. Expected' = Expected
  BY <1>1 DEF Expected
<1>5. UpBounded(wire', maketic', cstart')
  BY <1>1, UpLess DEF Limits
<1>6. \A t \in have' : t < maketic' /\ t <= acked' + MaxAhead
  BY <1>1, <1>3 DEF Limits
<1> QED
  BY <1>1, <1>3, <1>4, <1>5, <1>6 DEF Limits

LEMMA ServerRunLimits ==
    ASSUME ResendInv, ResendInv', Limits, NEW expired \in SUBSET asked,
           NEW silent \in BOOLEAN, ServerRun(expired, silent)
    PROVE  Limits'
<1> DEFINE made == IF CanPump THEN sendseq + 1 ELSE sendseq
           pumped == IF CanPump
                       THEN {Packet("downGame", Larger(sendseq - ExtraTics, 0), sendseq, 0)}
                       ELSE {}
           stuck == silent /\ Expected \in Window(start)
           ahead == IF stuck THEN DeadlockRun ELSE {}
           repeated == IF stuck /\ made > acked
                         THEN {Packet("downGame", acked, made - 1, 0)} ELSE {}
           Again(next) == From(next, expired) \ (have \cup ahead)
           Ps(next) == pumped \cup repeated \cup Requests("downResend", ahead)
                         \cup Requests("downResend", Again(next))
<1> USE LimitNumbers DEF ResendInv
<1>1. PICK next \in start..start + BackupTics :
        /\ UNCHANGED <<acked, cstart, maketic, gametic>>
        /\ \A tic \in start..next - 1 : CanAdvance(tic)
        /\ sendseq' = made /\ start' = next /\ have' = From(next, have)
        /\ wire' \in Sent(wire, Ps(next))
  BY DEF ServerRun, clientVars
<1>2. next \in Nat /\ start <= next
  OBVIOUS
<1>3. next <= acked /\ next <= maketic /\ next <= Expected
  <2>1. CASE next = start
    <3>1. start <= Expected
      BY ExpectedIsNext DEF Types
    <3> QED  BY <2>1, <3>1 DEF Limits
  <2>2. CASE next # start
    <3>1. CanAdvance(next - 1)
      BY <1>1, <1>2, <2>2
    <3>2. next - 1 \in have /\ acked >= next /\ Expected >= next
      BY <3>1, <1>2 DEF CanAdvance, AllAcknowledged
    <3> QED  BY <1>2, <3>2 DEF Limits
  <2> QED  BY <2>1, <2>2
<1>4. /\ made \in Nat /\ sendseq <= made
      /\ made <= acked + MaxUnacked + 1 /\ made <= Expected + MaxAhead + 1
  <2>1. CASE CanPump
    BY <2>1 DEF CanPump, AllAcknowledged, OtherHas
  <2>2. CASE ~CanPump
    BY <2>2 DEF Limits
  <2> QED  BY <2>1, <2>2
<1>5. Expected \in Nat /\ Expected' \in Nat /\ Expected <= Expected'
  BY <1>1, <1>2, <1>3, ExpectedGrows DEF From
<1>6. \A t \in have' : t < maketic /\ t <= acked + MaxAhead
  BY <1>1 DEF From, Limits
<1>7. UpBounded(Ps(next), maketic, cstart) /\ Ps(next) \subseteq Packets
  <2>1. UpBounded(pumped, maketic, cstart) /\ pumped \subseteq Packets
    <3>1. Larger(sendseq - ExtraTics, 0) \in Int
      BY ResendAssumption DEF Larger
    <3> QED  BY <3>1 DEF UpBounded, OfKind, Packet, Packets, Kinds
  <2>2. UpBounded(repeated, maketic, cstart) /\ repeated \subseteq Packets
    <3> HIDE DEF stuck, made
    <3> QED  BY <1>4 DEF UpBounded, OfKind, Packet, Packets, Kinds
  <2>3. ahead \subseteq Int
    BY DEF DeadlockRun
  <2>4. Again(next) \subseteq Int
    <3>1. expired \subseteq Int
      BY DEF Types, Window
    <3> QED  BY <3>1 DEF From
  <2> HIDE DEF pumped, repeated, ahead, Again, stuck, made
  <2>5. /\ UpBounded(Requests("downResend", ahead), maketic, cstart)
        /\ Requests("downResend", ahead) \subseteq Packets
    BY <2>3, UpRequests DEF Kinds
  <2>6. /\ UpBounded(Requests("downResend", Again(next)), maketic, cstart)
        /\ Requests("downResend", Again(next)) \subseteq Packets
    BY <2>4, UpRequests DEF Kinds
  <2> QED  BY <2>1, <2>2, <2>5, <2>6 DEF UpBounded, OfKind
<1>8. UpBounded(wire', maketic, cstart)
  <2> HIDE DEF Ps
  <2>1. UpBounded(wire, maketic, cstart)
    BY DEF Limits
  <2> QED  BY <1>1, <1>7, <2>1, UpSent
<1> HIDE DEF made, Ps
<1>9. cstart <= sendseq /\ acked <= cstart /\ gametic <= cstart /\ gametic <= maketic
      /\ maketic <= gametic + MaxAhead + 1 
      /\ MaxAhead \in Int /\ Expected \in Int /\ Expected' \in Int /\ made \in Int
  BY <1>4, <1>5 DEF Limits
<1>10. cstart <= made /\ made <= Expected' + MaxAhead + 1
  <2>1. cstart <= made
    BY <1>4, <1>9
  <2>2. made <= Expected' + MaxAhead + 1
    BY <1>4, <1>5, <1>9, StillWithin, Zenon
  <2> QED  BY <2>1, <2>2
<1> QED
  BY <1>1, <1>3, <1>4, <1>6, <1>8, <1>9, <1>10 DEF Limits
LEMMA LimitsStep == ResendInv /\ ResendInv' /\ Limits /\ [Next]_vars => Limits'
<1> SUFFICES ASSUME ResendInv, ResendInv', Limits, [Next]_vars
             PROVE  Limits'
  OBVIOUS
<1> HIDE DEF ResendInv
<1>0. Types
  BY DEF ResendInv
<1>1. CASE BuildNewTic
  BY <1>0, <1>1, BuildNewTicLimits
<1>2. CASE RunTic
  BY <1>0, <1>2, RunTicLimits
<1>3. ASSUME NEW expired \in SUBSET casked, NEW deadlocked \in BOOLEAN, NEW due \in BOOLEAN,
             ClientRun(expired, deadlocked, due)
      PROVE  Limits'
  BY <1>3, ClientRunLimits
<1>4. ASSUME NEW expired \in SUBSET asked, NEW silent \in BOOLEAN, ServerRun(expired, silent)
      PROVE  Limits'
  BY <1>4, ServerRunLimits
<1>5. ASSUME NEW kind \in Kinds, Deliver(kind)
      PROVE  Limits'
  <2>1. PICK m \in OfKind(wire, kind) :
               \/ kind = "upGame" /\ ServerParseGameDataACK(m)
               \/ kind = "upGame" /\ ServerParseGameData(m)
               \/ kind = "upResend" /\ ServerParseResendRequest(m)
               \/ kind = "downGame" /\ ClientParseGameData(m)
               \/ kind = "downResend" /\ ClientParseResendRequest(m)
    BY <1>5 DEF Deliver, Kinds
  <2> QED
    BY <2>1, ServerParseGameDataACKLimits, ServerParseGameDataLimits,
       ServerParseResendRequestLimits, ClientParseGameDataLimits, ClientParseResendRequestLimits
<1>6. ASSUME NEW m \in wire, Lose(m)
      PROVE  Limits'
  BY <1>0, <1>6, LoseLimits
<1>7. CASE UNCHANGED vars
  <2>1. UpBounded(wire', maketic, cstart)
    BY <1>7 DEF Limits, vars, clientVars, serverVars
  <2> QED  BY <1>0, <1>7, <2>1, WireLimits DEF vars, clientVars, serverVars
<1> QED
  BY <1>1, <1>2, <1>3, <1>4, <1>5, <1>6, <1>7 DEF Next

\* However the packets fare, the player, its game, the server's window and what was
\* acknowledged stay within MaxAhead and MaxUnacked of each other.
THEOREM LimitsHold == Spec => []Limits
<1>1. Init => ResendInv /\ Limits
  BY InitHolds, LimitsAtFirst
<1>2. ResendInv /\ Limits /\ [Next]_vars => (ResendInv /\ Limits)'
  <2> SUFFICES ASSUME ResendInv, Limits, [Next]_vars PROVE ResendInv' /\ Limits'
    OBVIOUS
  <2>1. ResendInv'
    BY StepHolds
  <2> HIDE DEF ResendInv
  <2> QED  BY <2>1, LimitsStep
<1> HIDE DEF ResendInv, Limits
<1> QED
  BY <1>1, <1>2, PTL DEF Spec

\* Expected is the first tic of the player that the server lacks: it lacks none that
\* was made when it expects one that was not.
LEMMA ExpectedIsMade ==
    ASSUME Types, Limits
    PROVE  Expected <= maketic /\ start <= Expected /\ Expected <= Larger(start, acked + MaxAhead + 1)
<1>1. /\ Expected \in start..start + BackupTics /\ start..Expected - 1 \subseteq have
  BY ExpectedIsNext DEF Types
<1>2. CASE Expected = start
  BY <1>1, <1>2, LimitNumbers DEF Limits, Larger
<1>3. CASE Expected # start
  <2>1. Expected - 1 \in have
    BY <1>1, <1>3, LimitNumbers
  <2>2. Expected - 1 < maketic /\ Expected - 1 <= acked + MaxAhead
    BY <2>1 DEF Limits
  <2> QED  BY <1>1, <2>2, LimitNumbers DEF Larger
<1> QED
  BY <1>2, <1>3

\* A request for the tic that an end waits for finds it in the queue of the other, and
\* what the server repeats by itself is in its own, for any windows and limits that
\* KeptAssumption allows: NET_SV_SendTics never comes upon a tic that is gone.
THEOREM WhatIsLackedIsKept == Spec => []StillKept
<1>1. ResendInv /\ Limits => StillKept
  <2> SUFFICES ASSUME ResendInv, Limits PROVE StillKept
    OBVIOUS
  <2>1. Types
    BY DEF ResendInv
  <2>2. Expected < maketic => Expected >= maketic - BackupTics
    BY <2>1, LimitNumbers, KeptAssumption DEF Limits
  <2>3. \A t \in Nat : acked <= t /\ t < sendseq => t \in InQueue
    BY <2>1, LimitNumbers, KeptAssumption DEF Limits, InQueue
  <2>4. acked \in Nat /\ acked <= cstart /\ cstart \in Nat /\ sendseq \in Nat
    BY <2>1, LimitNumbers DEF Limits
  <2> QED  BY <2>2, <2>3, <2>4 DEF StillKept
<1> HIDE DEF ResendInv, Limits
<1> QED
  BY <1>1, InvHolds, LimitsHold, PTL

\* Where everything has come and nobody may move, all numbers are equal but those of the
\* tics the player has made beyond them; then the server may send the next tic.
LEMMA NotDead == Types /\ Limits => NoDeadEnd
<1> SUFFICES ASSUME Types, Limits, gametic < MaxTics,
                    ~(maketic - gametic <= MaxAhead /\ maketic < MaxTics),
                    ~(gametic < Smaller(maketic, cstart)),
                    ~CanAdvance(start),
                    ~(Expected \in Window(start) /\ (Expected < maketic \/ acked < sendseq))
             PROVE  CanPump
  BY DEF NoDeadEnd
<1> USE LimitNumbers
<1>1. /\ start <= acked /\ acked <= cstart /\ cstart <= sendseq
      /\ gametic <= cstart /\ gametic <= maketic /\ maketic <= gametic + MaxAhead + 1
  BY DEF Limits
<1>2. Expected <= maketic /\ start <= Expected /\ Expected <= Larger(start, acked + MaxAhead + 1)
  BY ExpectedIsMade
<1>3. start..Expected - 1 \subseteq have
  BY ExpectedIsNext DEF Types
<1>4. start = acked \/ start = Expected
  <2> SUFFICES ASSUME start < acked, start < Expected PROVE FALSE
    BY <1>1, <1>2
  <2>1. start \in have
    BY <1>3
  <2>2. AllAcknowledged(start + 1)
    BY DEF AllAcknowledged
  <2> QED  BY <2>1, <2>2 DEF CanAdvance
<1>5. Expected \in Window(start)
  BY <1>2, <1>4, KeptAssumption DEF Window, Larger
<1>6. Expected = maketic /\ acked = sendseq /\ cstart = sendseq
  BY <1>1, <1>2, <1>5
<1>7. gametic < maketic
  BY <1>1, ResendAssumption
<1>8. gametic = sendseq
  <2>1. ~(gametic < maketic /\ gametic < cstart)
    BY DEF Smaller
  <2> QED  BY <1>1, <1>6, <1>7, <2>1
<1>9. start = sendseq
  BY <1>4, <1>6, <1>7, <1>8, <1>1
<1>10. AllAcknowledged(sendseq - MaxUnacked)
  BY <1>6, <1>7, <1>8 DEF AllAcknowledged
<1>11. sendseq \in Window(start)
  BY <1>9, ResendAssumption DEF Window
<1>12. OtherHas(sendseq)
  BY <1>6, <1>7, <1>8 DEF OtherHas
<1> QED
  BY <1>10, <1>11, <1>12 DEF CanPump

\* Whatever was lost, and however the two ends stand, one of them has something to do:
\* the limits on being ahead never hold both, and what is missing is in the window that
\* the server's CheckDeadlock looks at.
THEOREM NeverDead == Spec => []NoDeadEnd
<1>1. ResendInv => Types
  BY DEF ResendInv
<1> HIDE DEF ResendInv, Limits, Types, NoDeadEnd
<1> QED
  BY <1>1, NotDead, InvHolds, LimitsHold, PTL
=============================================================================
