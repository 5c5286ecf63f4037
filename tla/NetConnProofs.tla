---------------------------- MODULE NetConnProofs ----------------------------
(***************************************************************************)
(* Theorems about NetConn, for every SeqMod > 1, MaxRetries and MaxMsgs.   *)
(***************************************************************************)
EXTENDS NetConn, SequenceTheorems, TLAPS

-----------------------------------------------------------------------------
(* Type correctness.                                                       *)

Byte == 0..SeqMod - 1
Entry == [seq : Byte, msg : 1..MaxMsgs]
PacketSet == [to : Ends, type : PacketType, seq : Byte, msg : 0..MaxMsgs]

LEMMA PacketTyped ==
    ASSUME NEW e \in Ends, NEW t \in PacketType, NEW s \in Byte,
           NEW m \in 0..MaxMsgs
    PROVE  Packet(e, t, s, m) \in PacketSet
  BY DEF Packet, PacketSet

LEMMA PlainTyped ==
    ASSUME NEW e \in Ends, NEW t \in PacketType
    PROVE  Plain(e, t) \in PacketSet
  BY SeqModAssumption, BoundsAssumption DEF Plain, Packet, PacketSet, Byte

LEMMA PeerTyped == \A e \in Ends : Peer(e) \in Ends /\ Peer(Peer(e)) = e /\ Peer(e) # e
  BY DEF Peer, Ends

\* The successor of a sequence number, computed as the code does, is one.
LEMMA NextSeq == \A s \in Byte : (s + 1) % SeqMod \in Byte
  BY SeqModAssumption DEF Byte

LEMMA TypeFacts ==
    TypeOK <=>
    /\ life \in [Ends -> {"unborn", "open", "closed"}]
    /\ state \in [Ends -> ConnState]
    /\ reason \in [Ends -> Reason]
    /\ retries \in [Ends -> 0..MaxRetries]
    /\ queue \in [Ends -> Seq(Entry)]
    /\ sendSeq \in [Ends -> Byte]
    /\ recvSeq \in [Ends -> Byte]
    /\ net \in SUBSET PacketSet
    /\ submitted \in [Ends -> 0..MaxMsgs]
    /\ delivered \in [Ends -> Seq(1..MaxMsgs)]
  BY DEF TypeOK, Byte, Entry, PacketSet

LEMMA TypeNext ==
    ASSUME life' \in [Ends -> {"unborn", "open", "closed"}],
           state' \in [Ends -> ConnState],
           reason' \in [Ends -> Reason],
           retries' \in [Ends -> 0..MaxRetries],
           queue' \in [Ends -> Seq(Entry)],
           sendSeq' \in [Ends -> Byte],
           recvSeq' \in [Ends -> Byte],
           net' \in SUBSET PacketSet,
           submitted' \in [Ends -> 0..MaxMsgs],
           delivered' \in [Ends -> Seq(1..MaxMsgs)]
    PROVE  TypeOK'
  BY DEF TypeOK, Byte, Entry, PacketSet

LEMMA LastOfInterval == \A n \in Nat : \A i \in 1..(n + 1) : i \in 1..n \/ i = n + 1
  OBVIOUS

LEMMA InitTyped == Init => TypeOK
  BY SeqModAssumption, BoundsAssumption
     DEF Init, TypeOK, Ends, ConnState, Reason, PacketType

-----------------------------------------------------------------------------
(* Sequence numbers are counts modulo SeqMod.  Two counts less than SeqMod *)
(* apart that look the same on the wire are the same.                      *)

LEMMA TimesAtLeast ==
    ASSUME NEW m \in Nat, m > 0, NEW q \in Int, q >= 1
    PROVE  m * q >= m
  BY SMT

LEMMA ModSplit ==
    \A a \in Nat : /\ a \div SeqMod \in Int
                  /\ a % SeqMod \in Byte
                  /\ a = SeqMod * (a \div SeqMod) + (a % SeqMod)
  BY SeqModAssumption DEF Byte

\* A product with SeqMod that lies strictly between -SeqMod and SeqMod is 0.
LEMMA SmallMultiple ==
    ASSUME NEW q \in Int, SeqMod * q < SeqMod, SeqMod * q > -SeqMod
    PROVE  q = 0
<1>1. SeqMod \in Nat /\ SeqMod > 0
  BY SeqModAssumption
<1>2. CASE q >= 1
  BY <1>1, <1>2, TimesAtLeast
<1>3. CASE q <= -1
  <2>1. SeqMod * (-q) >= SeqMod
    BY <1>1, <1>3, TimesAtLeast
  <2>2. SeqMod * (-q) = -(SeqMod * q)
    BY <1>1
  <2> QED  BY <1>1, <2>1, <2>2
<1> QED  BY <1>1, <1>2, <1>3

LEMMA ModUnique ==
    ASSUME NEW a \in Nat, NEW q \in Int, NEW r \in Byte, a = SeqMod * q + r
    PROVE  a % SeqMod = r
<1> DEFINE qa == a \div SeqMod
           ra == a % SeqMod
<1>1. /\ qa \in Int /\ ra \in Byte /\ SeqMod \in Nat
      /\ a = SeqMod * qa + ra
  BY ModSplit, SeqModAssumption
<1> HIDE DEF qa, ra
<1>2. SeqMod * (qa - q) = r - ra
  BY <1>1 DEF Byte
<1>3. qa - q = 0
  BY <1>1, <1>2, SmallMultiple DEF Byte
<1> QED  BY <1>1, <1>2, <1>3 DEF Byte, ra

LEMMA ModInjective ==
    ASSUME NEW a \in Nat, NEW b \in Nat,
           a % SeqMod = b % SeqMod, a <= b, b - a < SeqMod
    PROVE  a = b
<1> DEFINE qa == a \div SeqMod
           qb == b \div SeqMod
<1>1. /\ qa \in Int /\ qb \in Int /\ a % SeqMod \in Int /\ SeqMod \in Nat
  BY ModSplit, SeqModAssumption DEF Byte
<1>2. a = SeqMod * qa + (a % SeqMod) /\ b = SeqMod * qb + (a % SeqMod)
  BY ModSplit
<1> HIDE DEF qa, qb
<1>3. b - a = SeqMod * (qb - qa)
  BY <1>1, <1>2
<1>4. qb - qa = 0
  BY <1>1, <1>3, SmallMultiple
<1> QED  BY <1>1, <1>3, <1>4

LEMMA ModSucc == \A a \in Nat : ((a % SeqMod) + 1) % SeqMod = (a + 1) % SeqMod
<1> SUFFICES ASSUME NEW a \in Nat
             PROVE  ((a % SeqMod) + 1) % SeqMod = (a + 1) % SeqMod
  OBVIOUS
<1> DEFINE q == a \div SeqMod
           r == a % SeqMod
<1>1. q \in Int /\ r \in Byte /\ SeqMod \in Nat /\ SeqMod > 1 /\ a = SeqMod * q + r
  BY ModSplit, SeqModAssumption
<1> HIDE DEF q, r
<1>2. CASE r + 1 < SeqMod
  <2>1. r + 1 \in Byte /\ r + 1 \in Nat
    BY <1>1, <1>2 DEF Byte
  <2>2. r + 1 = SeqMod * 0 + (r + 1)
    BY <1>1, <2>1
  <2>3. (r + 1) % SeqMod = r + 1
    BY <2>1, <2>2, ModUnique
  <2>4. a + 1 = SeqMod * q + (r + 1) /\ a + 1 \in Nat
    BY <1>1 DEF Byte
  <2>5. (a + 1) % SeqMod = r + 1
    BY <1>1, <2>1, <2>4, ModUnique
  <2> QED  BY <2>3, <2>5 DEF r
<1>3. CASE r + 1 = SeqMod
  <2>1. 0 \in Byte
    BY SeqModAssumption DEF Byte
  <2>2. r + 1 = SeqMod * 1 + 0 /\ r + 1 \in Nat
    BY <1>1, <1>3
  <2>3. (r + 1) % SeqMod = 0
    BY <2>1, <2>2, ModUnique
  <2>4. a + 1 = SeqMod * (q + 1) + 0 /\ a + 1 \in Nat /\ q + 1 \in Int
    BY <1>1, <1>3 DEF Byte
  <2>5. (a + 1) % SeqMod = 0
    BY <2>1, <2>4, ModUnique
  <2> QED  BY <2>3, <2>5 DEF r
<1> QED  BY <1>1, <1>2, <1>3 DEF Byte

-----------------------------------------------------------------------------
(* The inductive invariant: TypeOK /\ StopAndWait.                         *)

IInv == TypeOK /\ StopAndWait

LEMMA InitIInv == Init => IInv
<1> SUFFICES ASSUME Init PROVE StopAndWait
  BY InitTyped DEF IInv
<1>1. 0 % SeqMod = 0
  BY SeqModAssumption
<1>2. \A e \in Ends : Len(queue[e]) = 0 /\ Len(delivered[e]) = 0 /\ submitted[e] = 0
  BY DEF Init
<1> QED
  BY <1>1, <1>2, PeerTyped
     DEF Init, StopAndWait, Unborn, Counters, QueueNumbered, Window, InFlight,
         InOrderOnce, Acked, Ends

\* Steps that leave both lists and both counts alone, and put at most a packet
\* without a sequence number on the network.
QuietStep ==
    /\ UNCHANGED <<sendVars, recvVars>>
    /\ \/ net' = net
       \/ \E e \in Ends, t \in PacketType \ {"RELIABLE", "RELIABLE_ACK"} :
            net' = net \cup {Plain(e, t)}
    /\ life' \in [Ends -> {"unborn", "open", "closed"}]
    /\ state' \in [Ends -> ConnState]
    /\ reason' \in [Ends -> Reason]
    /\ retries' \in [Ends -> 0..MaxRetries]
    /\ life'["server"] = "unborn" => life["server"] = "unborn"

LEMMA QuietKeepsIInv == IInv /\ QuietStep => IInv'
<1> SUFFICES ASSUME IInv, QuietStep PROVE IInv'
  OBVIOUS
<1>1. TypeOK'
  <2>1. net' \in SUBSET PacketSet
    BY TypeFacts, PlainTyped DEF IInv, QuietStep
  <2> QED
    BY <2>1, TypeFacts
       DEF IInv, QuietStep, sendVars, recvVars, TypeOK, PacketSet, Byte
<1>2. (Unborn /\ Counters /\ QueueNumbered /\ Window /\ InOrderOnce)'
  BY DEF IInv, StopAndWait, QuietStep, sendVars, recvVars, Unborn, Counters,
         QueueNumbered, Window, InOrderOnce, Acked
<1>3. InFlight'
  BY DEF IInv, StopAndWait, QuietStep, sendVars, recvVars, InFlight, Acked,
         Plain, Packet
<1> QED  BY <1>1, <1>2, <1>3 DEF IInv, StopAndWait

\* NET_Conn_NewReliable keeps the list numbered.
LEMMA NewReliableKeepsIInv ==
    ASSUME NEW e \in Ends, IInv, NewReliable(e), submitted[e] < MaxMsgs,
           UNCHANGED <<recvVars, net, reason, retries>>,
           life' \in [Ends -> {"unborn", "open", "closed"}],
           state' \in [Ends -> ConnState],
           life'["server"] # "unborn" \/ (e = "client" /\ UNCHANGED life)
    PROVE  IInv'
<1> USE TypeFacts DEF IInv, StopAndWait
<1>1. submitted[e] \in Nat /\ submitted[e] + 1 \in 1..MaxMsgs /\ SeqMod \in Nat /\ SeqMod > 1
  BY SeqModAssumption, BoundsAssumption
<1>2. /\ submitted' = [submitted EXCEPT ![e] = submitted[e] + 1]
      /\ sendSeq' = [sendSeq EXCEPT ![e] = (sendSeq[e] + 1) % SeqMod]
      /\ queue' = [queue EXCEPT ![e] = Append(queue[e],
                     [seq |-> sendSeq[e], msg |-> submitted[e] + 1])]
  BY DEF NewReliable
<1> DEFINE new == [seq |-> sendSeq[e], msg |-> submitted[e] + 1]
<1>3. new \in Entry /\ queue[e] \in Seq(Entry) /\ sendSeq[e] \in Byte
  BY <1>1 DEF Entry
<1>4. /\ Append(queue[e], new) \in Seq(Entry)
      /\ Len(Append(queue[e], new)) = Len(queue[e]) + 1
      /\ \A i \in 1..Len(queue[e]) : Append(queue[e], new)[i] = queue[e][i]
      /\ Append(queue[e], new)[Len(queue[e]) + 1] = new
      /\ Len(queue[e]) \in Nat
  BY <1>3
<1>5. TypeOK'
  <2>1. queue' \in [Ends -> Seq(Entry)]
    BY <1>2, <1>4
  <2>2. sendSeq' \in [Ends -> Byte] /\ submitted' \in [Ends -> 0..MaxMsgs]
    BY <1>1, <1>2, <1>3, NextSeq
  <2> QED  BY <2>1, <2>2, TypeNext DEF recvVars
<1>6. Acked(e)' = Acked(e) /\ \A x \in Ends : Acked(x)' = Acked(x)
  <2>1. /\ submitted'[e] = submitted[e] + 1
        /\ Len(queue'[e]) = Len(queue[e]) + 1
    BY <1>2, <1>4
  <2>2. \A s, q \in Nat : (s + 1) - (q + 1) = s - q
    OBVIOUS
  <2>3. Acked(e)' = Acked(e)
    BY <1>1, <1>4, <2>1, <2>2 DEF Acked
  <2>4. ASSUME NEW x \in Ends, x # e PROVE Acked(x)' = Acked(x)
    BY <1>2, <2>4 DEF Acked
  <2> QED  BY <2>3, <2>4
<1>7. Counters'
  BY <1>1, <1>2, ModSucc DEF Counters, recvVars
<1>8. QueueNumbered'
  <2> SUFFICES ASSUME NEW x \in Ends
               PROVE  /\ Len(queue'[x]) <= submitted'[x]
                      /\ \A i \in 1..Len(queue'[x]) :
                           /\ queue'[x][i].msg = Acked(x) + i
                           /\ queue'[x][i].seq = (Acked(x) + i - 1) % SeqMod
    BY <1>6 DEF QueueNumbered
  <2>1. CASE x # e
    BY <1>2, <2>1 DEF QueueNumbered
  <2>2. CASE x = e
    <3>1. Len(queue[e]) <= submitted[e] /\ Acked(e) + Len(queue[e]) = submitted[e]
      BY <1>1, <1>4 DEF QueueNumbered, Acked
    <3>2. new.msg = Acked(e) + (Len(queue[e]) + 1) /\ new.seq = submitted[e] % SeqMod
      BY <1>1, <1>4, <3>1 DEF Counters, Acked
    <3>3. Acked(e) + (Len(queue[e]) + 1) - 1 = submitted[e]
      BY <1>1, <1>4, <3>1 DEF Acked
    <3>4. \A i \in 1..(Len(queue[e]) + 1) : i \in 1..Len(queue[e]) \/ i = Len(queue[e]) + 1
      BY <1>4, LastOfInterval
    <3>5. queue'[e] = Append(queue[e], new) /\ submitted'[e] = submitted[e] + 1
      BY <1>2
    <3>6. ASSUME NEW i \in 1..(Len(queue[e]) + 1)
          PROVE  /\ Append(queue[e], new)[i].msg = Acked(e) + i
                 /\ Append(queue[e], new)[i].seq = (Acked(e) + i - 1) % SeqMod
      <4>1. CASE i \in 1..Len(queue[e])
        BY <1>4, <4>1 DEF QueueNumbered
      <4>2. CASE i = Len(queue[e]) + 1
        BY <1>4, <3>2, <3>3, <4>2
      <4> QED  BY <3>4, <4>1, <4>2
    <3> QED  BY <1>1, <1>4, <2>2, <3>1, <3>5, <3>6
  <2> QED  BY <2>1, <2>2
<1>9. \A x \in Ends : /\ submitted[x] \in Nat /\ submitted'[x] \in Nat
                       /\ submitted'[x] >= submitted[x]
  BY <1>1, <1>2, SMTT(20)
<1>10. Window' /\ InOrderOnce'
  <2>1. \A x \in Ends : Len(delivered[Peer(x)]) \in Nat
    BY PeerTyped
  <2>2. ASSUME NEW x \in Ends
        PROVE  /\ Acked(x) <= Len(delivered[Peer(x)])
               /\ Len(delivered[Peer(x)]) <= Acked(x) + 1
               /\ Len(delivered[Peer(x)]) <= submitted'[x]
    BY <1>9, <2>1, SMTT(20) DEF Window
  <2>3. Window'
    BY <1>6, <2>2 DEF Window, recvVars
  <2> QED  BY <2>3 DEF InOrderOnce, recvVars
<1>11. InFlight'
  <2> SUFFICES ASSUME NEW p \in net, p.type = "RELIABLE", p.msg <= submitted[Peer(p.to)]
               PROVE  p.msg <= submitted'[Peer(p.to)]
    BY <1>6, PeerTyped DEF InFlight, recvVars, PacketSet
  <2>1. p.msg \in Nat /\ Peer(p.to) \in Ends
    BY PeerTyped, BoundsAssumption DEF PacketSet
  <2> QED  BY <1>9, <2>1, SMTT(20)
<1>12. Unborn'
  BY <1>2 DEF Unborn, Ends
<1> QED  BY <1>5, <1>7, <1>8, <1>10, <1>11, <1>12

\* A packet from the list carries the message after the last acknowledged one.
LEMMA HeadTyped ==
    ASSUME NEW e \in Ends, IInv, queue[e] # << >>
    PROVE  /\ HeadPacket(e) \in PacketSet
           /\ HeadPacket(e) = Packet(Peer(e), "RELIABLE", Acked(e) % SeqMod,
                                     Acked(e) + 1)
           /\ Acked(e) \in Nat /\ Acked(e) + 1 <= submitted[e]
<1> USE TypeFacts DEF IInv, StopAndWait
<1>1. /\ queue[e] \in Seq(Entry) /\ Head(queue[e]) \in Entry
      /\ Head(queue[e]) = queue[e][1] /\ 1 \in 1..Len(queue[e])
      /\ Len(queue[e]) \in Nat /\ submitted[e] \in Nat
  OBVIOUS
<1>2. Acked(e) \in Nat /\ Acked(e) + 1 <= submitted[e]
  BY <1>1 DEF QueueNumbered, Acked
<1>3. /\ queue[e][1].msg = Acked(e) + 1
      /\ queue[e][1].seq = (Acked(e) + 1 - 1) % SeqMod
      /\ Acked(e) + 1 - 1 = Acked(e)
  BY <1>1, <1>2 DEF QueueNumbered
<1>4. /\ queue[e][1].msg \in 0..MaxMsgs /\ queue[e][1].seq \in Byte
      /\ "RELIABLE" \in PacketType
  BY <1>1 DEF Entry, PacketType
<1> QED
  BY <1>1, <1>2, <1>3, <1>4, PeerTyped, PacketTyped DEF HeadPacket

LEMMA ResendKeepsIInv ==
    ASSUME NEW e \in Ends, IInv, queue[e] # << >>,
           net' = net \cup {HeadPacket(e)},
           UNCHANGED <<sendVars, recvVars, retries>>,
           life' \in [Ends -> {"unborn", "open", "closed"}],
           state' \in [Ends -> ConnState],
           reason' \in [Ends -> Reason],
           life'["server"] = "unborn" => life["server"] = "unborn"
    PROVE  IInv'
<1> USE TypeFacts DEF IInv, StopAndWait
<1>1. TypeOK'
  <2>1. net' \in SUBSET PacketSet
    BY HeadTyped
  <2> QED  BY <2>1, TypeNext DEF sendVars, recvVars
<1>2. (Unborn /\ Counters /\ QueueNumbered /\ Window /\ InOrderOnce)'
  BY DEF sendVars, recvVars, Unborn, Counters, QueueNumbered, Window,
         InOrderOnce, Acked
<1>3. InFlight'
  <2> SUFFICES ASSUME NEW p \in net', p = HeadPacket(e)
               PROVE  /\ p.type = "RELIABLE"
                      /\ p.msg >= 1 /\ p.msg <= Acked(Peer(p.to)) + 1
                      /\ p.msg <= submitted[Peer(p.to)]
                      /\ p.seq = (p.msg - 1) % SeqMod
    BY DEF InFlight, sendVars, recvVars, Acked
  <2>1. /\ p.type = "RELIABLE" /\ p.to = Peer(e) /\ Peer(p.to) = e
        /\ p.seq = Acked(e) % SeqMod /\ p.msg = Acked(e) + 1
    BY HeadTyped, PeerTyped, SMTT(20) DEF Packet
  <2>2. p.msg - 1 = Acked(e) /\ Acked(e) \in Nat /\ Acked(e) + 1 <= submitted[e]
    BY <2>1, HeadTyped
  <2> QED  BY <2>1, <2>2
<1> QED  BY <1>1, <1>2, <1>3

\* A packet accepted carries the very next message: its number is at most one
\* above the count of those delivered, it is fresh, and its byte is the one
\* expected.
LEMMA AcceptedIsNext ==
    ASSUME NEW e \in Ends, NEW p \in net, IInv, ReliableInSequence(e, p)
    PROVE  /\ p.msg = Len(delivered[e]) + 1
           /\ p.msg <= Acked(Peer(e)) + 1 /\ p.msg <= submitted[Peer(e)]
<1> USE TypeFacts DEF IInv, StopAndWait
<1>1. /\ p.to = e /\ p.type = "RELIABLE" /\ p.seq = recvSeq[e]
      /\ Len(delivered[e]) - p.msg < SeqMod - 1
  BY DEF ReliableInSequence, Receives, Fresh
<1>2. /\ p.msg \in Nat /\ p.msg >= 1 /\ p.seq = (p.msg - 1) % SeqMod
      /\ p.msg <= Acked(Peer(e)) + 1 /\ p.msg <= submitted[Peer(e)]
  BY <1>1, BoundsAssumption DEF InFlight, PacketSet
<1>3. recvSeq[e] = Len(delivered[e]) % SeqMod /\ Len(delivered[e]) \in Nat
  BY DEF Counters
<1>4. Acked(Peer(e)) <= Len(delivered[e])
  BY PeerTyped DEF Window
<1>5. Acked(Peer(e)) \in Int
  BY PeerTyped DEF Acked
<1>6. p.msg - 1 <= Len(delivered[e]) /\ p.msg - 1 \in Nat
  BY <1>2, <1>3, <1>4, <1>5
<1>7. Len(delivered[e]) - (p.msg - 1) < SeqMod
  BY <1>1, <1>2, <1>3, SeqModAssumption, SMTT(20)
<1>8. p.msg - 1 = Len(delivered[e])
  BY <1>1, <1>2, <1>3, <1>6, <1>7, ModInjective
<1> QED  BY <1>2, <1>3, <1>8

\* The ACK of a packet: what NET_Conn_ReliablePacket sends, once recvSeq and
\* delivered have their new values.
LEMMA AckTyped ==
    ASSUME NEW e \in Ends, NEW n \in 0..MaxMsgs
    PROVE  Packet(Peer(e), "RELIABLE_ACK", n % SeqMod, n) \in PacketSet
  BY ModSplit, PeerTyped, BoundsAssumption DEF Packet, PacketSet, PacketType

LEMMA InSequenceKeepsIInv ==
    ASSUME NEW e \in Ends, NEW p \in net, IInv, ReliableInSequence(e, p)
    PROVE  IInv'
<1> USE TypeFacts DEF IInv, StopAndWait
<1> DEFINE n == Len(delivered[e])
           ack == Packet(Peer(e), "RELIABLE_ACK", (n + 1) % SeqMod, n + 1)
<1>1. /\ p.msg = n + 1 /\ n + 1 <= Acked(Peer(e)) + 1
      /\ n + 1 <= submitted[Peer(e)] /\ n \in Nat /\ Acked(Peer(e)) \in Int
      /\ submitted[Peer(e)] \in 0..MaxMsgs
  BY AcceptedIsNext, PeerTyped DEF Acked
<1>2. n + 1 \in 1..MaxMsgs
  BY <1>1, BoundsAssumption, SMTT(20)
<1>3. recvSeq[e] = n % SeqMod /\ (recvSeq[e] + 1) % SeqMod = (n + 1) % SeqMod
  BY <1>1, ModSucc DEF Counters
<1>4. /\ recvSeq' = [recvSeq EXCEPT ![e] = (n + 1) % SeqMod]
      /\ delivered' = [delivered EXCEPT ![e] = Append(delivered[e], n + 1)]
      /\ net' = net \cup {ack}
      /\ UNCHANGED <<life, reason, retries, sendVars>>
      /\ state' \in [Ends -> ConnState]
  BY <1>1, <1>3 DEF ReliableInSequence, ConnState, Ends
<1>5. (n + 1) % SeqMod \in Byte
  BY <1>1, ModSplit
<1>6. /\ delivered'[e] \in Seq(1..MaxMsgs) /\ Len(delivered'[e]) = n + 1
      /\ \A i \in 1..n : delivered'[e][i] = delivered[e][i]
      /\ delivered'[e][n + 1] = n + 1
  BY <1>1, <1>2, <1>4
<1>7. TypeOK'
  <2>1. delivered' \in [Ends -> Seq(1..MaxMsgs)] /\ recvSeq' \in [Ends -> Byte]
    BY <1>2, <1>4, <1>5, <1>6
  <2>2. net' \in SUBSET PacketSet
    BY <1>2, <1>4, AckTyped
  <2> QED  BY <1>4, <2>1, <2>2, TypeNext DEF sendVars
<1>8. \A x \in Ends : Acked(x)' = Acked(x)
  BY <1>4 DEF Acked, sendVars
<1>9. \A x \in Ends : x # e => delivered'[x] = delivered[x] /\ recvSeq'[x] = recvSeq[x]
  BY <1>4
<1>10. Unborn' /\ QueueNumbered'
  BY <1>4, <1>8 DEF Unborn, QueueNumbered, sendVars
<1>11. Counters'
  BY <1>4, <1>6, <1>9 DEF Counters, sendVars
<1>12. Window'
  <2> SUFFICES ASSUME NEW x \in Ends
               PROVE  /\ Acked(x) <= Len(delivered'[Peer(x)])
                      /\ Len(delivered'[Peer(x)]) <= Acked(x) + 1
                      /\ Len(delivered'[Peer(x)]) <= submitted[x]
    BY <1>4, <1>8 DEF Window, sendVars
  <2>1. CASE Peer(x) = e
    <3>1. x = Peer(e) /\ Acked(x) <= n
      BY <2>1, PeerTyped DEF Window
    <3> QED  BY <1>1, <1>6, <2>1, <3>1
  <2>2. CASE Peer(x) # e
    BY <1>9, <2>2, PeerTyped DEF Window
  <2> QED  BY <2>1, <2>2
<1>13. InOrderOnce'
  <2>1. \A i \in 1..(n + 1) : delivered'[e][i] = i
    BY <1>1, <1>6, LastOfInterval DEF InOrderOnce
  <2> QED  BY <1>6, <1>9, <2>1 DEF InOrderOnce
<1>14. InFlight'
  <2>0. \A x \in Ends : Len(delivered[x]) \in Nat
    OBVIOUS
  <2>1. \A x \in Ends : Len(delivered'[x]) >= Len(delivered[x]) /\ Len(delivered[x]) \in Nat
    <3>1. Len(delivered'[e]) = Len(delivered[e]) + 1
      BY <1>6
    <3>2. \A x \in Ends : x # e => Len(delivered'[x]) = Len(delivered[x])
      BY <1>9
    <3>3. \A k \in Nat : k + 1 >= k /\ k >= k
      OBVIOUS
    <3> QED  BY <2>0, <3>1, <3>2, <3>3
  <2>2. ASSUME NEW q \in net, q.type = "RELIABLE_ACK"
        PROVE  q.msg <= Len(delivered'[Peer(q.to)]) /\ q.seq = q.msg % SeqMod
    <3>1. q.msg \in Nat /\ q.to \in Ends
      BY BoundsAssumption, SMTT(20) DEF PacketSet
    <3>2. q.msg <= Len(delivered[Peer(q.to)]) /\ q.seq = q.msg % SeqMod
      BY <2>2 DEF InFlight
    <3> QED
      BY <2>1, <3>1, <3>2, PeerTyped, <1>6, <1>9, SMTT(20)
  <2>3. /\ ack.type = "RELIABLE_ACK" /\ ack.msg = n + 1 /\ Peer(ack.to) = e
        /\ ack.seq = ack.msg % SeqMod
    BY PeerTyped DEF Packet
  <2>4. ack.msg <= Len(delivered'[Peer(ack.to)])
    BY <1>1, <1>6, <2>3
  <2>5. \A q \in net : Peer(q.to) \in Ends
    BY PeerTyped DEF PacketSet
  <2>6. \A q \in net : Acked(Peer(q.to))' = Acked(Peer(q.to))
    BY <1>8, <2>5
  <2> HIDE DEF ack
  <2>7. submitted' = submitted /\ net' = net \cup {ack}
    BY <1>4 DEF sendVars
  <2>8. \A q \in net' : q.type = "RELIABLE" => q \in net
    BY <2>3, <2>7
  <2>9. \A q \in net' : q.type = "RELIABLE_ACK" =>
                q.msg <= Len(delivered'[Peer(q.to)]) /\ q.seq = q.msg % SeqMod
    BY <2>2, <2>3, <2>4, <2>7
  <2>10. \A q \in net' : q.type = "RELIABLE" =>
                /\ q.msg >= 1 /\ q.msg <= Acked(Peer(q.to)) + 1
                /\ q.msg <= submitted[Peer(q.to)] /\ q.seq = (q.msg - 1) % SeqMod
    BY <2>8 DEF InFlight
  <2> QED  BY <2>6, <2>7, <2>8, <2>9, <2>10 DEF InFlight
<1> QED  BY <1>7, <1>10, <1>11, <1>12, <1>13, <1>14

\* A discarded packet is answered with the count so far.
LEMMA OutOfSequenceKeepsIInv ==
    ASSUME NEW e \in Ends, NEW p \in net, IInv, ReliableOutOfSequence(e, p)
    PROVE  IInv'
<1> USE TypeFacts DEF IInv, StopAndWait
<1> DEFINE n == Len(delivered[e])
           ack == Packet(Peer(e), "RELIABLE_ACK", recvSeq[e], n)
<1>1. /\ net' = net \cup {ack}
      /\ UNCHANGED <<life, state, reason, retries, sendVars, recvVars>>
  BY DEF ReliableOutOfSequence, connVars
<1>2. n \in Nat /\ n <= submitted[Peer(e)] /\ submitted[Peer(e)] \in 0..MaxMsgs
  BY PeerTyped DEF Window
<1>3. n \in 0..MaxMsgs /\ recvSeq[e] = n % SeqMod
  BY <1>2, BoundsAssumption DEF Counters
<1>4. TypeOK'
  <2>1. net' \in SUBSET PacketSet
    BY <1>1, <1>3, AckTyped
  <2> QED  BY <1>1, <2>1, TypeNext DEF sendVars, recvVars
<1>5. (Unborn /\ Counters /\ QueueNumbered /\ Window /\ InOrderOnce)'
  BY <1>1 DEF sendVars, recvVars, Unborn, Counters, QueueNumbered, Window,
              InOrderOnce, Acked
<1>6. InFlight'
  <2>1. /\ ack.type = "RELIABLE_ACK" /\ ack.msg = n /\ Peer(ack.to) = e
        /\ ack.seq = ack.msg % SeqMod
    BY <1>3, PeerTyped DEF Packet
  <2>2. ack.msg <= Len(delivered[Peer(ack.to)])
    BY <1>2, <2>1
  <2> HIDE DEF ack
  <2> QED  BY <1>1, <2>1, <2>2 DEF InFlight, sendVars, recvVars, Acked
<1> QED  BY <1>4, <1>5, <1>6

\* An ACK accepted is of the oldest message of the list, and the peer had it.
LEMMA AckedIsDelivered ==
    ASSUME NEW e \in Ends, NEW p \in net, IInv, ParseReliableACK(e, p)
    PROVE  Len(delivered[Peer(e)]) = Acked(e) + 1
<1> USE TypeFacts DEF IInv, StopAndWait
<1> DEFINE a == Acked(e) + 1
<1>1. /\ p.to = e /\ p.type = "RELIABLE_ACK" /\ queue[e] # << >>
      /\ p.seq = (Head(queue[e]).seq + 1) % SeqMod
      /\ a - p.msg < SeqMod
  <2>1. /\ p.to = e /\ p.type = "RELIABLE_ACK" /\ queue[e] # << >>
        /\ p.seq = (Head(queue[e]).seq + 1) % SeqMod
        /\ Fresh(p)
    BY DEF ParseReliableACK, Receives
  <2>2. (Acked(p.to) + 1) - p.msg < SeqMod
    BY <2>1 DEF Fresh
  <2> QED  BY <2>1, <2>2
<1>2. p.msg \in Nat /\ p.seq = p.msg % SeqMod /\ p.msg <= Len(delivered[Peer(e)])
  BY <1>1, BoundsAssumption DEF InFlight, PacketSet
<1>3. Head(queue[e]).seq = Acked(e) % SeqMod /\ Acked(e) \in Nat
  BY <1>1, HeadTyped DEF HeadPacket, Packet
<1>4. p.msg % SeqMod = a % SeqMod
  BY <1>1, <1>2, <1>3, ModSucc
<1>5. Len(delivered[Peer(e)]) \in Nat /\ Len(delivered[Peer(e)]) <= a
  BY PeerTyped DEF Window
<1>6. a \in Nat /\ p.msg <= a
  BY <1>2, <1>3, <1>5
<1>7. p.msg = a
  BY <1>1, <1>2, <1>4, <1>6, ModInjective
<1> QED  BY <1>2, <1>5, <1>6, <1>7

LEMMA ReliableACKKeepsIInv ==
    ASSUME NEW e \in Ends, NEW p \in net, IInv, ParseReliableACK(e, p)
    PROVE  IInv'
<1> USE TypeFacts DEF IInv, StopAndWait
<1>1. /\ queue[e] # << >> /\ queue' = [queue EXCEPT ![e] = Tail(queue[e])]
      /\ UNCHANGED <<life, state, reason, retries, recvVars, net, sendSeq, submitted>>
  BY DEF ParseReliableACK, connVars
<1>2. /\ queue[e] \in Seq(Entry) /\ Tail(queue[e]) \in Seq(Entry)
      /\ Len(queue[e]) \in Nat /\ Len(Tail(queue[e])) = Len(queue[e]) - 1
      /\ \A i \in 1..Len(Tail(queue[e])) : Tail(queue[e])[i] = queue[e][i + 1]
      /\ submitted[e] \in Nat
  BY <1>1
<1>3. TypeOK'
  <2>1. queue' \in [Ends -> Seq(Entry)]
    BY <1>1, <1>2
  <2> QED  BY <1>1, <2>1, TypeNext DEF recvVars
<1>4. /\ Acked(e)' = Acked(e) + 1 /\ Acked(e) \in Nat
      /\ \A x \in Ends : x # e => Acked(x)' = Acked(x)
  BY <1>1, <1>2, HeadTyped DEF Acked
<1>5. Unborn' /\ Counters' /\ InOrderOnce'
  BY <1>1 DEF Unborn, Counters, InOrderOnce, recvVars
<1>6. QueueNumbered'
  <2>1. \A x \in Ends : x # e => queue'[x] = queue[x]
    BY <1>1
  <2>2. queue'[e] = Tail(queue[e]) /\ Len(queue'[e]) <= submitted[e]
    BY <1>1, <1>2 DEF QueueNumbered
  <2>3. ASSUME NEW i \in 1..Len(Tail(queue[e]))
        PROVE  /\ Tail(queue[e])[i].msg = Acked(e) + 1 + i
               /\ Tail(queue[e])[i].seq = (Acked(e) + 1 + i - 1) % SeqMod
    <3>1. i + 1 \in 1..Len(queue[e]) /\ Tail(queue[e])[i] = queue[e][i + 1]
      BY <1>2
    <3>2. /\ queue[e][i + 1].msg = Acked(e) + (i + 1)
          /\ queue[e][i + 1].seq = (Acked(e) + (i + 1) - 1) % SeqMod
      BY <3>1 DEF QueueNumbered
    <3>3. /\ Acked(e) + (i + 1) = Acked(e) + 1 + i
          /\ Acked(e) + (i + 1) - 1 = Acked(e) + 1 + i - 1
      <4>1. \A a, k \in Int : a + (k + 1) = a + 1 + k /\ a + (k + 1) - 1 = a + 1 + k - 1
        OBVIOUS
      <4>2. Acked(e) \in Int /\ i \in Int
        BY <1>4
      <4> QED  BY <4>1, <4>2
    <3> QED  BY <3>1, <3>2, <3>3
  <2>4. \A i \in 1..Len(queue'[e]) : /\ queue'[e][i].msg = Acked(e)' + i
                                   /\ queue'[e][i].seq = (Acked(e)' + i - 1) % SeqMod
    BY <1>4, <2>2, <2>3
  <2> QED  BY <1>1, <1>4, <2>1, <2>2, <2>4, SMTT(20) DEF QueueNumbered
<1>7. Window'
  <2>1. ASSUME NEW x \in Ends
        PROVE  /\ Acked(x)' <= Len(delivered[Peer(x)])
               /\ Len(delivered[Peer(x)]) <= Acked(x)' + 1
               /\ Len(delivered[Peer(x)]) <= submitted[x]
    <3>1. CASE x = e
      <4>1. /\ Acked(x)' = Acked(x) + 1 /\ Acked(x) \in Nat
            /\ Len(delivered[Peer(x)]) = Acked(x) + 1
        BY <1>4, <3>1, AckedIsDelivered
      <4>2. Len(delivered[Peer(x)]) <= submitted[x]
        BY DEF Window
      <4> QED  BY <4>1, <4>2
    <3>2. CASE x # e
      BY <1>4, <3>2 DEF Window
    <3> QED  BY <3>1, <3>2
  <2> QED  BY <1>1, <2>1 DEF Window, recvVars
<1>8. InFlight'
  <2>0. \A x \in Ends : Acked(x) \in Int
    BY DEF Acked
  <2>1. \A x \in Ends : Acked(x) \in Int /\ Acked(x)' \in Int /\ Acked(x)' >= Acked(x)
    <3>1. \A k \in Int : k + 1 \in Int /\ k + 1 >= k /\ k >= k
      OBVIOUS
    <3>2. \A x \in Ends : Acked(x)' = Acked(x) \/ Acked(x)' = Acked(x) + 1
      BY <1>4
    <3> QED  BY <2>0, <3>1, <3>2
  <2>2. ASSUME NEW q \in net, q.type = "RELIABLE"
        PROVE  q.msg <= Acked(Peer(q.to))' + 1
    <3>1. Peer(q.to) \in Ends /\ q.msg \in Nat /\ q.msg <= Acked(Peer(q.to)) + 1
      BY <2>2, PeerTyped, BoundsAssumption, SMTT(20) DEF InFlight, PacketSet
    <3> QED  BY <2>1, <3>1, SMTT(20)
  <2> QED  BY <1>1, <2>2 DEF InFlight, recvVars
<1> QED  BY <1>3, <1>5, <1>6, <1>7, <1>8

\* Every step keeps the invariant.
LEMMA NextKeepsIInv == IInv /\ [Next]_vars => IInv'
<1> SUFFICES ASSUME IInv, [Next]_vars PROVE IInv'
  OBVIOUS
<1> USE TypeFacts
<1>1. CASE ClientSendSYN
  <2>1. QuietStep
    BY <1>1 DEF ClientSendSYN, QuietStep, connVars, IInv, Ends, PacketType
  <2> QED  BY <2>1, QuietKeepsIInv
<1>2. CASE ClientConnectTimeout
  <2>1. QuietStep
    BY <1>2 DEF ClientConnectTimeout, QuietStep, IInv, Ends
  <2> QED  BY <2>1, QuietKeepsIInv
<1>3. CASE ClientParseReject
  <2>1. QuietStep
    BY <1>3 DEF ClientParseReject, QuietStep, IInv, ConnState, Reason
  <2> QED  BY <2>1, QuietKeepsIInv
<1>4. CASE ServerAcceptSYN
  <2>1. submitted["server"] < MaxMsgs
    BY <1>4, BoundsAssumption DEF ServerAcceptSYN, IInv, StopAndWait, Unborn
  <2> QED
    BY <1>4, <2>1, NewReliableKeepsIInv
       DEF ServerAcceptSYN, IInv, ConnState, Ends
<1>5. CASE ServerRejectSYN
  <2>1. QuietStep
    BY <1>5 DEF ServerRejectSYN, QuietStep, connVars, IInv, Ends, PacketType
  <2> QED  BY <2>1, QuietKeepsIInv
<1>6. ASSUME NEW e \in Ends, NEW p \in net, Receive(e, p)
      PROVE  IInv'
  <2>1. CASE ReliableInSequence(e, p)
    BY <2>1, InSequenceKeepsIInv
  <2>2. CASE ReliableOutOfSequence(e, p)
    BY <2>2, OutOfSequenceKeepsIInv
  <2>3. CASE ParseReliableACK(e, p)
    BY <2>3, ReliableACKKeepsIInv
  <2>4. CASE ParseDisconnect(e, p)
    <3>1. QuietStep
      BY <2>4, PeerTyped
         DEF ParseDisconnect, QuietStep, IInv, PacketType, ConnState, Reason
    <3> QED  BY <3>1, QuietKeepsIInv
  <2>5. CASE ParseDisconnectACK(e, p)
    <3>1. QuietStep
      BY <2>5 DEF ParseDisconnectACK, QuietStep, IInv, ConnState, Reason
    <3> QED  BY <3>1, QuietKeepsIInv
  <2> QED  BY <1>6, <2>1, <2>2, <2>3, <2>4, <2>5 DEF Receive
<1>7. ASSUME NEW e \in Ends, Run(e)
      PROVE  IInv'
  <2>1. CASE RunResend(e)
    BY <2>1, ResendKeepsIInv DEF RunResend, connVars, IInv
  <2>2. CASE RunTimeout(e)
    <3>1. /\ life' \in [Ends -> {"unborn", "open", "closed"}]
          /\ state' \in [Ends -> ConnState] /\ reason' \in [Ends -> Reason]
          /\ UNCHANGED <<retries, sendVars, recvVars>>
          /\ life'["server"] = "unborn" => life["server"] = "unborn"
      BY <2>2 DEF RunTimeout, IInv, ConnState, Reason
    <3>2. CASE queue[e] # << >> /\ net' = net \cup {HeadPacket(e)}
      BY <3>1, <3>2, ResendKeepsIInv
    <3>3. CASE net' = net
      <4>1. QuietStep
        BY <3>1, <3>3 DEF QuietStep, IInv
      <4> QED  BY <4>1, QuietKeepsIInv
    <3> QED  BY <2>2, <3>2, <3>3 DEF RunTimeout
  <2>3. CASE RunDisconnecting(e)
    <3>1. CASE retries[e] < MaxRetries
      <4>1. retries[e] + 1 \in 0..MaxRetries
        BY <3>1, BoundsAssumption DEF IInv
      <4>2. /\ net' = net \cup {Plain(Peer(e), "DISCONNECT")}
            /\ retries' = [retries EXCEPT ![e] = retries[e] + 1]
            /\ UNCHANGED <<life, state, reason, sendVars, recvVars>>
        BY <2>3, <3>1 DEF RunDisconnecting
      <4>3. retries' \in [Ends -> 0..MaxRetries]
        BY <4>1, <4>2 DEF IInv
      <4>4. QuietStep
        BY <4>2, <4>3, PeerTyped DEF QuietStep, IInv, PacketType
      <4> QED  BY <4>4, QuietKeepsIInv
    <3>2. CASE ~(retries[e] < MaxRetries)
      <4>0. /\ life' = [life EXCEPT ![e] = "closed"]
            /\ life' \in [Ends -> {"unborn", "open", "closed"}]
            /\ state' \in [Ends -> ConnState] /\ reason' \in [Ends -> Reason]
            /\ UNCHANGED <<net, retries, sendVars, recvVars>>
        BY <2>3, <3>2 DEF RunDisconnecting, IInv, ConnState, Reason
      <4>1. QuietStep
        BY <4>0 DEF QuietStep, IInv
      <4> QED  BY <4>1, QuietKeepsIInv
    <3> QED  BY <3>1, <3>2
  <2>4. CASE RunSleep(e)
    <3>1. life' \in [Ends -> {"unborn", "open", "closed"}]
          /\ (life'["server"] = "unborn" => life["server"] = "unborn")
      BY <2>4 DEF RunSleep, IInv
    <3>2. state' \in [Ends -> ConnState]
      BY <2>4 DEF RunSleep, IInv, ConnState
    <3>3. QuietStep
      BY <2>4, <3>1, <3>2 DEF RunSleep, QuietStep, IInv
    <3> QED  BY <3>3, QuietKeepsIInv
  <2>5. CASE RunDisconnected(e)
    <3>1. QuietStep
      BY <2>5 DEF RunDisconnected, QuietStep, IInv
    <3> QED  BY <3>1, QuietKeepsIInv
  <2> QED  BY <1>7, <2>1, <2>2, <2>3, <2>4, <2>5 DEF Run
<1>8. ASSUME NEW e \in Ends, Submit(e)
      PROVE  IInv'
  <2>1. /\ submitted[e] < MaxMsgs /\ NewReliable(e) /\ life[e] = "open"
        /\ UNCHANGED <<life, state, reason, retries, recvVars, net>>
    BY <1>8 DEF Submit, Connected, connVars
  <2>2. life["server"] # "unborn" \/ e = "client"
    BY <2>1 DEF Ends
  <2> QED  BY <2>1, <2>2, NewReliableKeepsIInv DEF IInv
<1>9. ASSUME NEW e \in Ends, Disconnect(e) \/ GiveUpDisconnecting(e) \/ Crash(e)
      PROVE  IInv'
  <2>1. CASE Disconnect(e)
    <3>1. 0 \in 0..MaxRetries
      BY BoundsAssumption
    <3>2. QuietStep
      BY <2>1, <3>1 DEF Disconnect, QuietStep, IInv, ConnState, Reason
    <3> QED  BY <3>2, QuietKeepsIInv
  <2>2. CASE GiveUpDisconnecting(e) \/ Crash(e)
    <3>0. /\ life' = [life EXCEPT ![e] = "closed"]
          /\ UNCHANGED <<state, reason, retries, net, sendVars, recvVars>>
      BY <2>2 DEF GiveUpDisconnecting, Crash
    <3>1. QuietStep
      BY <3>0 DEF QuietStep, IInv
    <3> QED  BY <3>1, QuietKeepsIInv
  <2> QED  BY <1>9, <2>1, <2>2
<1>10. CASE UNCHANGED vars
  <2>1. QuietStep
    BY <1>10 DEF vars, QuietStep, sendVars, recvVars, IInv
  <2> QED  BY <2>1, QuietKeepsIInv
<1> QED
  BY <1>1, <1>2, <1>3, <1>4, <1>5, <1>6, <1>7, <1>8, <1>9, <1>10 DEF Next

\* Type correctness: in particular no count passes its bound, and the byte of a
\* sequence number stays a byte.
THEOREM TypeCorrect == Spec => []TypeOK
<1>1. IInv => TypeOK
  BY DEF IInv
<1> QED  BY InitIInv, NextKeepsIInv, <1>1, PTL DEF Spec

\* The strengthening itself: see StopAndWait in NetConn.
THEOREM StopAndWaitHolds == Spec => []StopAndWait
<1>1. IInv => StopAndWait
  BY DEF IInv
<1> QED  BY InitIInv, NextKeepsIInv, <1>1, PTL DEF Spec

\* NET_Conn_ReliablePacket: each end's handlers get the peer's messages in
\* order, none twice and none skipped, over a network that loses, duplicates
\* and reorders packets.
THEOREM DeliveredInOrderOnce == Spec => []InOrderOnce
<1>1. IInv => InOrderOnce
  BY DEF IInv, StopAndWait
<1> QED  BY InitIInv, NextKeepsIInv, <1>1, PTL DEF Spec

\* NET_Conn_ParseReliableACK: a message leaves the list only once the peer's
\* handlers had it.
THEOREM NothingLost == Spec => []NoneLost
<1>1. IInv => NoneLost
  BY DEF IInv, StopAndWait, Window, NoneLost
<1> QED  BY InitIInv, NextKeepsIInv, <1>1, PTL DEF Spec

-----------------------------------------------------------------------------
(* The hang-up handshake.                                                  *)

LEMMA InitHangUp == Init => HangUp
  BY DEF Init, HangUp, Ends, Gone

\* Packets of other kinds are added, no state changes, nothing is delivered to
\* the client or more is.
LEMMA OtherPacketKeepsHangUp ==
    ASSUME HangUp, NEW q, q.type # "DISCONNECT", net' \in {net, net \cup {q}},
           state' = state, reason' = reason, life' = life \/ life'["server"] # "unborn",
           delivered["client"] # << >> => delivered'["client"] # << >>
    PROVE  HangUp'
  BY DEF HangUp

LEMMA AppendNonEmpty ==
    ASSUME NEW S, NEW q \in Seq(S), NEW x \in S
    PROVE  Append(q, x) # << >>
<1>1. Len(Append(q, x)) = Len(q) + 1 /\ Len(q) \in Nat
  BY AppendProperties, LenProperties
<1>2. Len(<< >>) = 0
  BY EmptySeq
<1>3. Len(q) + 1 # 0
  BY <1>1
<1> QED  BY <1>1, <1>2, <1>3

LEMMA NextKeepsHangUp == IInv /\ HangUp /\ [Next]_vars => HangUp'
<1> SUFFICES ASSUME IInv, HangUp, [Next]_vars PROVE HangUp'
  OBVIOUS
<1> USE TypeFacts DEF IInv
<1>1. CASE ClientSendSYN
  <2>1. Plain("server", "SYN").type # "DISCONNECT"
    BY DEF Plain, Packet
  <2> QED
    BY <1>1, <2>1, OtherPacketKeepsHangUp DEF ClientSendSYN, connVars, recvVars
<1>2. CASE ClientConnectTimeout
  BY <1>2 DEF ClientConnectTimeout, HangUp, recvVars, Ends
<1>3. CASE ClientParseReject
  BY <1>3, PeerTyped DEF ClientParseReject, HangUp, recvVars, Ends, Gone, PacketSet
<1>4. CASE ServerAcceptSYN
  <2>1. \A p \in net : p.type = "DISCONNECT" => p.to = "server" /\ Peer(p.to) = "client"
    BY <1>4 DEF ServerAcceptSYN, HangUp, Gone, Peer, PacketSet, Ends
  <2> QED
    BY <1>4, <2>1 DEF ServerAcceptSYN, HangUp, recvVars, Ends, Gone
<1>5. CASE ServerRejectSYN
  <2>1. Plain("client", "REJECTED").type # "DISCONNECT"
    BY DEF Plain, Packet
  <2> QED
    BY <1>5, <2>1, OtherPacketKeepsHangUp DEF ServerRejectSYN, connVars, recvVars
<1>6. ASSUME NEW e \in Ends, NEW p \in net, Receive(e, p)
      PROVE  HangUp'
  <2>1. CASE ReliableInSequence(e, p)
    <3> DEFINE ack == Packet(Peer(e), "RELIABLE_ACK", (recvSeq[e] + 1) % SeqMod,
                             Len(delivered[e]) + 1)
    <3>1. /\ net' = net \cup {ack} /\ ack.type # "DISCONNECT"
          /\ UNCHANGED <<life, reason>>
          /\ delivered' = [delivered EXCEPT ![e] = Append(delivered[e], p.msg)]
      BY <2>1 DEF ReliableInSequence, Packet
    <3>2. delivered[e] \in Seq(1..MaxMsgs) /\ Append(delivered[e], p.msg) # << >>
      <4>1. delivered[e] \in Seq(1..MaxMsgs) /\ p.msg \in 0..MaxMsgs
        BY DEF PacketSet
      <4>2. p.msg \in 1..MaxMsgs
        BY <2>1, <4>1, AcceptedIsNext, BoundsAssumption
      <4>4. Append(delivered[e], p.msg) # << >>
        BY <4>1, <4>2, AppendNonEmpty
      <4> QED  BY <4>1, <4>4
    <3>3. delivered["client"] # << >> => delivered'["client"] # << >>
      BY <3>1, <3>2
    <3> HIDE DEF ack
    <3>4. CASE e = "client" /\ p.msg = SynReply
      <4>1. state' = [state EXCEPT !["client"] = "CONNECTED"]
        BY <2>1, <3>4 DEF ReliableInSequence
      <4>2. Len(delivered["client"]) = 0
        BY <2>1, <3>4, AcceptedIsNext DEF SynReply
      <4>3. delivered["client"] = << >> /\ delivered'["client"] # << >>
        BY <3>1, <3>2, <3>4, <4>2
      <4>4. \A q \in net : q.type = "DISCONNECT" => q.to = "client"
        BY <4>3 DEF HangUp, PacketSet, Ends
      <4> QED
        BY <3>1, <4>1, <4>3, <4>4 DEF HangUp, Peer, Gone, Ends
    <3>5. CASE ~(e = "client" /\ p.msg = SynReply)
      <4>1. state' = state
        BY <2>1, <3>5 DEF ReliableInSequence
      <4> QED  BY <3>1, <3>3, <4>1, OtherPacketKeepsHangUp
    <3> QED  BY <3>4, <3>5
  <2>2. CASE ReliableOutOfSequence(e, p)
    <3> DEFINE ack == Packet(Peer(e), "RELIABLE_ACK", recvSeq[e], Len(delivered[e]))
    <3>1. ack.type # "DISCONNECT" /\ net' = net \cup {ack}
      BY <2>2 DEF ReliableOutOfSequence, Packet
    <3> HIDE DEF ack
    <3> QED
      BY <2>2, <3>1, OtherPacketKeepsHangUp
         DEF ReliableOutOfSequence, connVars, recvVars
  <2>3. CASE ParseReliableACK(e, p)
    BY <2>3 DEF ParseReliableACK, connVars, recvVars, HangUp
  <2>4. CASE ParseDisconnect(e, p)
    <3> DEFINE ack == Plain(Peer(e), "DISCONNECT_ACK")
    <3>1. /\ net' = net \cup {ack} /\ ack.type # "DISCONNECT"
          /\ state' = [state EXCEPT ![e] = "DISCONNECTED_SLEEP"]
          /\ reason' = [reason EXCEPT ![e] = "REMOTE"]
          /\ life' = life /\ delivered' = delivered
          /\ p.type = "DISCONNECT" /\ p.to = e /\ life[e] = "open"
      BY <2>4 DEF ParseDisconnect, Receives, recvVars, Plain, Packet
    <3> HIDE DEF ack
    <3>2. \A x \in Ends : state'[x] = state[x] \/ state'[x] = "DISCONNECTED_SLEEP"
      BY <3>1
    <3>3. \A q \in net' : q.type = "DISCONNECT" => q \in net /\ Peer(q.to) \in Ends
      BY <3>1, PeerTyped DEF PacketSet
    <3>4. \A x \in Ends : reason'[x] = "REMOTE" /\ state'[x] \in Gone =>
                            x = e \/ (reason[x] = "REMOTE" /\ state[x] \in Gone)
      BY <3>1
    <3> QED
      BY <3>1, <3>2, <3>3, <3>4 DEF HangUp, Gone, Ends
  <2>5. CASE ParseDisconnectACK(e, p)
    BY <2>5, PeerTyped
       DEF ParseDisconnectACK, HangUp, recvVars, Gone, PacketSet, Ends
  <2> QED  BY <1>6, <2>1, <2>2, <2>3, <2>4, <2>5 DEF Receive
<1>7. ASSUME NEW e \in Ends, Run(e)
      PROVE  HangUp'
  <2>1. CASE RunResend(e)
    <3>1. HeadPacket(e).type # "DISCONNECT"
      BY DEF HeadPacket, Packet
    <3> QED
      BY <2>1, <3>1, OtherPacketKeepsHangUp DEF RunResend, connVars, recvVars
  <2>2. CASE RunTimeout(e)
    <3>1. /\ HeadPacket(e).type # "DISCONNECT"
          /\ net' \in {net, net \cup {HeadPacket(e)}}
          /\ state' = [state EXCEPT ![e] = "DISCONNECTED"]
          /\ reason' = [reason EXCEPT ![e] = "TIMEOUT"]
          /\ life' = [life EXCEPT ![e] = "closed"] /\ delivered' = delivered
      BY <2>2 DEF RunTimeout, HeadPacket, Packet, recvVars
    <3>2. \A x \in Ends : state'[x] = state[x] \/ state'[x] = "DISCONNECTED"
      BY <3>1
    <3>3. \A q \in net' : q.type = "DISCONNECT" => q \in net /\ Peer(q.to) \in Ends
      BY <3>1, PeerTyped DEF PacketSet
    <3>4. \A x \in Ends : reason'[x] = "REMOTE" => x # e /\ reason[x] = "REMOTE" /\ state'[x] = state[x]
      BY <3>1
    <3>5. life'["server"] = "unborn" => life["server"] = "unborn" /\ state'["server"] = state["server"]
      BY <3>1 DEF Ends
    <3> QED
      BY <3>1, <3>2, <3>3, <3>4, <3>5 DEF HangUp, Gone, Ends
  <2>3. CASE RunDisconnecting(e)
    <3>1. CASE retries[e] < MaxRetries
      <4> DEFINE d == Plain(Peer(e), "DISCONNECT")
      <4>1. /\ net' = net \cup {d} /\ d.to = Peer(e) /\ state[e] = "DISCONNECTING"
            /\ UNCHANGED <<life, state, reason, delivered>>
        BY <2>3, <3>1 DEF RunDisconnecting, recvVars, Plain, Packet
      <4>2. Peer(d.to) = e /\ (d.to = "server" => e = "client")
        BY <4>1, PeerTyped DEF Peer, Ends
      <4> HIDE DEF d
      <4> QED
        BY <4>1, <4>2 DEF HangUp, Gone
    <3>2. CASE ~(retries[e] < MaxRetries)
      BY <2>3, <3>2, PeerTyped
         DEF RunDisconnecting, recvVars, HangUp, Gone, PacketSet, Ends
    <3> QED  BY <3>1, <3>2
  <2>4. CASE RunSleep(e)
    <3>1. /\ state[e] = "DISCONNECTED_SLEEP"
          /\ life' = [life EXCEPT ![e] = "closed"]
          /\ UNCHANGED <<net, delivered, reason>>
      BY <2>4 DEF RunSleep, recvVars
    <3>2. \A x \in Ends : \/ state'[x] = state[x]
                          \/ state'[x] = "DISCONNECTED" /\ state[x] \in Gone
      BY <2>4 DEF RunSleep, Gone
    <3>3. \A q \in net : Peer(q.to) \in Ends
      BY PeerTyped DEF PacketSet
    <3>4. life'["server"] = "unborn" => life["server"] = "unborn" /\ state'["server"] = state["server"]
      BY <2>4, <3>1 DEF RunSleep, Ends
    <3> QED
      BY <3>1, <3>2, <3>3, <3>4 DEF HangUp, Gone, Ends
  <2>5. CASE RunDisconnected(e)
    BY <2>5 DEF RunDisconnected, recvVars, HangUp, Ends
  <2> QED  BY <1>7, <2>1, <2>2, <2>3, <2>4, <2>5 DEF Run
<1>8. ASSUME NEW e \in Ends, Submit(e)
      PROVE  HangUp'
  BY <1>8 DEF Submit, connVars, recvVars, HangUp
<1>9. ASSUME NEW e \in Ends, Disconnect(e)
      PROVE  HangUp'
  <2>1. /\ life[e] = "open" /\ state[e] = "CONNECTED"
        /\ state' = [state EXCEPT ![e] = "DISCONNECTING"]
        /\ reason' = [reason EXCEPT ![e] = "LOCAL"]
        /\ UNCHANGED <<life, net, delivered>>
    BY <1>9 DEF Disconnect, Connected, recvVars
  <2> QED
    BY <2>1, PeerTyped DEF HangUp, Gone, PacketSet, Ends
<1>10. ASSUME NEW e \in Ends, GiveUpDisconnecting(e) \/ Crash(e)
       PROVE  HangUp'
  <2>1. /\ life' = [life EXCEPT ![e] = "closed"]
        /\ UNCHANGED <<state, reason, net, delivered>>
    BY <1>10 DEF GiveUpDisconnecting, Crash, recvVars
  <2> QED  BY <2>1 DEF HangUp, Ends
<1>11. CASE UNCHANGED vars
  BY <1>11 DEF vars, HangUp
<1> QED
  BY <1>1, <1>2, <1>3, <1>4, <1>5, <1>6, <1>7, <1>8, <1>9, <1>10, <1>11 DEF Next

\* NET_Conn_Disconnect, NET_Conn_ParseDisconnect: a DISCONNECT on its way, and
\* an end that was hung up on, mean that the other end is leaving for good.
THEOREM HangUpHolds == Spec => []HangUp
  BY InitIInv, InitHangUp, NextKeepsIInv, NextKeepsHangUp, PTL DEF Spec

\* NET_Conn_ParseDisconnect: an end that takes its peer to have hung up is right
\* (a rejected client aside), however late or often a DISCONNECT arrives.
THEOREM RemoteLeft == Spec => []RemoteMeansPeerLeft
<1>1. IInv /\ HangUp => RemoteMeansPeerLeft
  <2> SUFFICES ASSUME IInv, HangUp, NEW e \in Ends,
                      state[e] \in Gone, reason[e] = "REMOTE",
                      NEW p \in net, p.type = "DISCONNECT", p.to = e
               PROVE  Left(Peer(e))
    BY DEF HangUp, RemoteMeansPeerLeft
  <2> QED  BY DEF HangUp, Left
<1>2. IInv /\ HangUp /\ [Next]_vars => (IInv /\ HangUp)'
  BY NextKeepsIInv, NextKeepsHangUp
<1> QED  BY InitIInv, InitHangUp, <1>1, <1>2, PTL DEF Spec

-----------------------------------------------------------------------------
(* NetConn implements FifoChannel.                                         *)

\* The messages a + 1, ..., b.
Run1(a, b) == [i \in 1..(b - a) |-> a + i]

LEMMA RunFacts ==
    ASSUME NEW a \in Nat, NEW b \in Nat, a <= b
    PROVE  /\ Run1(a, b) \in Seq(Nat) /\ Len(Run1(a, b)) = b - a
           /\ Append(Run1(a, b), b + 1) = Run1(a, b + 1)
           /\ a < b => /\ Run1(a, b) # << >>
                       /\ Head(Run1(a, b)) = a + 1
                       /\ Tail(Run1(a, b)) = Run1(a + 1, b)
<1>1. Run1(a, b) \in Seq(Nat) /\ Len(Run1(a, b)) = b - a
  BY DEF Run1
<1>2. Append(Run1(a, b), b + 1) = Run1(a, b + 1)
  BY DEF Run1
<1>3. ASSUME a < b
      PROVE  /\ Run1(a, b) # << >> /\ Head(Run1(a, b)) = a + 1
             /\ Tail(Run1(a, b)) = Run1(a + 1, b)
  <2>1. Run1(a, b) # << >> /\ Head(Run1(a, b)) = a + 1
    BY <1>1, <1>3, HeadTailProperties DEF Run1
  <2>2. /\ Tail(Run1(a, b)) \in Seq(Nat) /\ Len(Tail(Run1(a, b))) = (b - a) - 1
        /\ \A i \in 1..Len(Tail(Run1(a, b))) : Tail(Run1(a, b))[i] = Run1(a, b)[i + 1]
    BY <1>1, <2>1, HeadTailProperties
  <2>3. Run1(a + 1, b) \in Seq(Nat) /\ Len(Run1(a + 1, b)) = (b - a) - 1
    BY <1>3 DEF Run1
  <2>4. \A i \in 1..Len(Tail(Run1(a, b))) : Tail(Run1(a, b))[i] = Run1(a + 1, b)[i]
    BY <2>2 DEF Run1
  <2>5. Tail(Run1(a, b)) = Run1(a + 1, b)
    BY <2>2, <2>3, <2>4, SeqEqual
  <2> QED  BY <2>1, <2>5
<1> QED  BY <1>1, <1>2, <1>3

\* What is pending: the messages submitted and not delivered.
PendingIs(e) ==
    /\ Pending(e) = Run1(Len(delivered[Peer(e)]), submitted[e])
    /\ Len(delivered[Peer(e)]) \in Nat /\ submitted[e] \in Nat
    /\ Len(delivered[Peer(e)]) <= submitted[e]
AllPending == \A e \in Ends : PendingIs(e)

LEMMA PendingFacts == IInv => AllPending
<1> SUFFICES ASSUME IInv, NEW e \in Ends PROVE PendingIs(e)
  BY DEF AllPending
<1> USE TypeFacts DEF IInv, StopAndWait
<1> DEFINE d == Len(delivered[Peer(e)])
           q == Len(queue[e])
           had == d - Acked(e)
<1>1. /\ d \in Nat /\ submitted[e] \in Nat /\ q \in Nat /\ Acked(e) = submitted[e] - q
      /\ d <= submitted[e] /\ Acked(e) <= d /\ d <= Acked(e) + 1 /\ q <= submitted[e]
  BY PeerTyped DEF Window, Acked, QueueNumbered
<1>2. q - had = submitted[e] - d
  BY <1>1
<1>3. ASSUME NEW i \in 1..(submitted[e] - d)
      PROVE  queue[e][i + had].msg = d + i
  <2>1. i + had \in 1..q
    BY <1>1, <1>2, SMTT(20)
  <2>2. queue[e][i + had].msg = Acked(e) + (i + had)
    BY <2>1 DEF QueueNumbered
  <2>3. \A a, k, c \in Int : a + (k + (c - a)) = c + k
    OBVIOUS
  <2>4. Acked(e) \in Int /\ i \in Int /\ d \in Int
    BY <1>1
  <2>5. Acked(e) + (i + had) = d + i
    BY <2>3, <2>4
  <2> QED  BY <2>2, <2>5
<1>4. Pending(e) = [i \in 1..(q - had) |-> queue[e][i + had].msg]
  BY DEF Pending
<1>5. Pending(e) = [i \in 1..(submitted[e] - d) |-> d + i]
  BY <1>2, <1>3, <1>4
<1> QED  BY <1>1, <1>5 DEF Run1, PendingIs

LEMMA InitImplements == Init => Fifo!Init
<1> SUFFICES ASSUME Init PROVE Fifo!Init
  OBVIOUS
<1>1. \A e \in Ends : Pending(e) = << >>
  BY SeqModAssumption, PeerTyped DEF Init, Pending, Acked
<1> QED  BY <1>1 DEF Init, Fifo!Init

\* A step that queues no message and hands none over leaves the channel alone,
\* whether or not an ACK shortens the list.
LEMMA StutterImplements ==
    ASSUME AllPending, AllPending', UNCHANGED <<submitted, delivered>>
    PROVE  UNCHANGED Fifo!fifoVars
<1>1. \A e \in Ends : Pending(e)' = Pending(e)
  BY DEF AllPending, PendingIs
<1> QED  BY <1>1 DEF Fifo!fifoVars

LEMMA SendImplements ==
    ASSUME NEW e \in Ends, IInv, AllPending, AllPending', NewReliable(e),
           UNCHANGED delivered
    PROVE  Fifo!Send(e)
<1> DEFINE d == Len(delivered[Peer(e)])
           n == submitted[e]
<1>1. submitted' = [submitted EXCEPT ![e] = n + 1]
  BY DEF NewReliable
<1>2. submitted'[e] = n + 1 /\ \A x \in Ends : x # e => submitted'[x] = submitted[x]
  BY <1>1, TypeFacts DEF IInv
<1>3. \A x \in Ends : x # e => Pending(x)' = Pending(x)
  BY <1>2 DEF AllPending, PendingIs
<1>4. /\ Pending(e) = Run1(d, n) /\ Pending(e)' = Run1(d, n + 1)
      /\ d \in Nat /\ n \in Nat /\ d <= n
  BY <1>2 DEF AllPending, PendingIs
<1>5. Append(Run1(d, n), n + 1) = Run1(d, n + 1)
  BY <1>4, RunFacts
<1>6. Pending(e)' = Append(Pending(e), n + 1)
  BY <1>4, <1>5
<1> QED  BY <1>1, <1>3, <1>6 DEF Fifo!Send

LEMMA DeliverImplements ==
    ASSUME NEW e \in Ends, NEW p \in net, IInv, AllPending, AllPending',
           ReliableInSequence(e, p)
    PROVE  Fifo!Deliver(Peer(e))
<1> DEFINE s == Peer(e)
           d == Len(delivered[e])
           n == submitted[s]
<1>1. s \in Ends /\ Peer(s) = e /\ e # s
  BY PeerTyped
<1>2. /\ submitted' = submitted
      /\ delivered' = [delivered EXCEPT ![e] = Append(delivered[e], p.msg)]
  BY DEF ReliableInSequence, sendVars
<1>3. p.msg = d + 1 /\ p.msg <= n
  BY AcceptedIsNext
<1>4. /\ Pending(s) = Run1(d, n) /\ d \in Nat /\ n \in Nat /\ d < n
      /\ Pending(s)' = Run1(Len(delivered'[e]), n)
  <2>1. d \in Nat /\ n \in Nat /\ Pending(s) = Run1(d, n)
    BY <1>1 DEF AllPending, PendingIs
  <2>2. Pending(s)' = Run1(Len(delivered'[e]), n)
    BY <1>1, <1>2 DEF AllPending, PendingIs
  <2> QED  BY <1>3, <2>1, <2>2
<1>5. Len(delivered'[e]) = d + 1
  <2>1. delivered[e] \in Seq(1..MaxMsgs) /\ delivered'[e] = Append(delivered[e], p.msg)
    BY <1>2, TypeFacts DEF IInv
  <2>2. p.msg \in 1..MaxMsgs
    <3>1. n \in 0..MaxMsgs /\ MaxMsgs \in Nat
      BY <1>1, TypeFacts, BoundsAssumption DEF IInv
    <3> QED  BY <1>3, <1>4, <3>1
  <2> QED  BY <2>1, <2>2, AppendProperties
<1>6. Pending(s)' = Tail(Pending(s)) /\ Pending(s) # << >> /\ Head(Pending(s)) = p.msg
  <2> HIDE DEF d, n, s
  <2>1. d \in Nat /\ n \in Nat /\ d <= n /\ d < n
    BY <1>4
  <2>2. /\ Run1(d, n) # << >> /\ Head(Run1(d, n)) = d + 1
        /\ Tail(Run1(d, n)) = Run1(d + 1, n)
    BY <2>1, RunFacts
  <2> QED  BY <1>3, <1>4, <1>5, <2>2
<1>7. \A x \in Ends : x # s => Pending(x)' = Pending(x)
  <2>1. \A x \in Ends : x # s => delivered'[Peer(x)] = delivered[Peer(x)]
    BY <1>1, <1>2 DEF Peer, Ends
  <2> QED  BY <1>2, <2>1 DEF AllPending, PendingIs
<1>8. [x \in Ends |-> Pending(x)]' =
        [[x \in Ends |-> Pending(x)] EXCEPT ![s] = Tail(Pending(s))]
  BY <1>6, <1>7
<1> QED  BY <1>1, <1>2, <1>6, <1>8 DEF Fifo!Deliver

LEMMA NextImplements ==
    ASSUME IInv, AllPending, AllPending', [Next]_vars
    PROVE  [Fifo!Next]_Fifo!fifoVars
<1> USE StutterImplements
<1>1. CASE ClientSendSYN \/ ClientConnectTimeout \/ ClientParseReject \/ ServerRejectSYN
  BY <1>1 DEF ClientSendSYN, ClientConnectTimeout, ClientParseReject, ServerRejectSYN,
              sendVars, recvVars
<1>2. CASE ServerAcceptSYN
  <2>1. Fifo!Send("server")
    BY <1>2, SendImplements DEF ServerAcceptSYN, recvVars, Ends
  <2> QED  BY <2>1 DEF Fifo!Next, Ends
<1>3. ASSUME NEW e \in Ends, NEW p \in net, Receive(e, p)
      PROVE  [Fifo!Next]_Fifo!fifoVars
  <2>1. CASE ReliableInSequence(e, p)
    <3>1. Fifo!Deliver(Peer(e)) /\ Peer(e) \in Ends
      BY <2>1, DeliverImplements, PeerTyped
    <3> QED  BY <3>1 DEF Fifo!Next
  <2>2. CASE ~ReliableInSequence(e, p)
    BY <1>3, <2>2 DEF Receive, ReliableOutOfSequence, ParseReliableACK,
                      ParseDisconnect, ParseDisconnectACK, sendVars, recvVars
  <2> QED  BY <2>1, <2>2
<1>4. ASSUME NEW e \in Ends, Submit(e)
      PROVE  [Fifo!Next]_Fifo!fifoVars
  <2>1. Fifo!Send(e)
    BY <1>4, SendImplements DEF Submit, recvVars
  <2> QED  BY <2>1 DEF Fifo!Next
<1>5. ASSUME NEW e \in Ends,
             Run(e) \/ Disconnect(e) \/ GiveUpDisconnecting(e) \/ Crash(e)
      PROVE  [Fifo!Next]_Fifo!fifoVars
  BY <1>5 DEF Run, RunResend, RunTimeout, RunDisconnecting, RunSleep, RunDisconnected,
              Disconnect, GiveUpDisconnecting, Crash, sendVars, recvVars
<1>6. CASE UNCHANGED vars
  BY <1>6 DEF vars
<1> QED  BY <1>1, <1>2, <1>3, <1>4, <1>5, <1>6 DEF Next

\* What net_common.c calls reliable: over a network that loses, duplicates and
\* reorders, the connection is a perfect FIFO channel in each direction.
THEOREM Implements == Spec => ImplementsFifo
<1>1. IInv /\ [Next]_vars /\ IInv' => [Fifo!Next]_Fifo!fifoVars
  <2>1. IInv' => AllPending'
    BY PendingFacts, PTL
  <2> QED  BY <2>1, PendingFacts, NextImplements
<1> QED
  BY InitIInv, InitImplements, NextKeepsIInv, <1>1, PTL DEF Spec, ImplementsFifo, Fifo!Spec
=============================================================================
