---------------------------- MODULE NetTicsProofs ----------------------------
(***************************************************************************)
(* Theorems about NetTics, for all clients, drones, and numbers that meet  *)
(* the assumptions, and without MaxTics mattering.                         *)
(***************************************************************************)
EXTENDS NetTics, WellFoundedInduction, TLAPS

-----------------------------------------------------------------------------
(* The tic number behind a byte.                                           *)

Byte == 0..TicMod - 1

LEMMA TicModSplit ==
    \A a \in Nat : /\ a \div TicMod \in Int /\ a % TicMod \in Byte
                   /\ a = TicMod * (a \div TicMod) + (a % TicMod)
  BY TicNumAssumption DEF Byte

LEMMA Multiple ==
    ASSUME NEW m \in Nat, NEW q \in Int, NEW k \in Int, q >= k, m > 0
    PROVE  m * q >= m * k
<1>1. m * (q - k) >= 0
  BY SMT
<1>2. m * (q - k) = m * q - m * k
  BY SMT
<1> QED  BY <1>1, <1>2, SMT

\* A product with TicMod that lies strictly between two multiples of it.
LEMMA NearMultiple ==
    ASSUME NEW q \in Int, TicMod * q < TicMod + TicMod, TicMod * q > -(TicMod + TicMod)
    PROVE  q = -1 \/ q = 0 \/ q = 1
<1>1. TicMod \in Nat /\ TicMod > 0
  BY TicNumAssumption
<1>2. ~(q >= 2)
  <2> SUFFICES ASSUME q >= 2 PROVE FALSE
    OBVIOUS
  <2>1. TicMod * q >= TicMod * 2
    BY <1>1, Multiple
  <2> QED  BY <1>1, <2>1
<1>3. ~(-q >= 2)
  <2> SUFFICES ASSUME -q >= 2 PROVE FALSE
    OBVIOUS
  <2>1. TicMod * (-q) >= TicMod * 2
    BY <1>1, Multiple
  <2>2. TicMod * (-q) = -(TicMod * q)
    BY <1>1
  <2> QED  BY <1>1, <2>1, <2>2
<1> QED  BY <1>2, <1>3

\* NET_ExpandTicNum finds the number of a tic that is at most TicLow away from
\* the number it is given.
THEOREM ExpandExact ==
    ASSUME NEW near \in Nat, NEW tic \in Nat,
           tic - near <= TicLow, near - tic <= TicLow
    PROVE  ExpandTicNum(near, TicByte(tic)) = tic
<1> DEFINE l == near % TicMod
           qn == near \div TicMod
           b == tic % TicMod
           qt == tic \div TicMod
<1>1. /\ TicMod \in Nat /\ TicLow \in Nat /\ TicHigh \in Nat
      /\ TicLow > 0 /\ TicLow + TicHigh < TicMod /\ 2 * TicLow < TicHigh + 2
  BY TicNumAssumption
<1>2. /\ l \in Byte /\ b \in Byte /\ qn \in Int /\ qt \in Int
      /\ near = TicMod * qn + l /\ tic = TicMod * qt + b
  BY TicModSplit
<1>3. ExpandTicNum(near, TicByte(tic)) =
        CASE l < TicLow /\ b > TicHigh -> (near - l) + b - TicMod
          [] l > TicHigh /\ b < TicLow -> (near - l) + b + TicMod
          [] OTHER -> (near - l) + b
  BY DEF ExpandTicNum, TicByte
<1> HIDE DEF l, b, qn, qt
<1>4. TicMod * (qt - qn) = (tic - near) - b + l
  BY <1>1, <1>2 DEF Byte
<1>5. qt - qn = -1 \/ qt - qn = 0 \/ qt - qn = 1
  BY <1>1, <1>2, <1>4, NearMultiple DEF Byte
<1>6. CASE qt - qn = -1
  <2>1. tic - near = b - l - TicMod
    BY <1>1, <1>2, <1>4, <1>6 DEF Byte
  <2> QED  BY <1>1, <1>2, <1>3, <2>1 DEF Byte
<1>7. CASE qt - qn = 0
  <2>1. tic - near = b - l
    BY <1>1, <1>2, <1>4, <1>7 DEF Byte
  <2> QED  BY <1>1, <1>2, <1>3, <2>1 DEF Byte
<1>8. CASE qt - qn = 1
  <2>1. tic - near = b - l + TicMod
    BY <1>1, <1>2, <1>4, <1>8 DEF Byte
  <2> QED  BY <1>1, <1>2, <1>3, <2>1, SMTT(40) DEF Byte
<1> QED  BY <1>5, <1>6, <1>7, <1>8

-----------------------------------------------------------------------------
(* The inductive invariant: how far anybody can be ahead of anybody.       *)

\* The server makes a tic only when every client has all but MaxUnacked of
\* those before it.
NearAcks == \A c, d \in Up : SendSeq(c) <= acked[d] + MaxUnacked + 1

NearOwn == \A c \in Clients : SendSeq(c) <= cstart[c] + MaxUnacked + 1

\* EndPass takes the window so far that all the others' tics of MaxUnacked + 1
\* more can have been sent, and a pass makes one more.
NearStart ==
    /\ \A c \in Clients : SendSeq(c) <= start + Larger(MaxUnacked + 2, SoloAhead + 1)
    /\ \A c \in Up : Others(c) # {} /\ c \notin ran => SendSeq(c) <= start + MaxUnacked + 1

\* What has been sent to a client was here from all the others.
Complete ==
    \A c \in Clients : \A p \in Others(c) : \A t \in Nat :
        t < SendSeq(c) => t < start \/ t \in have[p]

\* A client is at most MaxUnacked + 1 tics ahead of some other, even of one
\* that has gone, or has been held back as the only player.
Paired ==
    \A c \in Up : \/ SendSeq(c) <= start + SoloAhead + 1
                  \/ \E d \in Clients \ {c} : SendSeq(c) <= SendSeq(d) + MaxUnacked + 1

Made ==
    /\ \A p \in Players : \A t \in have[p] : t < maketic[p]
    /\ \A p \in Players \cap Up : start <= maketic[p]

NotOutrun ==
    \A p \in Players : SendSeq(p) <= maketic[p] + Larger(MaxUnacked, SoloAhead) + 1

Received == \A c \in Clients : \A t \in chave[c] : t < SendSeq(c)

Throttled ==
    /\ \A p \in Players : maketic[p] <= gametic[p] + MaxAhead + 1
    /\ \A c \in Clients : gametic[c] <= cstart[c]
    /\ \A c \in Clients : at[c] = "blocked" => cstart[c] = 0

IInv ==
    /\ TypeOK /\ AckTruthful /\ NearAcks /\ NearOwn /\ NearStart /\ Complete
    /\ Paired /\ Made /\ NotOutrun /\ Received /\ Throttled

LEMMA Sent == TypeOK => \A c \in Clients : SendSeq(c) \in Nat
  BY DEF TypeOK, SendSeq

LEMMA Counts ==
    TypeOK => \A c \in Clients : /\ SendSeq(c) \in Nat /\ acked[c] \in Nat
                                 /\ cstart[c] \in Nat /\ maketic[c] \in Nat
                                 /\ gametic[c] \in Nat
  BY Sent DEF TypeOK

LEMMA LargerOf ==
    \A a, b \in Int : /\ Larger(a, b) \in Int /\ Larger(a, b) \in {a, b}
                     /\ Larger(a, b) >= a /\ Larger(a, b) >= b
  BY DEF Larger

LEMMA Params ==
    /\ MaxUnacked \in Nat /\ SoloAhead \in Nat /\ MaxAhead \in Nat
    /\ BackupTics \in Nat /\ TicLow \in Nat /\ FirstTic \in Nat
    /\ MaxUnacked + 2 + MaxAhead <= TicLow /\ SoloAhead + 1 + MaxAhead <= TicLow
    /\ MaxUnacked + MaxAhead + 2 <= BackupTics /\ SoloAhead + MaxAhead + 2 <= BackupTics
<1> USE TicsAssumption, TicNumAssumption
<1>1. Larger(MaxUnacked + 2, SoloAhead + 1) + MaxAhead <= TicLow
  BY WindowAssumption
<1>2. Larger(MaxUnacked, SoloAhead) + MaxAhead + 2 <= BackupTics
  BY WindowAssumption
<1> QED  BY <1>1, <1>2 DEF Larger

LEMMA ParamTypes ==
    MaxUnacked \in Int /\ SoloAhead \in Int /\ MaxAhead \in Int
  BY TicsAssumption

LEMMA PlayersAre == Players \subseteq Clients
  BY DEF Players

\* Nothing that a client or the server may be sent is misunderstood.
LEMMA UnderstoodFull ==
    ASSUME IInv, NEW c \in Clients, NEW t \in 0..SendSeq(c) - 1, Fresh(t, cstart[c])
    PROVE  ExpandTicNum(cstart[c], TicByte(t)) = t
<1>1. SendSeq(c) \in Nat /\ cstart[c] \in Nat
  BY Counts DEF IInv
<1>2. t \in Nat /\ t - cstart[c] <= TicLow /\ cstart[c] - t <= TicLow
  BY <1>1, Params DEF IInv, NearOwn, Fresh
<1> QED  BY <1>1, <1>2, ExpandExact

LEMMA UnderstoodTic ==
    ASSUME IInv, NEW p \in Players, NEW t \in 0..maketic[p] - 1, Fresh(t, start)
    PROVE  ExpandTicNum(start, TicByte(t)) = t
<1>1. /\ p \in Clients /\ start \in Nat
      /\ SendSeq(p) \in Nat /\ cstart[p] \in Nat /\ gametic[p] \in Nat /\ maketic[p] \in Nat
  BY Counts, PlayersAre DEF IInv, TypeOK
<1>2. /\ cstart[p] <= SendSeq(p) /\ gametic[p] <= cstart[p]
      /\ maketic[p] <= gametic[p] + MaxAhead + 1
      /\ SendSeq(p) <= start + Larger(MaxUnacked + 2, SoloAhead + 1)
  BY <1>1 DEF IInv, NearStart, AckTruthful, Throttled
<1>3. t \in Nat /\ t - start <= TicLow /\ start - t <= TicLow
  BY <1>1, <1>2, Params DEF Larger, Fresh
<1> QED  BY <1>1, <1>3, ExpandExact

LEMMA UnderstoodAck ==
    ASSUME IInv, NEW c \in Clients, NEW t \in 0..cstart[c], Fresh(t, start)
    PROVE  ExpandTicNum(start, TicByte(t)) = t
<1>1. start \in Nat /\ SendSeq(c) \in Nat /\ cstart[c] \in Nat
  BY Counts DEF IInv, TypeOK
<1>2. /\ cstart[c] <= SendSeq(c)
      /\ SendSeq(c) <= start + Larger(MaxUnacked + 2, SoloAhead + 1)
  BY DEF IInv, NearStart, AckTruthful
<1>3. t \in Nat /\ t - start <= TicLow /\ start - t <= TicLow
  BY <1>1, <1>2, Params DEF Larger, Fresh
<1> QED  BY <1>1, <1>3, ExpandExact

LEMMA FreshOnes ==
    ASSUME NEW near \in Int, NEW next \in Int, NEW t \in FreshTics(near, next)
    PROVE  t \in 0..next - 1 /\ Fresh(t, near)
  BY Params DEF FreshTics, Fresh, Larger

LEMMA Understood == IInv => TicsUnderstood
<1> SUFFICES ASSUME IInv PROVE TicsUnderstood
  OBVIOUS
<1>1. start \in Int
  BY DEF IInv, TypeOK
<1>2. ASSUME NEW c \in Clients, NEW t \in FreshTics(cstart[c], SendSeq(c))
      PROVE  ExpandTicNum(cstart[c], TicByte(t)) = t
  <2>1. cstart[c] \in Int /\ SendSeq(c) \in Int
    BY Counts DEF IInv
  <2>2. t \in 0..SendSeq(c) - 1 /\ Fresh(t, cstart[c])
    BY <2>1, FreshOnes
  <2> QED  BY <2>2, UnderstoodFull
<1>3. ASSUME NEW p \in Players, NEW t \in FreshTics(start, maketic[p])
      PROVE  ExpandTicNum(start, TicByte(t)) = t
  <2>1. p \in Clients /\ maketic[p] \in Int
    BY Counts, PlayersAre DEF IInv
  <2>2. t \in 0..maketic[p] - 1 /\ Fresh(t, start)
    BY <1>1, <2>1, FreshOnes
  <2> QED  BY <2>2, UnderstoodTic
<1>4. ASSUME NEW c \in Clients, NEW t \in FreshTics(start, cstart[c] + 1)
      PROVE  ExpandTicNum(start, TicByte(t)) = t
  <2>1. cstart[c] \in Nat /\ cstart[c] + 1 \in Int
    BY Counts DEF IInv
  <2>2. t \in 0..(cstart[c] + 1) - 1 /\ Fresh(t, start)
    BY <1>1, <2>1, FreshOnes
  <2>3. t \in 0..cstart[c]
    BY <2>1, <2>2
  <2> QED  BY <2>2, <2>3, UnderstoodAck
<1> QED  BY <1>2, <1>3, <1>4 DEF TicsUnderstood

LEMMA Forgotten == IInv => NothingForgotten
<1> SUFFICES ASSUME IInv PROVE NothingForgotten
  OBVIOUS
<1> USE Params
<1>1. ASSUME NEW c \in Up PROVE SendSeq(c) - acked[c] <= BackupTics
  <2>1. c \in Clients /\ SendSeq(c) <= acked[c] + MaxUnacked + 1
    BY DEF IInv, NearAcks, Up
  <2> QED  BY <2>1, Counts DEF IInv
<1>2. ASSUME NEW p \in Players \cap Up, NEW t \in 0..maketic[p] - 1,
             ~(t < start), t \notin have[p]
      PROVE  t >= maketic[p] - BackupTics
  <2> DEFINE lead == Larger(MaxUnacked, SoloAhead)
  <2>1. lead \in Int /\ lead + MaxAhead + 2 <= BackupTics /\ lead >= MaxUnacked /\ lead >= SoloAhead
    BY WindowAssumption, LargerOf
  <2>2. p \in Clients /\ p \in Up /\ t \in Nat /\ start \in Nat /\ t >= start
    BY <1>2, PlayersAre DEF IInv, TypeOK
  <2>3. ASSUME NEW d \in Clients \ {p} PROVE SendSeq(d) <= t
    <3>1. p \in Others(d)
      BY <1>2, <2>3 DEF Others
    <3>2. ~(t < SendSeq(d))
      BY <1>2, <2>2, <3>1 DEF IInv, Complete
    <3> QED  BY <2>2, <3>2, Counts DEF IInv
  <2>4. /\ SendSeq(p) \in Nat /\ maketic[p] \in Nat /\ cstart[p] \in Nat /\ gametic[p] \in Nat
    BY <2>2, Counts DEF IInv
  <2>5. \/ SendSeq(p) <= start + SoloAhead + 1
        \/ \E d \in Clients \ {p} : SendSeq(p) <= SendSeq(d) + MaxUnacked + 1
    BY <2>2 DEF IInv, Paired
  <2>6. SendSeq(p) <= t + lead + 1
    <3>1. CASE SendSeq(p) <= start + SoloAhead + 1
      BY <2>1, <2>2, <2>4, <3>1
    <3>2. ASSUME NEW d \in Clients \ {p}, SendSeq(p) <= SendSeq(d) + MaxUnacked + 1
          PROVE  SendSeq(p) <= t + lead + 1
      <4>1. SendSeq(d) \in Nat /\ SendSeq(d) <= t
        BY <2>3, Counts DEF IInv
      <4> HIDE DEF lead
      <4> QED  BY <2>1, <2>2, <2>4, <3>2, <4>1
    <3> QED  BY <2>5, <3>1, <3>2
  <2>7. cstart[p] <= SendSeq(p) /\ gametic[p] <= cstart[p] /\ maketic[p] <= gametic[p] + MaxAhead + 1
    BY <1>2, <2>2 DEF IInv, Throttled, AckTruthful
  <2> HIDE DEF lead
  <2> QED  BY <2>1, <2>2, <2>4, <2>6, <2>7
<1> QED  BY <1>1, <1>2 DEF NothingForgotten

LEMMA Overwritten == IInv => NothingOverwritten
<1> SUFFICES ASSUME IInv, NEW p \in Players
             PROVE  Larger(maketic[p], cstart[p]) - gametic[p] <= BackupTics
  BY DEF NothingOverwritten
<1> DEFINE lead == Larger(MaxUnacked, SoloAhead)
<1>1. lead \in Int /\ lead + MaxAhead + 2 <= BackupTics /\ lead >= 0
  BY TicsAssumption, WindowAssumption, LargerOf
<1>2. /\ cstart[p] <= SendSeq(p) /\ SendSeq(p) <= maketic[p] + lead + 1
      /\ maketic[p] <= gametic[p] + MaxAhead + 1
  BY PlayersAre DEF IInv, AckTruthful, NotOutrun, Throttled
<1> HIDE DEF lead
<1>3. /\ SendSeq(p) \in Nat /\ cstart[p] \in Nat /\ maketic[p] \in Nat
      /\ gametic[p] \in Nat
  BY Counts, PlayersAre DEF IInv
<1> QED  BY <1>1, <1>2, <1>3, TicsAssumption DEF Larger

-----------------------------------------------------------------------------
(* The steps of a client.                                                  *)

LEMMA ServerSame ==
    UNCHANGED serverVars =>
        /\ Up' = Up
        /\ \A c \in Clients : SendSeq(c)' = SendSeq(c) /\ Others(c)' = Others(c)
  BY DEF serverVars, Up, SendSeq, Others

\* What a client does leaves the server's side of the invariant as it is.
LEMMA ServerSide ==
    IInv /\ UNCHANGED serverVars => (NearAcks /\ NearStart /\ Complete /\ Paired)'
<1> SUFFICES ASSUME IInv, UNCHANGED serverVars
             PROVE  (NearAcks /\ NearStart /\ Complete /\ Paired)'
  OBVIOUS
<1>1. /\ start' = start /\ have' = have /\ acked' = acked /\ ran' = ran /\ Up' = Up
      /\ Up \subseteq Clients
  BY ServerSame DEF serverVars, Up
<1>2. \A c \in Clients : SendSeq(c)' = SendSeq(c) /\ Others(c)' = Others(c)
  BY ServerSame
<1>3. NearAcks'
  BY <1>1, <1>2 DEF IInv, NearAcks
<1>4. NearStart'
  BY <1>1, <1>2 DEF IInv, NearStart
<1>5. Complete'
  BY <1>1, <1>2 DEF IInv, Complete
<1>6. Paired'
  BY <1>1, <1>2 DEF IInv, Paired
<1> QED  BY <1>3, <1>4, <1>5, <1>6

LEMMA ParseGameStartKeeps ==
    ASSUME IInv, NEW c \in Clients, ParseGameStart(c)
    PROVE  IInv'
<1>1. UNCHANGED serverVars /\ UNCHANGED <<maketic, gametic>>
  BY DEF ParseGameStart
<1>2. (NearAcks /\ NearStart /\ Complete /\ Paired)'
  BY <1>1, ServerSide
<1>3. /\ cstart' = cstart /\ at' = [at EXCEPT ![c] = "playing"]
      /\ chave' = [chave EXCEPT ![c] = {}]
  BY DEF ParseGameStart, IInv, Throttled, TypeOK
<1>4. \A d \in Clients : SendSeq(d)' = SendSeq(d)
  BY <1>1, ServerSame
<1>5. TypeOK'
  BY <1>1, <1>3 DEF IInv, TypeOK, serverVars, Window
<1>6. (AckTruthful /\ NearOwn /\ Received)'
  BY <1>1, <1>3, <1>4, ServerSame DEF IInv, TypeOK, AckTruthful, NearOwn, Received, serverVars, Up
<1>7. (Made /\ NotOutrun /\ Throttled)'
  BY <1>1, <1>3, <1>4, ServerSame, PlayersAre
     DEF IInv, TypeOK, Made, NotOutrun, Throttled, serverVars, Up
<1> QED  BY <1>2, <1>5, <1>6, <1>7 DEF IInv

LEMMA ClientParseGameDataKeeps ==
    ASSUME IInv, NEW c \in Clients, NEW first \in 0..SendSeq(c) - 1,
           NEW last \in first..SendSeq(c) - 1, ClientParseGameData(c, first, last)
    PROVE  IInv'
<1>1. UNCHANGED serverVars /\ UNCHANGED <<at, cstart, maketic, gametic>>
  BY DEF ClientParseGameData
<1>2. (NearAcks /\ NearStart /\ Complete /\ Paired)'
  BY <1>1, ServerSide
<1>3. chave' = [chave EXCEPT ![c] =
                  @ \cup (Window(cstart[c]) \cap first..first + (last - first))]
  BY UnderstoodFull DEF ClientParseGameData
<1>4. \A d \in Clients : SendSeq(d)' = SendSeq(d) /\ SendSeq(d) \in Nat
  BY <1>1, ServerSame, Counts DEF IInv
<1>5. first \in Nat /\ last \in Nat /\ last < SendSeq(c) /\ first + (last - first) = last
  BY <1>4
<1>6. TypeOK'
  <2>1. Window(cstart[c]) \subseteq Nat
    BY Params DEF Window, IInv, TypeOK
  <2>2. chave' \in [Clients -> SUBSET Nat]
    BY <1>3, <2>1 DEF IInv, TypeOK
  <2>3. \A d \in Clients : chave'[d] \subseteq Window(cstart[d])
    BY <1>3 DEF IInv, TypeOK
  <2> QED  BY <1>1, <2>2, <2>3 DEF IInv, TypeOK, serverVars, Window
<1>7. Received'
  <2>1. \A t \in first..last : t < SendSeq(c)
    BY <1>4, <1>5
  <2> QED  BY <1>3, <1>4, <1>5, <2>1 DEF IInv, TypeOK, Received
<1>8. (AckTruthful /\ NearOwn)'
  BY <1>1, <1>4, ServerSame DEF IInv, AckTruthful, NearOwn, serverVars, Up
<1>9. (Made /\ NotOutrun /\ Throttled)'
  BY <1>1, <1>4, ServerSame, PlayersAre
     DEF IInv, Made, NotOutrun, Throttled, serverVars, Up
<1> QED  BY <1>2, <1>6, <1>7, <1>8, <1>9 DEF IInv

LEMMA ClientAdvanceWindowKeeps ==
    ASSUME IInv, NEW c \in Clients, ClientAdvanceWindow(c)
    PROVE  IInv'
<1>1. UNCHANGED serverVars /\ UNCHANGED <<at, maketic, gametic>> /\ at[c] = "playing"
  BY DEF ClientAdvanceWindow
<1>2. (NearAcks /\ NearStart /\ Complete /\ Paired)'
  BY <1>1, ServerSide
<1>3. PICK next \in cstart[c] + 1..cstart[c] + BackupTics :
        /\ cstart[c]..next - 1 \subseteq chave[c]
        /\ cstart' = [cstart EXCEPT ![c] = next]
        /\ chave' = [chave EXCEPT ![c] = {t \in @ : t >= next}]
  BY DEF ClientAdvanceWindow
<1>4. \A d \in Clients : /\ SendSeq(d)' = SendSeq(d) /\ SendSeq(d) \in Nat
                         /\ cstart[d] \in Nat /\ acked[d] \in Nat /\ gametic[d] \in Nat
  BY <1>1, ServerSame, Counts DEF IInv
<1>5. next \in Nat /\ next > cstart[c] /\ next <= cstart[c] + BackupTics
  BY <1>3, <1>4, Params
<1>6. next <= SendSeq(c)
  <2>1. next - 1 \in chave[c]
    BY <1>3, <1>4, <1>5
  <2>2. next - 1 < SendSeq(c)
    BY <2>1 DEF IInv, Received
  <2> QED  BY <1>4, <1>5, <2>2
<1>7. \A d \in Clients : cstart'[d] \in Nat /\ cstart'[d] >= cstart[d] /\ cstart'[d] <= SendSeq(d)
  BY <1>3, <1>4, <1>5, <1>6, SMTT(40) DEF IInv, TypeOK, AckTruthful
<1>8. TypeOK'
  <2>1. cstart' \in [Clients -> Nat] /\ chave' \in [Clients -> SUBSET Nat]
    BY <1>3, <1>5 DEF IInv, TypeOK
  <2>2. \A t \in chave[c] : t >= next => t \in Window(next)
    BY <1>4, <1>5, Params DEF IInv, TypeOK, Window
  <2>3. \A d \in Clients : chave'[d] \subseteq Window(cstart'[d])
    BY <1>3, <2>2 DEF IInv, TypeOK
  <2> QED  BY <1>1, <2>1, <2>3 DEF IInv, TypeOK, serverVars, Window
<1>9. Received'
  BY <1>3, <1>4 DEF IInv, TypeOK, Received
<1>10. (AckTruthful /\ NearOwn)'
  <2>1. AckTruthful'
    <3> SUFFICES ASSUME NEW d \in Clients
                 PROVE  /\ acked[d] <= cstart'[d] /\ cstart'[d] <= SendSeq(d)
                        /\ d \in Up => start <= acked[d]
      BY <1>1, <1>4, ServerSame DEF AckTruthful, serverVars
    <3> QED  BY <1>4, <1>7 DEF IInv, AckTruthful
  <2>2. NearOwn'
    <3> SUFFICES ASSUME NEW d \in Clients
                 PROVE  SendSeq(d) <= cstart'[d] + MaxUnacked + 1
      BY <1>4 DEF NearOwn
    <3> QED  BY <1>4, <1>7, Params DEF IInv, NearOwn
  <2> QED  BY <2>1, <2>2
<1>11. (Made /\ NotOutrun)'
  BY <1>1, <1>4, ServerSame, PlayersAre DEF IInv, Made, NotOutrun, serverVars, Up
<1>12. Throttled'
  <2>1. \A d \in Clients : gametic[d] <= cstart'[d]
    BY <1>4, <1>7 DEF IInv, Throttled
  <2>2. \A d \in Clients : at[d] = "blocked" => cstart'[d] = 0
    BY <1>1, <1>3 DEF IInv, Throttled, TypeOK
  <2> QED  BY <1>1, <2>1, <2>2 DEF IInv, Throttled
<1> QED  BY <1>2, <1>8, <1>9, <1>10, <1>11, <1>12 DEF IInv

LEMMA BuildNewTicKeeps ==
    ASSUME IInv, NEW c \in Clients, BuildNewTic(c)
    PROVE  IInv'
<1>1. UNCHANGED serverVars /\ UNCHANGED <<at, cstart, chave, gametic>>
  BY DEF BuildNewTic
<1>2. (NearAcks /\ NearStart /\ Complete /\ Paired)'
  BY <1>1, ServerSide
<1>3. maketic' = [maketic EXCEPT ![c] = @ + 1] /\ maketic[c] - gametic[c] <= MaxAhead
  BY DEF BuildNewTic
<1>4. \A d \in Clients : /\ SendSeq(d)' = SendSeq(d) /\ SendSeq(d) \in Nat
                         /\ maketic[d] \in Nat /\ gametic[d] \in Nat
                         /\ maketic'[d] \in Nat /\ maketic[d] <= maketic'[d]
  <2>1. \A d \in Clients : SendSeq(d)' = SendSeq(d)
    BY <1>1, ServerSame
  <2>2. \A d \in Clients : SendSeq(d) \in Nat /\ maketic[d] \in Nat /\ gametic[d] \in Nat
    BY Counts DEF IInv
  <2>3. \A d \in Clients : maketic'[d] = IF d = c THEN maketic[c] + 1 ELSE maketic[d]
    BY <1>3 DEF IInv, TypeOK
  <2> QED  BY <2>1, <2>2, <2>3
<1>5. TypeOK'
  BY <1>1, <1>3, SMTT(40) DEF IInv, TypeOK, serverVars, Window
<1>6. (AckTruthful /\ NearOwn /\ Received)'
  BY <1>1, <1>4, ServerSame DEF IInv, AckTruthful, NearOwn, Received, serverVars, Up
<1>7. Made'
  <2>1. \A p \in Players : \A t \in have[p] : t \in Nat
    BY DEF IInv, TypeOK
  <2>2. \A p \in Players : \A t \in have[p] : t < maketic'[p]
    BY <1>4, <2>1, PlayersAre DEF IInv, Made
  <2>3. \A p \in Players \cap Up : start <= maketic'[p]
    BY <1>4, PlayersAre, SMTT(40) DEF IInv, TypeOK, Made
  <2> QED  BY <1>1, <2>2, <2>3, ServerSame DEF Made, serverVars
<1>8. NotOutrun'
  <2>1. ASSUME NEW p \in Players
        PROVE  SendSeq(p) <= maketic'[p] + Larger(MaxUnacked, SoloAhead) + 1
    <3>1. Larger(MaxUnacked, SoloAhead) \in Int
      BY Params, LargerOf
    <3> QED  BY <1>4, <3>1, PlayersAre DEF IInv, NotOutrun
  <2> QED  BY <1>4, <2>1, PlayersAre DEF NotOutrun
<1>9. Throttled'
  <2>1. ASSUME NEW p \in Players PROVE maketic'[p] <= gametic[p] + MaxAhead + 1
    BY <1>3, <1>4, PlayersAre, Params, SMTT(40) DEF IInv, TypeOK, Throttled
  <2> QED  BY <1>1, <2>1 DEF IInv, Throttled
<1> QED  BY <1>2, <1>5, <1>6, <1>7, <1>8, <1>9 DEF IInv

LEMMA RunTicKeeps ==
    ASSUME IInv, NEW c \in Clients, RunTic(c)
    PROVE  IInv'
<1>1. UNCHANGED serverVars /\ UNCHANGED <<at, cstart, chave, maketic>>
  BY DEF RunTic
<1>2. (NearAcks /\ NearStart /\ Complete /\ Paired)'
  BY <1>1, ServerSide
<1>3. \A d \in Clients : /\ SendSeq(d)' = SendSeq(d) /\ cstart[d] \in Nat
                         /\ maketic[d] \in Nat /\ gametic[d] \in Nat
  BY <1>1, ServerSame, Counts DEF IInv
<1>4. gametic' = [gametic EXCEPT ![c] = @ + 1] /\ gametic[c] < cstart[c]
  BY <1>3 DEF RunTic, LowTic, Smaller
<1>5. TypeOK'
  BY <1>1, <1>4, SMTT(40) DEF IInv, TypeOK, serverVars, Window
<1>6. (AckTruthful /\ NearOwn /\ Received)'
  BY <1>1, <1>3, ServerSame DEF IInv, AckTruthful, NearOwn, Received, serverVars, Up
<1>7. (Made /\ NotOutrun)'
  BY <1>1, <1>3, ServerSame, PlayersAre DEF IInv, Made, NotOutrun, serverVars, Up
<1>8. Throttled'
  <2>1. \A d \in Clients : gametic'[d] \in Nat /\ gametic[d] <= gametic'[d] /\ gametic'[d] <= cstart[d]
    BY <1>3, <1>4 DEF IInv, TypeOK, Throttled
  <2>2. ASSUME NEW p \in Players PROVE maketic[p] <= gametic'[p] + MaxAhead + 1
    BY <1>3, <2>1, PlayersAre, Params DEF IInv, Throttled
  <2> QED  BY <1>1, <2>1, <2>2 DEF IInv, Throttled
<1> QED  BY <1>2, <1>5, <1>6, <1>7, <1>8 DEF IInv

LEMMA LeaveKeeps ==
    ASSUME IInv, NEW c \in Clients, Leave(c)
    PROVE  IInv'
<1>1. UNCHANGED serverVars /\ UNCHANGED <<cstart, maketic, gametic>>
  BY DEF Leave
<1>2. (NearAcks /\ NearStart /\ Complete /\ Paired)'
  BY <1>1, ServerSide
<1>3. at' = [at EXCEPT ![c] = "left"] /\ chave' = [chave EXCEPT ![c] = {}]
  BY DEF Leave
<1>4. \A d \in Clients : SendSeq(d)' = SendSeq(d) /\ chave'[d] \subseteq chave[d]
  BY <1>1, <1>3, ServerSame DEF IInv, TypeOK
<1>5. TypeOK'
  BY <1>1, <1>3 DEF IInv, TypeOK, serverVars, Window
<1>6. (AckTruthful /\ NearOwn /\ Received)'
  BY <1>1, <1>4, ServerSame DEF IInv, AckTruthful, NearOwn, Received, serverVars, Up
<1>7. (Made /\ NotOutrun)'
  BY <1>1, <1>4, ServerSame, PlayersAre DEF IInv, Made, NotOutrun, serverVars, Up
<1>8. Throttled'
  BY <1>1, <1>3 DEF IInv, TypeOK, Throttled
<1> QED  BY <1>2, <1>5, <1>6, <1>7, <1>8 DEF IInv

-----------------------------------------------------------------------------
(* The steps of the server.                                                *)

\* What a packet does: it raises an acknowledgement, and fills the window.
LEMMA PacketKeeps ==
    ASSUME IInv, NEW c \in Clients, NEW ack \in 0..cstart[c],
           acked' = [acked EXCEPT ![c] = Larger(@, ack)],
           have' \in [Players -> SUBSET Nat],
           \A p \in Players : have[p] \subseteq have'[p] /\ have'[p] \subseteq Window(start),
           \A p \in Players : \A t \in have'[p] : t < maketic[p],
           UNCHANGED <<start, live, sent, ran, clientVars>>
    PROVE  IInv'
<1>1. /\ Up' = Up /\ Up \subseteq Clients
      /\ \A d \in Clients : SendSeq(d)' = SendSeq(d) /\ Others(d)' = Others(d)
      /\ \A d \in Clients : Others(d) \subseteq Players
  BY DEF Up, SendSeq, Others
<1>2. \A d \in Clients : acked[d] \in Nat /\ cstart[d] \in Nat /\ SendSeq(d) \in Nat
  BY Counts DEF IInv
<1>3. start \in Nat /\ start' = start
  BY DEF IInv, TypeOK
<1>4. \A d \in Clients : acked'[d] \in Nat /\ acked[d] <= acked'[d] /\ acked'[d] <= cstart[d]
  <2>1. Larger(acked[c], ack) \in Nat /\ acked[c] <= Larger(acked[c], ack)
        /\ Larger(acked[c], ack) <= cstart[c]
    BY <1>2 DEF Larger, IInv, AckTruthful
  <2>2. \A d \in Clients : acked'[d] = IF d = c THEN Larger(acked[c], ack) ELSE acked[d]
    BY DEF IInv, TypeOK
  <2> QED  BY <1>2, <2>1, <2>2 DEF IInv, AckTruthful
<1>5. TypeOK'
  <2>1. acked' \in [Clients -> Nat]
    BY <1>4 DEF IInv, TypeOK
  <2> QED  BY <2>1 DEF IInv, TypeOK, clientVars, Window
<1>6. AckTruthful'
  <2> SUFFICES ASSUME NEW d \in Clients
               PROVE  /\ acked'[d] <= cstart[d] /\ cstart[d] <= SendSeq(d)
                      /\ d \in Up => start <= acked'[d]
    BY <1>1 DEF AckTruthful, clientVars
  <2> QED  BY <1>2, <1>3, <1>4 DEF IInv, AckTruthful
<1>7. NearAcks'
  <2> SUFFICES ASSUME NEW b \in Up, NEW d \in Up
               PROVE  SendSeq(b) <= acked'[d] + MaxUnacked + 1
    BY <1>1 DEF NearAcks
  <2> QED  BY <1>1, <1>2, <1>4, Params DEF IInv, NearAcks
<1>8. (NearOwn /\ NearStart /\ Paired)'
  BY <1>1 DEF IInv, NearOwn, NearStart, Paired, clientVars
<1>9. Complete'
  BY <1>1 DEF IInv, Complete
<1>10. (Made /\ NotOutrun)'
  BY <1>1, PlayersAre DEF IInv, Made, NotOutrun, clientVars
<1>11. (Received /\ Throttled)'
  BY <1>1 DEF IInv, Received, Throttled, clientVars
<1> QED  BY <1>5, <1>6, <1>7, <1>8, <1>9, <1>10, <1>11 DEF IInv

LEMMA ParseGameDataKeeps ==
    ASSUME IInv, NEW p \in Players, NEW ack \in 0..cstart[p],
           NEW first \in 0..maketic[p] - 1, NEW last \in first..maketic[p] - 1,
           ParseGameData(p, first, last, ack)
    PROVE  IInv'
<1>1. p \in Clients /\ maketic[p] \in Nat /\ Window(start) \subseteq Nat
  BY PlayersAre, Counts, Params DEF IInv, TypeOK, Window
<1>2. first + (last - first) = last /\ first \in Nat /\ last \in Nat
  BY <1>1
<1>3. have' = [have EXCEPT ![p] = @ \cup (Window(start) \cap first..last)]
  BY <1>2, UnderstoodTic DEF ParseGameData
<1>4. acked' = [acked EXCEPT ![p] = Larger(@, ack)]
  BY <1>1, UnderstoodAck DEF ParseGameData, Acknowledge
<1>5. \A q \in Players : have'[q] = IF q = p THEN have[p] \cup (Window(start) \cap first..last)
                                    ELSE have[q]
  BY <1>3 DEF IInv, TypeOK
<1>6. have' \in [Players -> SUBSET Nat]
  BY <1>1, <1>3 DEF IInv, TypeOK
<1>7. \A t \in first..last : t < maketic[p]
  BY <1>1, <1>2
<1>8. \A q \in Players : have[q] \subseteq have'[q] /\ have'[q] \subseteq Window(start)
  BY <1>5 DEF IInv, TypeOK
<1>9. \A q \in Players : \A t \in have'[q] : t < maketic[q]
  BY <1>5, <1>7 DEF IInv, Made
<1>10. UNCHANGED <<start, live, sent, ran, clientVars>>
  BY DEF ParseGameData
<1> QED  BY <1>1, <1>4, <1>6, <1>8, <1>9, <1>10, PacketKeeps

LEMMA ParseGameDataACKKeeps ==
    ASSUME IInv, NEW c \in Clients, NEW ack \in 0..cstart[c], ParseGameDataACK(c, ack)
    PROVE  IInv'
<1>1. acked' = [acked EXCEPT ![c] = Larger(@, ack)] /\ UNCHANGED <<start, have, live, sent, ran, clientVars>>
  BY UnderstoodAck DEF ParseGameDataACK, Acknowledge
<1>2. /\ have' \in [Players -> SUBSET Nat]
      /\ \A p \in Players : have[p] \subseteq have'[p] /\ have'[p] \subseteq Window(start)
      /\ \A p \in Players : \A t \in have'[p] : t < maketic[p]
  BY <1>1 DEF IInv, TypeOK, Made
<1> QED  BY <1>1, <1>2, PacketKeeps

\* When clients go, or have been run and nothing is made for them.
LEMMA FewerUpKeeps ==
    ASSUME IInv, live' \in [Clients -> {"up", "asleep", "gone"}], Up' \subseteq Up,
           ran \subseteq ran', ran' \subseteq Clients,
           UNCHANGED <<start, have, sent, acked, clientVars>>
    PROVE  IInv'
<1>1. /\ \A d \in Clients : SendSeq(d)' = SendSeq(d) /\ Others(d)' \subseteq Others(d)
      /\ Up \subseteq Clients
  BY DEF Up, SendSeq, Others
<1>2. TypeOK'
  BY DEF IInv, TypeOK, clientVars, Window
<1>3. (AckTruthful /\ NearAcks /\ NearOwn /\ Received /\ Throttled)'
  BY <1>1 DEF IInv, AckTruthful, NearAcks, NearOwn, Received, Throttled, clientVars
<1>4. NearStart'
  BY <1>1 DEF IInv, NearStart
<1>5. Complete'
  BY <1>1 DEF IInv, Complete
<1>6. Paired'
  BY <1>1 DEF IInv, Paired
<1>7. (Made /\ NotOutrun)'
  BY <1>1, PlayersAre DEF IInv, Made, NotOutrun, clientVars
<1> QED  BY <1>2, <1>3, <1>4, <1>5, <1>6, <1>7 DEF IInv

LEMMA ParseDisconnectKeeps ==
    ASSUME IInv, NEW c \in Clients, ParseDisconnect(c)
    PROVE  IInv'
<1>1. live' = [live EXCEPT ![c] = "asleep"] /\ UNCHANGED <<start, have, sent, acked, ran, clientVars>>
  BY DEF ParseDisconnect
<1>2. live' \in [Clients -> {"up", "asleep", "gone"}] /\ Up' \subseteq Up
  BY <1>1 DEF IInv, TypeOK, Up
<1>3. ran' = ran /\ ran \subseteq Clients
  BY <1>1 DEF IInv, TypeOK
<1> QED  BY <1>1, <1>2, <1>3, FewerUpKeeps

LEMMA OneMore ==
    \A n, a, b, i, j \in Int : n <= a + i /\ a <= b /\ i <= j => n + 1 <= b + j + 1
  OBVIOUS

\* A tic is made for c.
LEMMA PumpKeeps ==
    ASSUME IInv, NEW c \in Clients, c \notin ran, ran' = ran \cup {c}, CanPump(c),
           sent' = [sent EXCEPT ![c] = Append(@, FullTic(c))],
           UNCHANGED <<start, have, live, acked, clientVars>>
    PROVE  IInv'
<1> DEFINE n == SendSeq(c)
<1>1. /\ Up' = Up /\ Up \subseteq Clients /\ c \in Up
      /\ \A d \in Clients : Others(d)' = Others(d) /\ Others(d) \subseteq (Players \cap Up) \ {d}
  BY DEF Up, Others, CanPump
<1>2. /\ sent' \in [Clients -> Seq(SUBSET Players)]
      /\ \A d \in Clients : SendSeq(d)' = IF d = c THEN n + 1 ELSE SendSeq(d)
  <2>1. FullTic(c) \in SUBSET Players /\ sent[c] \in Seq(SUBSET Players)
    BY DEF FullTic, IInv, TypeOK
  <2>2. Append(sent[c], FullTic(c)) \in Seq(SUBSET Players)
        /\ Len(Append(sent[c], FullTic(c))) = Len(sent[c]) + 1
    BY <2>1
  <2> QED  BY <2>2 DEF IInv, TypeOK, SendSeq
<1>3. \A d \in Clients : /\ SendSeq(d) \in Nat /\ acked[d] \in Nat /\ cstart[d] \in Nat
                         /\ maketic[d] \in Nat
  BY Counts DEF IInv
<1>4. start \in Nat /\ n \in Nat
  BY <1>3 DEF IInv, TypeOK
<1>5. \A d \in Up : n <= acked[d] + MaxUnacked
  <2>1. \A d \in Up : acked[d] >= n - MaxUnacked
    BY DEF CanPump, AllAcknowledged
  <2> QED  BY <1>1, <1>3, <1>4, <2>1, Params
<1>6. /\ \A p \in Others(c) : n \in have[p]
      /\ Others(c) = {} => n <= start + SoloAhead
  BY DEF CanPump
<1>7. \A d \in Clients : SendSeq(d)' \in Nat /\ SendSeq(d) <= SendSeq(d)'
  BY <1>2, <1>3, <1>4
<1> HIDE DEF n
<1>8. TypeOK'
  BY <1>2 DEF IInv, TypeOK, clientVars, Window
<1>9. AckTruthful'
  <2> SUFFICES ASSUME NEW d \in Clients
               PROVE  /\ acked[d] <= cstart[d] /\ cstart[d] <= SendSeq(d)'
                      /\ d \in Up => start <= acked[d]
    BY <1>1 DEF AckTruthful, clientVars
  <2> QED  BY <1>3, <1>7 DEF IInv, AckTruthful
<1>10. NearAcks'
  <2> SUFFICES ASSUME NEW b \in Up, NEW d \in Up
               PROVE  SendSeq(b)' <= acked[d] + MaxUnacked + 1
    BY <1>1 DEF NearAcks
  <2> QED  BY <1>1, <1>2, <1>3, <1>4, <1>5, Params, SMTT(40) DEF IInv, NearAcks
<1>11. NearOwn'
  <2> SUFFICES ASSUME NEW d \in Clients
               PROVE  SendSeq(d)' <= cstart[d] + MaxUnacked + 1
    BY DEF NearOwn, clientVars
  <2>1. acked[c] <= cstart[c] /\ n <= acked[c] + MaxUnacked
    BY <1>1, <1>5 DEF IInv, AckTruthful
  <2>2. n + 1 <= cstart[c] + MaxUnacked + 1
    <3>1. acked[c] \in Int /\ cstart[c] \in Int /\ n \in Int /\ MaxUnacked \in Int
      BY <1>3, <1>4, ParamTypes
    <3> QED  BY <2>1, <3>1, OneMore
  <2> QED  BY <1>2, <2>2 DEF IInv, NearOwn
<1>12. NearStart'
  <2>1. n <= start + MaxUnacked + 1 \/ n <= start + SoloAhead
    BY <1>1, <1>6 DEF IInv, NearStart, n
  <2>2. n + 1 <= start + Larger(MaxUnacked + 2, SoloAhead + 1)
    BY <1>4, <2>1, Params DEF Larger
  <2>3. \A d \in Clients : SendSeq(d)' <= start + Larger(MaxUnacked + 2, SoloAhead + 1)
    BY <1>2, <2>2 DEF IInv, NearStart
  <2>4. \A d \in Up : Others(d) # {} /\ d \notin ran' => SendSeq(d)' <= start + MaxUnacked + 1
    BY <1>1, <1>2 DEF IInv, NearStart
  <2> QED  BY <1>1, <2>3, <2>4 DEF NearStart
<1>13. Complete'
  <2> SUFFICES ASSUME NEW d \in Clients, NEW p \in Others(d), NEW t \in Nat, t < SendSeq(d)'
               PROVE  t < start \/ t \in have[p]
    BY <1>1 DEF Complete
  <2>1. CASE t < SendSeq(d)
    BY <2>1 DEF IInv, Complete
  <2>2. CASE ~(t < SendSeq(d))
    <3>1. d = c /\ t = n
      BY <1>2, <1>3, <1>4, <2>2 DEF n
    <3> QED  BY <1>6, <3>1
  <2> QED  BY <2>1, <2>2
<1>14. \A q \in Others(c) : n + 1 <= SendSeq(q) + MaxUnacked + 1
  <2> SUFFICES ASSUME NEW q \in Others(c) PROVE n + 1 <= SendSeq(q) + MaxUnacked + 1
    OBVIOUS
  <2>1. q \in Clients /\ n <= acked[q] + MaxUnacked
    BY <1>1, <1>5
  <2>2. acked[q] <= cstart[q] /\ cstart[q] <= SendSeq(q)
    BY <2>1 DEF IInv, AckTruthful
  <2> QED  BY <1>3, <1>4, <2>1, <2>2, Params
<1>15. Paired'
  <2> SUFFICES ASSUME NEW b \in Up
               PROVE  \/ SendSeq(b)' <= start + SoloAhead + 1
                      \/ \E d \in Clients \ {b} : SendSeq(b)' <= SendSeq(d)' + MaxUnacked + 1
    BY <1>1 DEF Paired
  <2>1. CASE b = c /\ Others(c) = {}
    BY <1>2, <1>4, <1>6, <2>1, Params
  <2>2. CASE b = c /\ Others(c) # {}
    <3>1. PICK q \in Others(c) : TRUE
      BY <2>2
    <3>2. q \in Clients \ {c}
      BY <1>1, <3>1
    <3> QED  BY <1>2, <1>14, <2>2, <3>2
  <2>3. CASE b # c
    <3>1. \/ SendSeq(b) <= start + SoloAhead + 1
          \/ \E d \in Clients \ {b} : SendSeq(b) <= SendSeq(d) + MaxUnacked + 1
      BY DEF IInv, Paired
    <3>2. SendSeq(b)' = SendSeq(b) /\ SendSeq(b) \in Nat
      BY <1>1, <1>2, <1>3, <2>3
    <3>3. ASSUME NEW d \in Clients \ {b}, SendSeq(b) <= SendSeq(d) + MaxUnacked + 1
          PROVE  SendSeq(b)' <= SendSeq(d)' + MaxUnacked + 1
      BY <1>3, <1>7, <3>2, <3>3, Params
    <3> QED  BY <3>1, <3>2, <3>3
  <2> QED  BY <2>1, <2>2, <2>3
<1>16. Made'
  BY <1>1 DEF IInv, Made, clientVars
<1>17. NotOutrun'
  <2> DEFINE lead == Larger(MaxUnacked, SoloAhead)
  <2>1. lead \in Int /\ lead >= MaxUnacked /\ lead >= SoloAhead
    BY LargerOf, Params
  <2>2. ASSUME c \in Players PROVE n + 1 <= maketic[c] + lead + 1
    <3>1. CASE Others(c) = {}
      <4>1. start <= maketic[c] /\ n <= start + SoloAhead /\ maketic[c] \in Nat
        BY <1>1, <1>3, <1>6, <2>2, <3>1 DEF IInv, Made
      <4>2. n \in Int /\ start \in Int /\ maketic[c] \in Int /\ SoloAhead \in Int
        BY <1>4, <4>1, ParamTypes
      <4> HIDE DEF lead
      <4> QED  BY <2>1, <4>1, <4>2, OneMore
    <3>2. CASE Others(c) # {}
      <4>1. PICK q \in Others(c) : TRUE
        BY <3>2
      <4>2. q \in Clients /\ c \in Others(q)
        BY <1>1, <2>2, <4>1 DEF Others
      <4>3. ~(maketic[c] < SendSeq(q))
        <5> SUFFICES ASSUME maketic[c] < SendSeq(q) PROVE FALSE
          OBVIOUS
        <5>1. maketic[c] < start \/ maketic[c] \in have[c]
          BY <1>3, <4>2 DEF IInv, Complete
        <5>2. start <= maketic[c] /\ ~(maketic[c] < maketic[c])
          BY <1>1, <1>3, <2>2 DEF IInv, Made
        <5> QED  BY <1>3, <1>4, <2>2, <5>1, <5>2 DEF IInv, Made
      <4>4. n \in Int /\ SendSeq(q) \in Int /\ maketic[c] \in Int /\ MaxUnacked \in Int
        <5>1. SendSeq(q) \in Nat /\ maketic[c] \in Nat
          BY <1>3, <4>2
        <5> QED  BY <1>4, <5>1, ParamTypes
      <4>5. n + 1 <= SendSeq(q) + MaxUnacked + 1
        BY <1>14, <4>1
      <4>6. n <= SendSeq(q) + MaxUnacked /\ SendSeq(q) <= maketic[c]
        BY <4>3, <4>4, <4>5
      <4> HIDE DEF lead
      <4> QED  BY <2>1, <4>4, <4>6, OneMore
    <3> QED  BY <3>1, <3>2
  <2>3. \A p \in Players : SendSeq(p)' <= maketic[p] + lead + 1
    BY <1>2, <2>2, PlayersAre DEF IInv, NotOutrun
  <2> QED  BY <2>3 DEF NotOutrun, clientVars
<1>18. Received'
  <2>1. \A d \in Clients : \A t \in chave[d] : t \in Nat /\ t < SendSeq(d)
    BY DEF IInv, TypeOK, Received
  <2>2. \A d \in Clients : \A t \in chave[d] : t < SendSeq(d)'
    BY <1>3, <1>7, <2>1
  <2> QED  BY <2>2 DEF Received, clientVars
<1>19. Throttled'
  BY DEF IInv, Throttled, clientVars
<1> QED  BY <1>8, <1>9, <1>10, <1>11, <1>12, <1>13, <1>15, <1>16, <1>17, <1>18, <1>19 DEF IInv

LEMMA RunClientKeeps ==
    ASSUME IInv, NEW c \in Clients, RunClient(c)
    PROVE  IInv'
<1>1. c \notin ran /\ ran' = ran \cup {c} /\ UNCHANGED <<start, have, acked, clientVars>>
  BY DEF RunClient
<1>2. ran \subseteq ran' /\ ran' \subseteq Clients
  BY <1>1 DEF IInv, TypeOK
<1>3. CASE Goes(c)
  <2>1. live' \in [Clients -> {"up", "asleep", "gone"}] /\ Up' \subseteq Up /\ sent' = sent
    BY <1>3 DEF Goes, IInv, TypeOK, Up
  <2> QED  BY <1>1, <1>2, <2>1, FewerUpKeeps
<1>4. CASE Pump(c) /\ CanPump(c)
  BY <1>1, <1>4, PumpKeeps DEF Pump
<1>5. CASE Pump(c) /\ ~CanPump(c)
  <2>1. live' \in [Clients -> {"up", "asleep", "gone"}] /\ Up' \subseteq Up /\ sent' = sent
    BY <1>5 DEF Pump, IInv, TypeOK, Up
  <2> QED  BY <1>1, <1>2, <2>1, FewerUpKeeps
<1> QED  BY <1>3, <1>4, <1>5 DEF RunClient

LEMMA EndPassKeeps ==
    ASSUME IInv, EndPass
    PROVE  IInv'
<1>1. PICK next \in start..start + BackupTics :
        /\ \A tic \in start..next - 1 : CanAdvance(tic)
        /\ ~CanAdvance(next)
        /\ start' = next
        /\ have' = [p \in Players |-> {t \in have[p] : t >= next}]
  BY DEF EndPass
<1>2. ran' = {} /\ UNCHANGED <<live, sent, acked, clientVars>>
  BY DEF EndPass
<1>3. /\ Up' = Up /\ Up \subseteq Clients
      /\ \A d \in Clients : SendSeq(d)' = SendSeq(d) /\ Others(d)' = Others(d)
      /\ \A d \in Clients : Others(d) = (Players \cap Up) \ {d}
  BY <1>2 DEF Up, Others, SendSeq
<1>4. /\ start \in Nat /\ next \in Nat /\ start <= next /\ next <= start + BackupTics
      /\ \A d \in Clients : /\ SendSeq(d) \in Nat /\ acked[d] \in Nat
                            /\ cstart[d] \in Nat /\ maketic[d] \in Nat
  BY <1>1, Counts, Params, SMTT(40) DEF IInv, TypeOK
<1>5. next > start => CanAdvance(next - 1)
  BY <1>1, <1>4
<1>6. \A d \in Up : next <= acked[d]
  <2> SUFFICES ASSUME NEW d \in Up PROVE next <= acked[d]
    OBVIOUS
  <2>1. CASE next = start
    BY <1>3, <2>1 DEF IInv, AckTruthful
  <2>2. CASE next > start
    BY <1>3, <1>4, <1>5, <2>2 DEF CanAdvance, AllAcknowledged
  <2> QED  BY <1>4, <2>1, <2>2
<1>7. \A p \in Players \cap Up : next <= maketic[p]
  <2> SUFFICES ASSUME NEW p \in Players \cap Up PROVE next <= maketic[p]
    OBVIOUS
  <2>1. CASE next = start
    BY <2>1 DEF IInv, Made
  <2>2. CASE next > start
    <3>1. next - 1 \in have[p]
      BY <1>5, <2>2 DEF CanAdvance
    <3>2. next - 1 < maketic[p]
      BY <3>1 DEF IInv, Made
    <3> QED  BY <1>3, <1>4, <3>2
  <2> QED  BY <1>4, <2>1, <2>2
<1>8. \A p \in Players : have'[p] = {t \in have[p] : t >= next}
  BY <1>1
<1>9. TypeOK'
  <2>1. \A p \in Players : have'[p] \in SUBSET Nat
    BY <1>8 DEF IInv, TypeOK
  <2>2. have' \in [Players -> SUBSET Nat]
    BY <1>1, <2>1
  <2>3. ASSUME NEW p \in Players, NEW t \in have'[p] PROVE t \in Window(next)
    <3>1. t \in Nat /\ t \in Window(start) /\ t >= next
      BY <1>8, <2>3 DEF IInv, TypeOK
    <3> QED  BY <1>4, <3>1, Params DEF Window
  <2> QED  BY <1>1, <1>2, <1>4, <2>2, <2>3 DEF IInv, TypeOK, clientVars, Window
<1>10. (AckTruthful /\ NearAcks /\ NearOwn)'
  BY <1>1, <1>2, <1>3, <1>6 DEF IInv, AckTruthful, NearAcks, NearOwn, clientVars
<1>11. Complete'
  <2> SUFFICES ASSUME NEW d \in Clients, NEW p \in Others(d), NEW t \in Nat, t < SendSeq(d)
               PROVE  t < next \/ t \in have'[p]
    BY <1>1, <1>3 DEF Complete
  <2>1. t < start \/ t \in have[p]
    BY DEF IInv, Complete
  <2>2. p \in Players
    BY <1>3
  <2> QED  BY <1>4, <1>8, <2>1, <2>2
<1>12. NearStart'
  <2>1. \A d \in Clients : SendSeq(d) <= next + Larger(MaxUnacked + 2, SoloAhead + 1)
    <3> SUFFICES ASSUME NEW d \in Clients
                 PROVE  SendSeq(d) <= next + Larger(MaxUnacked + 2, SoloAhead + 1)
      OBVIOUS
    <3>1. Larger(MaxUnacked + 2, SoloAhead + 1) \in Int
      BY LargerOf, Params
    <3>2. SendSeq(d) <= start + Larger(MaxUnacked + 2, SoloAhead + 1)
      BY DEF IInv, NearStart
    <3> QED  BY <1>4, <3>1, <3>2
  <2>2. ASSUME NEW d \in Up, Others(d) # {}
        PROVE  SendSeq(d) <= next + MaxUnacked + 1
    <3>1. PICK q \in Others(d) : TRUE
      BY <2>2
    <3>2. d \in Clients /\ q \in Clients /\ q \in Up /\ q # d /\ q \in Players \cap Up
      BY <1>3, <2>2, <3>1
    <3>3. \/ \E b \in Up : ~(acked[b] >= next + 1)
          \/ \E b \in Players \cap Up : next \notin have[b]
      BY <1>1, <3>2 DEF CanAdvance, AllAcknowledged
    <3>4. ASSUME NEW b \in Up, ~(acked[b] >= next + 1)
          PROVE  SendSeq(d) <= next + MaxUnacked + 1
      <4>1. SendSeq(d) <= acked[b] + MaxUnacked + 1 /\ b \in Clients
        BY <1>3, <2>2 DEF IInv, NearAcks
      <4> QED  BY <1>4, <3>2, <3>4, <4>1, Params
    <3>5. ASSUME NEW b \in Players \cap Up, next \notin have[b], b # d
          PROVE  SendSeq(d) <= next + MaxUnacked + 1
      <4>1. ~(next < SendSeq(d))
        BY <1>3, <1>4, <3>2, <3>5 DEF IInv, Complete
      <4> QED  BY <1>4, <3>2, <4>1, Params
    <3>6. ASSUME d \in Players, next \notin have[d]
          PROVE  SendSeq(d) <= next + MaxUnacked + 1
      <4>1. d \in Others(q)
        BY <1>3, <2>2, <3>2, <3>6
      <4>2. ~(next < SendSeq(q))
        BY <1>4, <3>2, <3>6, <4>1 DEF IInv, Complete
      <4>3. acked[q] <= cstart[q] /\ cstart[q] <= SendSeq(q)
            /\ SendSeq(d) <= acked[q] + MaxUnacked + 1
        BY <2>2, <3>2 DEF IInv, AckTruthful, NearAcks
      <4> QED  BY <1>4, <3>2, <4>2, <4>3, Params
    <3> QED  BY <3>3, <3>4, <3>5, <3>6
  <2> QED  BY <1>1, <1>3, <2>1, <2>2 DEF NearStart
<1>13. Paired'
  <2> SUFFICES ASSUME NEW b \in Up
               PROVE  \/ SendSeq(b) <= next + SoloAhead + 1
                      \/ \E d \in Clients \ {b} : SendSeq(b) <= SendSeq(d) + MaxUnacked + 1
    BY <1>1, <1>3 DEF Paired
  <2>1. \/ SendSeq(b) <= start + SoloAhead + 1
        \/ \E d \in Clients \ {b} : SendSeq(b) <= SendSeq(d) + MaxUnacked + 1
    BY DEF IInv, Paired
  <2>2. SendSeq(b) <= start + SoloAhead + 1 => SendSeq(b) <= next + SoloAhead + 1
    BY <1>3, <1>4, Params
  <2> QED  BY <2>1, <2>2
<1>14. (Made /\ NotOutrun)'
  BY <1>1, <1>2, <1>3, <1>7, <1>8, PlayersAre DEF IInv, Made, NotOutrun, clientVars
<1>15. (Received /\ Throttled)'
  BY <1>2, <1>3 DEF IInv, Received, Throttled, clientVars
<1> QED  BY <1>9, <1>10, <1>11, <1>12, <1>13, <1>14, <1>15 DEF IInv

-----------------------------------------------------------------------------
(* The theorems.                                                           *)

LEMMA InitHolds == Init => IInv
<1> SUFFICES ASSUME Init PROVE IInv
  OBVIOUS
<1>1. /\ start = FirstTic /\ ran = {} /\ FirstTic \in Nat /\ Players \subseteq Clients
      /\ Up = Clients
  BY Params, PlayersAre DEF Init, Up
<1>2. \A c \in Clients : /\ sent[c] \in Seq(SUBSET Players) /\ SendSeq(c) = FirstTic
  <2> SUFFICES ASSUME NEW c \in Clients
               PROVE  sent[c] \in Seq(SUBSET Players) /\ SendSeq(c) = FirstTic
    OBVIOUS
  <2>1. sent[c] = [t \in 1..FirstTic |-> Players \ {c}]
    BY DEF Init
  <2>2. sent[c] \in [1..FirstTic -> SUBSET Players]
    BY <2>1
  <2> QED  BY <1>1, <2>1, <2>2 DEF SendSeq
<1>3. \A c \in Clients : acked[c] = FirstTic /\ cstart[c] = FirstTic /\ gametic[c] = FirstTic
  BY DEF Init
<1>4. \A p \in Players : maketic[p] = FirstTic /\ have[p] = {}
  BY PlayersAre DEF Init, Players
<1>5. TypeOK
  <2>1. sent \in [Clients -> Seq(SUBSET Players)]
    BY <1>2 DEF Init
  <2>2. maketic \in [Clients -> Nat] /\ gametic \in [Clients -> Nat] /\ cstart \in [Clients -> Nat]
        /\ acked \in [Clients -> Nat]
    BY <1>1 DEF Init
  <2>3. at \in [Clients -> {"blocked", "playing", "left"}]
        /\ live \in [Clients -> {"up", "asleep", "gone"}]
    BY DEF Init
  <2>4. have \in [Players -> SUBSET Nat] /\ chave \in [Clients -> SUBSET Nat]
    BY DEF Init
  <2> QED  BY <1>1, <2>1, <2>2, <2>3, <2>4 DEF Init, TypeOK
<1>6. \A c \in Clients : at[c] = "blocked" => FirstTic = 0
  BY DEF Init
<1>7. AckTruthful /\ NearAcks /\ NearOwn
  BY <1>1, <1>2, <1>3, Params DEF AckTruthful, NearAcks, NearOwn
<1>8. NearStart /\ Paired
  BY <1>1, <1>2, Params DEF NearStart, Paired, Larger
<1>9. Complete
  BY <1>1, <1>2 DEF Complete
<1>10. Made /\ NotOutrun
  BY <1>1, <1>2, <1>4, Params, SMTT(40) DEF Made, NotOutrun, Larger
<1>11. Received /\ Throttled
  BY <1>1, <1>3, <1>4, <1>6, Params DEF Init, Received, Throttled
<1> QED  BY <1>5, <1>7, <1>8, <1>9, <1>10, <1>11 DEF IInv

LEMMA StutterKeeps == IInv /\ UNCHANGED vars => IInv'
<1> SUFFICES ASSUME IInv, UNCHANGED vars PROVE IInv'
  OBVIOUS
<1>1. UNCHANGED serverVars /\ UNCHANGED clientVars
  BY DEF vars
<1>2. (NearAcks /\ NearStart /\ Complete /\ Paired)'
  BY <1>1, ServerSide
<1>3. /\ Up' = Up /\ \A d \in Clients : SendSeq(d)' = SendSeq(d)
  BY <1>1, ServerSame
<1>4. TypeOK'
  BY <1>1 DEF IInv, TypeOK, serverVars, clientVars, Window
<1>5. (AckTruthful /\ NearOwn /\ Received /\ Made /\ NotOutrun /\ Throttled)'
  BY <1>1, <1>3, PlayersAre
     DEF IInv, AckTruthful, NearOwn, Received, Made, NotOutrun, Throttled, serverVars, clientVars
<1> QED  BY <1>2, <1>4, <1>5 DEF IInv

LEMMA StepKeeps == IInv /\ [Next]_vars => IInv'
<1> SUFFICES ASSUME IInv, [Next]_vars PROVE IInv'
  OBVIOUS
<1>1. CASE EndPass
  BY <1>1, EndPassKeeps
<1>2. ASSUME NEW c \in Clients, RunClient(c) PROVE IInv'
  BY <1>2, RunClientKeeps
<1>3. ASSUME NEW c \in Clients, ClientStep(c) PROVE IInv'
  <2>1. ASSUME NEW first \in FreshTics(cstart[c], SendSeq(c)),
               NEW last \in first..SendSeq(c) - 1, ClientParseGameData(c, first, last)
        PROVE  IInv'
    <3>1. cstart[c] \in Int /\ SendSeq(c) \in Int
      BY Counts DEF IInv
    <3>2. first \in 0..SendSeq(c) - 1
      BY <3>1, FreshOnes
    <3> QED  BY <2>1, <3>2, ClientParseGameDataKeeps
  <2> QED  BY <1>3, <2>1, ParseGameStartKeeps, ClientAdvanceWindowKeeps, BuildNewTicKeeps,
              RunTicKeeps, LeaveKeeps DEF ClientStep
<1>4. ASSUME NEW c \in Clients, FromClient(c) PROVE IInv'
  <2>1. start \in Int /\ cstart[c] \in Nat
    BY Counts DEF IInv, TypeOK
  <2>2. ASSUME NEW ack \in FreshTics(start, cstart[c] + 1) PROVE ack \in 0..cstart[c]
    <3>1. ack \in 0..(cstart[c] + 1) - 1
      BY <2>1, FreshOnes
    <3> QED  BY <2>1, <3>1
  <2>3. ASSUME NEW ack \in FreshTics(start, cstart[c] + 1), ParseGameDataACK(c, ack)
        PROVE  IInv'
    BY <2>2, <2>3, ParseGameDataACKKeeps
  <2>4. ASSUME NEW ack \in FreshTics(start, cstart[c] + 1), c \in Players,
               NEW first \in FreshTics(start, maketic[c]), NEW last \in first..maketic[c] - 1,
               ParseGameData(c, first, last, ack)
        PROVE  IInv'
    <3>1. maketic[c] \in Int
      BY Counts DEF IInv
    <3>2. first \in 0..maketic[c] - 1
      BY <2>1, <3>1, FreshOnes
    <3> QED  BY <2>2, <2>4, <3>2, ParseGameDataKeeps
  <2> QED  BY <1>4, <2>3, <2>4, ParseDisconnectKeeps DEF FromClient
<1>5. CASE UNCHANGED vars
  BY <1>5, StutterKeeps
<1> QED  BY <1>1, <1>2, <1>3, <1>4, <1>5 DEF Next

LEMMA Invariant == Spec => []IInv
  BY InitHolds, StepKeeps, PTL DEF Spec

\* Every reachable state has the types of TypeOK: in particular, no window of
\* the server or of a client ever holds a tic that is outside of it.
THEOREM TypeCorrect == Spec => []TypeOK
<1>1. IInv => TypeOK
  BY DEF IInv
<1> QED  BY Invariant, <1>1, PTL

\* A byte of a tic number is always understood, however many tics are played.
THEOREM TicsAreUnderstood == Spec => []TicsUnderstood
  BY Invariant, Understood, PTL

\* The server takes no client to have what it does not have, and never advances
\* its window beyond what a client has.
THEOREM AcksAreTruthful == Spec => []AckTruthful
<1>1. IInv => AckTruthful
  BY DEF IInv
<1> QED  BY Invariant, <1>1, PTL

\* What may be asked for again is still in the queue it would come from.
THEOREM NothingIsForgotten == Spec => []NothingForgotten
  BY Invariant, Forgotten, PTL

\* The ring of ticcmds of a player that is to run them is never overrun.
THEOREM NothingIsOverwritten == Spec => []NothingOverwritten
  BY Invariant, Overwritten, PTL

\* Of the clients that are connected one has been sent the fewest tics.
LEMMA OneIsLast ==
    ASSUME TypeOK, Up # {}
    PROVE  \E c \in Up : \A d \in Up : SendSeq(c) <= SendSeq(d)
<1> DEFINE T == {SendSeq(c) : c \in Up}
           R == OpToRel(<, Nat)
<1>1. T \subseteq Nat /\ T # {}
  BY Sent DEF Up
<1>2. IsWellFoundedOn(R, Nat)
  BY NatLessThanWellFounded
<1>3. \E t \in T : \A u \in T : ~(<<u, t>> \in R)
  <2> HIDE DEF T, R
  <2> QED  BY <1>1, <1>2, WFMin
<1>4. PICK t \in T : \A u \in T : ~(u < t)
  BY <1>1, <1>3 DEF OpToRel
<1>5. PICK c \in Up : t = SendSeq(c)
  BY <1>4
<1>6. ASSUME NEW d \in Up PROVE SendSeq(c) <= SendSeq(d)
  <2>1. SendSeq(d) \in Nat /\ SendSeq(c) \in Nat /\ ~(SendSeq(d) < SendSeq(c))
    BY <1>4, <1>5, Sent DEF Up
  <2> QED  BY <2>1
<1> QED  BY <1>6

\* Everyone has run what it was sent and made more than that.  The client that was sent
\* least can be sent more, unless it waits for the window; then the window can move.
LEMMA Standoff == IInv => NoStandoff
<1> SUFFICES ASSUME IInv, Settled, Players \cap Up # {},
                    \A p \in Players \cap Up : ~(maketic[p] - gametic[p] <= MaxAhead),
                    \A c \in Up : ~(gametic[c] < LowTic(c)),
                    ~CanAdvance(start)
             PROVE  \E c \in Up : CanPump(c)
  BY DEF NoStandoff
<1>1. TypeOK /\ AckTruthful /\ Throttled /\ NearStart
  BY DEF IInv
<1>2. \A p \in Players \cap Up : SendSeq(p) < maketic[p]
  <2> SUFFICES ASSUME NEW p \in Players \cap Up PROVE SendSeq(p) < maketic[p]
    OBVIOUS
  <2>1. /\ maketic[p] \in Nat /\ gametic[p] \in Nat /\ cstart[p] \in Nat
        /\ cstart[p] = SendSeq(p)
    BY <1>1, Counts, PlayersAre DEF Settled
  <2>2. ~(gametic[p] < Smaller(maketic[p], cstart[p])) /\ ~(maketic[p] - gametic[p] <= MaxAhead)
    BY DEF LowTic, Players
  <2> QED  BY <2>1, <2>2, Params DEF Smaller
<1>3. PICK c \in Up : \A d \in Up : SendSeq(c) <= SendSeq(d)
  BY <1>1, OneIsLast
<1>4. /\ \A d \in Up : acked[d] = SendSeq(d) /\ SendSeq(d) \in Nat
      /\ start \in Nat /\ start <= SendSeq(c) /\ c \in Clients
  BY <1>1, Sent DEF Settled, AckTruthful, TypeOK, Up
<1>5. \A p \in Players \cap Up : \A t \in Nat :
         start <= t /\ t <= SendSeq(c) /\ t < start + BackupTics => t \in have[p]
  <2> SUFFICES ASSUME NEW p \in Players \cap Up, NEW t \in Nat,
                      start <= t, t <= SendSeq(c), t < start + BackupTics
               PROVE  t \in have[p]
    OBVIOUS
  <2>1. maketic[p] \in Nat /\ SendSeq(c) <= SendSeq(p) /\ SendSeq(p) < maketic[p]
    BY <1>1, <1>2, <1>3, Counts, PlayersAre
  <2>2. t \in Window(start) /\ t \in 0..maketic[p] - 1
    BY <1>4, <2>1, Params DEF Window
  <2> QED  BY <2>2 DEF Settled
<1>6. SendSeq(c) = start
  <2> SUFFICES ASSUME start < SendSeq(c) PROVE CanAdvance(start)
    BY <1>4
  <2>1. \A p \in Players \cap Up : start \in have[p]
    BY <1>4, <1>5, Params
  <2>2. AllAcknowledged(start + 1)
    BY <1>3, <1>4 DEF AllAcknowledged
  <2> QED  BY <2>1, <2>2 DEF CanAdvance
<1>7. AllAcknowledged(SendSeq(c) - MaxUnacked)
  BY <1>3, <1>4, Params DEF AllAcknowledged
<1>8. SendSeq(c) \in Window(start)
  BY <1>4, <1>6, Params DEF Window
<1>9. \A p \in Others(c) : SendSeq(c) \in have[p]
  BY <1>4, <1>5, <1>6, Params DEF Others
<1>10. SendSeq(c) <= start + SoloAhead
  BY <1>4, <1>6, Params
<1> QED  BY <1>7, <1>8, <1>9, <1>10 DEF CanPump

\* The limits on being ahead never hold everyone at once, for any clients, drones and
\* limits, whoever has left and however unevenly the others have been served.
THEOREM NobodyWaitsInVain == Spec => []NoStandoff
  BY Invariant, Standoff, PTL

LEMMA AppendKeeps ==
    ASSUME NEW S, NEW s \in Seq(S), NEW e \in S, NEW i \in 1..Len(s) + 1
    PROVE  Append(s, e)[i] = IF i = Len(s) + 1 THEN e ELSE s[i]
  OBVIOUS

LEMMA SkipNobody == IInv /\ NobodySkipped /\ [Next]_vars => NobodySkipped'
<1> SUFFICES ASSUME IInv, NobodySkipped, [Next]_vars PROVE NobodySkipped'
  OBVIOUS
<1>1. ASSUME UNCHANGED sent, Up' \subseteq Up PROVE NobodySkipped'
  BY <1>1 DEF NobodySkipped, SendSeq
<1>2. ASSUME NEW c \in Clients, CanPump(c), UNCHANGED live,
             sent' = [sent EXCEPT ![c] = Append(@, FullTic(c))]
      PROVE  NobodySkipped'
  <2> SUFFICES ASSUME NEW p \in Players \cap Up, NEW d \in Clients \ {p},
                      NEW t \in 1..SendSeq(d)'
               PROVE  p \in sent'[d][t]
    BY <1>2 DEF NobodySkipped, Up
  <2>1. CASE d # c
    BY <1>2, <2>1 DEF NobodySkipped, SendSeq, IInv, TypeOK
  <2>2. CASE d = c
    <3>1. FullTic(c) \in SUBSET Players /\ sent[c] \in Seq(SUBSET Players)
      BY DEF FullTic, IInv, TypeOK
    <3>2. sent'[c] = Append(sent[c], FullTic(c))
      BY <1>2 DEF IInv, TypeOK
    <3>3. Len(sent[c]) \in Nat /\ t \in 1..Len(sent[c]) + 1
      BY <2>2, <3>1, <3>2 DEF SendSeq
    <3>4. sent'[c][t] = IF t = Len(sent[c]) + 1 THEN FullTic(c) ELSE sent[c][t]
      BY <3>1, <3>2, <3>3, AppendKeeps
    <3>5. p \in FullTic(c)
      BY <1>2, <2>2 DEF CanPump, Others, FullTic
    <3>6. t # Len(sent[c]) + 1 => t \in 1..SendSeq(c)
      BY <3>3 DEF SendSeq
    <3> QED  BY <2>2, <3>4, <3>5, <3>6 DEF NobodySkipped
  <2> QED  BY <2>1, <2>2
<1>3. ASSUME NEW c \in Clients, RunClient(c) PROVE NobodySkipped'
  <2>1. CASE Goes(c)
    BY <1>1, <2>1 DEF Goes, Up
  <2>2. CASE Pump(c) /\ CanPump(c)
    BY <1>2, <2>2 DEF Pump
  <2>3. CASE Pump(c) /\ ~CanPump(c)
    BY <1>1, <2>3 DEF Pump, Up
  <2> QED  BY <1>3, <2>1, <2>2, <2>3 DEF RunClient
<1>4. CASE EndPass
  BY <1>1, <1>4 DEF EndPass, Up
<1>5. ASSUME NEW c \in Clients, ClientStep(c) PROVE NobodySkipped'
  <2>1. UNCHANGED serverVars
    BY <1>5 DEF ClientStep, ParseGameStart, ClientAdvanceWindow, BuildNewTic, RunTic, Leave,
       ClientParseGameData
  <2> QED  BY <1>1, <2>1 DEF serverVars, Up
<1>6. ASSUME NEW c \in Clients, FromClient(c) PROVE NobodySkipped'
  <2>1. UNCHANGED sent
    BY <1>6 DEF FromClient, ParseDisconnect, ParseGameDataACK, ParseGameData
  <2>2. Up' \subseteq Up
    BY <1>6 DEF FromClient, ParseDisconnect, ParseGameDataACK, ParseGameData, Up, IInv, TypeOK
  <2> QED  BY <1>1, <2>1, <2>2
<1>7. CASE UNCHANGED vars
  BY <1>1, <1>7 DEF vars, serverVars, Up
<1> QED  BY <1>3, <1>4, <1>5, <1>6, <1>7 DEF Next

LEMMA SentAtFirst ==
    ASSUME NEW S
    PROVE  LET s == [u \in 1..FirstTic |-> S] IN s \in Seq({S}) /\ Len(s) = FirstTic
  BY Params

LEMMA SkipNobodyAtFirst == Init => NobodySkipped
<1> SUFFICES ASSUME Init, NEW p \in Players, NEW c \in Clients \ {p}, NEW t \in 1..SendSeq(c)
             PROVE  p \in sent[c][t]
  BY DEF NobodySkipped
<1>1. sent[c] = [u \in 1..FirstTic |-> Players \ {c}]
  BY DEF Init
<1>2. sent[c] \in Seq({Players \ {c}}) /\ Len(sent[c]) = FirstTic
  BY <1>1, SentAtFirst
<1> QED  BY <1>1, <1>2 DEF SendSeq

\* No client is ever sent a tic without the ticcmd of a player that is still
\* connected.
THEOREM NobodyIsSkipped == Spec => []NobodySkipped
  BY Invariant, SkipNobody, SkipNobodyAtFirst, PTL DEF Spec

-----------------------------------------------------------------------------
(* NetTics implements LockstepGame.                                        *)

\* What is in a tic for a client was made, and is never its own.
CopiesMade ==
    \A c \in Clients : \A t \in 1..SendSeq(c) :
        sent[c][t] \subseteq {p \in Players \ {c} : t <= maketic[p]}

\* The clients make what they make, and never less of it.
MoreMade == \A p \in Players : maketic[p] <= maketic'[p]

LEMMA CopiesSame ==
    ASSUME IInv, CopiesMade, UNCHANGED sent, MoreMade, \A p \in Players : maketic'[p] \in Nat
    PROVE  CopiesMade'
<1> SUFFICES ASSUME NEW c \in Clients, NEW t \in 1..SendSeq(c), NEW p \in sent[c][t]
             PROVE  p \in Players \ {c} /\ t <= maketic'[p]
  BY DEF CopiesMade, SendSeq
<1>1. p \in Players \ {c} /\ t <= maketic[p]
  BY DEF CopiesMade
<1>2. SendSeq(c) \in Nat /\ maketic[p] \in Nat /\ maketic'[p] \in Nat /\ maketic[p] <= maketic'[p]
  BY <1>1, Counts, PlayersAre DEF IInv, MoreMade
<1> QED  BY <1>1, <1>2

LEMMA PumpCopies ==
    ASSUME IInv, CopiesMade, NEW c \in Clients, UNCHANGED maketic,
           sent' = [sent EXCEPT ![c] = Append(@, FullTic(c))]
    PROVE  CopiesMade'
<1> SUFFICES ASSUME NEW d \in Clients, NEW t \in 1..SendSeq(d)', NEW p \in sent'[d][t]
             PROVE  p \in Players \ {d} /\ t <= maketic[p]
  BY DEF CopiesMade
<1>1. CASE d # c
  BY <1>1 DEF CopiesMade, SendSeq, IInv, TypeOK
<1>2. CASE d = c
  <2>1. FullTic(c) \in SUBSET Players /\ sent[c] \in Seq(SUBSET Players)
    BY DEF FullTic, IInv, TypeOK
  <2>2. sent'[c] = Append(sent[c], FullTic(c))
    BY DEF IInv, TypeOK
  <2>3. Len(sent[c]) \in Nat /\ t \in 1..Len(sent[c]) + 1
    BY <1>2, <2>1, <2>2 DEF SendSeq
  <2>4. sent'[c][t] = IF t = Len(sent[c]) + 1 THEN FullTic(c) ELSE sent[c][t]
    BY <2>1, <2>2, <2>3, AppendKeeps
  <2>5. CASE t = Len(sent[c]) + 1
    <3>1. p \in Players \ {c} /\ SendSeq(c) \in have[p]
      BY <1>2, <2>4, <2>5 DEF FullTic
    <3>2. SendSeq(c) < maketic[p] /\ maketic[p] \in Nat
      BY <3>1, Counts, PlayersAre DEF IInv, Made
    <3> QED  BY <1>2, <2>3, <2>5, <3>1, <3>2 DEF SendSeq
  <2>6. CASE t # Len(sent[c]) + 1
    BY <1>2, <2>3, <2>4, <2>6 DEF CopiesMade, SendSeq
  <2> QED  BY <2>5, <2>6
<1> QED  BY <1>1, <1>2

\* What a step does to what was sent and made: a player makes one more, or one
\* client is sent one more, or neither.
LEMMA StepSends ==
    ASSUME IInv, [Next]_vars
    PROVE  \/ UNCHANGED <<sent, maketic>>
           \/ UNCHANGED sent /\ \E c \in Players : BuildNewTic(c)
           \/ UNCHANGED <<maketic, gametic, live>> /\ \E c \in Clients :
                CanPump(c) /\ sent' = [sent EXCEPT ![c] = Append(@, FullTic(c))]
<1>1. CASE EndPass
  BY <1>1 DEF EndPass, clientVars
<1>2. ASSUME NEW c \in Clients, RunClient(c)
      PROVE  \/ UNCHANGED <<sent, maketic>>
             \/ /\ UNCHANGED <<maketic, gametic, live>> /\ CanPump(c)
                /\ sent' = [sent EXCEPT ![c] = Append(@, FullTic(c))]
  BY <1>2 DEF RunClient, Goes, Pump, clientVars
<1>3. ASSUME NEW c \in Clients, ClientStep(c)
      PROVE  \/ UNCHANGED <<sent, maketic>>
             \/ UNCHANGED sent /\ c \in Players /\ BuildNewTic(c)
  BY <1>3 DEF ClientStep, ParseGameStart, ClientAdvanceWindow, BuildNewTic, RunTic, Leave,
     ClientParseGameData, serverVars, Players
<1>4. ASSUME NEW c \in Clients, FromClient(c) PROVE UNCHANGED <<sent, maketic>>
  BY <1>4 DEF FromClient, ParseDisconnect, ParseGameDataACK, ParseGameData, clientVars
<1>5. CASE UNCHANGED vars
  BY <1>5 DEF vars, serverVars, clientVars
<1> QED  BY <1>1, <1>2, <1>3, <1>4, <1>5 DEF Next

LEMMA CopiesKeep == IInv /\ CopiesMade /\ [Next]_vars => CopiesMade'
<1> SUFFICES ASSUME IInv, CopiesMade, [Next]_vars PROVE CopiesMade'
  OBVIOUS
<1>1. \A p \in Players : maketic[p] \in Nat
  BY PlayersAre DEF IInv, TypeOK
<1>2. CASE UNCHANGED <<sent, maketic>>
  BY <1>1, <1>2, CopiesSame DEF MoreMade
<1>3. ASSUME UNCHANGED sent, NEW c \in Players, BuildNewTic(c) PROVE CopiesMade'
  <2>1. \A p \in Players : maketic'[p] \in {maketic[p], maketic[p] + 1}
    BY <1>3, PlayersAre DEF BuildNewTic, IInv, TypeOK
  <2>2. MoreMade /\ \A p \in Players : maketic'[p] \in Nat
    BY <1>1, <2>1 DEF MoreMade
  <2> QED  BY <1>3, <2>2, CopiesSame
<1>4. ASSUME UNCHANGED maketic, NEW c \in Clients,
             sent' = [sent EXCEPT ![c] = Append(@, FullTic(c))]
      PROVE  CopiesMade'
  BY <1>4, PumpCopies
<1> QED  BY <1>2, <1>3, <1>4, StepSends

LEMMA CopiesAtFirst == Init => CopiesMade
<1> SUFFICES ASSUME Init, NEW c \in Clients, NEW t \in 1..SendSeq(c), NEW p \in sent[c][t]
             PROVE  p \in Players \ {c} /\ t <= maketic[p]
  BY DEF CopiesMade
<1>1. sent[c] = [u \in 1..FirstTic |-> Players \ {c}]
  BY DEF Init
<1>2. sent[c] \in Seq({Players \ {c}}) /\ Len(sent[c]) = FirstTic
  BY <1>1, SentAtFirst
<1>3. t \in 1..FirstTic /\ p \in Players \ {c}
  BY <1>1, <1>2 DEF SendSeq
<1>4. maketic[p] = FirstTic
  BY <1>3 DEF Init, Players
<1> QED  BY <1>3, <1>4, Params

LEMMA CopiesAlways == Spec => []CopiesMade
  BY Invariant, CopiesKeep, CopiesAtFirst, PTL DEF Spec

\* A slow player slows all the others: what a client has run of a player that
\* is still connected was made, and no player makes more than MaxAhead + 1
\* ticcmds ahead of the tics it has run itself.
THEOREM PlayersStayTogether == Spec => []NearTogether
<1>1. ASSUME IInv, NobodySkipped, CopiesMade PROVE NearTogether
  <2> SUFFICES ASSUME NEW p \in Players \cap Up, NEW c \in Clients \ {p}
               PROVE  gametic[c] <= gametic[p] + MaxAhead + 1
    BY DEF NearTogether
  <2>1. /\ gametic[c] \in Nat /\ cstart[c] \in Nat /\ SendSeq(c) \in Nat
        /\ maketic[p] \in Nat /\ gametic[p] \in Nat /\ p \in Players
    BY <1>1, Counts, PlayersAre DEF IInv
  <2>2. gametic[c] <= SendSeq(c) /\ maketic[p] <= gametic[p] + MaxAhead + 1
    BY <1>1, <2>1 DEF IInv, Throttled, AckTruthful
  <2>3. CASE SendSeq(c) = 0
    BY <2>1, <2>2, <2>3, Params
  <2>4. CASE SendSeq(c) # 0
    <3>1. SendSeq(c) \in 1..SendSeq(c)
      BY <2>1, <2>4
    <3>2. p \in sent[c][SendSeq(c)]
      BY <1>1, <3>1 DEF NobodySkipped
    <3>3. SendSeq(c) <= maketic[p]
      BY <1>1, <3>1, <3>2 DEF CopiesMade
    <3> QED  BY <2>1, <2>2, <3>3, Params
  <2> QED  BY <2>3, <2>4
<1> QED  BY <1>1, Invariant, NobodyIsSkipped, CopiesAlways, PTL

LEMMA PrefixGrows ==
    ASSUME NEW S, NEW s \in Seq(S), NEW n \in Nat, n < Len(s)
    PROVE  /\ Len(SubSeq(s, 1, n)) = n
           /\ SubSeq(s, 1, n + 1) = Append(SubSeq(s, 1, n), s[n + 1])
  OBVIOUS

LEMMA PrefixStays ==
    ASSUME NEW S, NEW s \in Seq(S), NEW e \in S, NEW n \in Nat, n <= Len(s)
    PROVE  SubSeq(Append(s, e), 1, n) = SubSeq(s, 1, n)
  OBVIOUS

\* What c has run, as LockstepGame sees it.
Seen(c) == SubSeq(sent[c], 1, gametic[c])

LEMMA RunIsBehind ==
    IInv => \A c \in Clients : /\ gametic[c] \in Nat /\ gametic[c] <= Len(sent[c])
                               /\ sent[c] \in Seq(SUBSET Players)
                               /\ Len(Seen(c)) = gametic[c]
<1> SUFFICES ASSUME IInv, NEW c \in Clients
             PROVE  /\ gametic[c] \in Nat /\ gametic[c] <= Len(sent[c])
                    /\ sent[c] \in Seq(SUBSET Players) /\ Len(Seen(c)) = gametic[c]
  OBVIOUS
<1>1. gametic[c] \in Nat /\ cstart[c] \in Nat /\ SendSeq(c) \in Nat
  BY Counts DEF IInv
<1>2. gametic[c] <= SendSeq(c)
  BY <1>1 DEF IInv, Throttled, AckTruthful
<1>3. sent[c] \in Seq(SUBSET Players)
  BY DEF IInv, TypeOK
<1> QED  BY <1>1, <1>2, <1>3 DEF SendSeq, Seen

LEMMA LeavesTogether ==
    ASSUME IInv, UNCHANGED <<sent, maketic, gametic>>, Up' \subseteq Up
    PROVE  [Game!Next]_Game!gameVars
<1> DEFINE some == (Players \cap Up) \ Up'
<1>1. some \in SUBSET (Players \cap Up) /\ Players \cap Up' = (Players \cap Up) \ some
  OBVIOUS
<1>2. Game!Leave(some)
  BY <1>1 DEF Game!Leave
<1> QED  BY <1>1, <1>2 DEF Game!Next

LEMMA SendsUnseen ==
    ASSUME IInv, NEW c \in Clients, UNCHANGED <<maketic, gametic, live>>,
           sent' = [sent EXCEPT ![c] = Append(@, FullTic(c))]
    PROVE  UNCHANGED Game!gameVars
<1>1. \A d \in Clients : Seen(d)' = Seen(d)
  <2> SUFFICES ASSUME NEW d \in Clients PROVE SubSeq(sent'[d], 1, gametic[d]) = SubSeq(sent[d], 1, gametic[d])
    BY DEF Seen
  <2>1. FullTic(c) \in SUBSET Players
    BY DEF FullTic
  <2>2. sent'[d] = IF d = c THEN Append(sent[d], FullTic(c)) ELSE sent[d]
    BY DEF IInv, TypeOK
  <2> QED  BY <2>1, <2>2, RunIsBehind, PrefixStays
<1> QED  BY <1>1 DEF Game!gameVars, Up, Seen

LEMMA MakesTic ==
    ASSUME IInv, NEW c \in Players, BuildNewTic(c)
    PROVE  Game!Next
<1>1. c \in Clients /\ maketic[c] - gametic[c] <= MaxAhead
      /\ maketic' = [maketic EXCEPT ![c] = @ + 1]
      /\ UNCHANGED <<live, sent, gametic>>
  BY PlayersAre DEF BuildNewTic, serverVars
<1>2. Len(Seen(c)) = gametic[c]
  BY <1>1, RunIsBehind
<1>3. Game!Make(c)
  BY <1>1, <1>2 DEF Game!Make, Seen, Up
<1> QED  BY <1>3 DEF Game!Next, Players, Game!Players

LEMMA RunsTic ==
    ASSUME IInv, NobodySkipped, CopiesMade, NEW c \in Clients, RunTic(c)
    PROVE  Game!Next
<1> DEFINE tic == gametic[c]
           others == sent[c][tic + 1]
<1>1. /\ gametic' = [gametic EXCEPT ![c] = @ + 1] /\ UNCHANGED <<live, sent, maketic>>
      /\ tic < LowTic(c)
  BY DEF RunTic, serverVars
<1>2. tic \in Nat /\ cstart[c] \in Nat /\ maketic[c] \in Nat /\ SendSeq(c) \in Nat
  BY Counts DEF IInv
<1>3. tic < cstart[c] /\ cstart[c] <= SendSeq(c) /\ (c \in Players => tic < maketic[c])
  BY <1>1, <1>2 DEF LowTic, Smaller, Players, IInv, AckTruthful
<1>4. tic + 1 \in 1..SendSeq(c)
  BY <1>2, <1>3
<1>5. /\ others \in SUBSET (Players \ {c}) /\ (Players \cap Up) \ {c} \subseteq others
  BY <1>4 DEF CopiesMade, NobodySkipped
<1>6. \A p \in others : maketic[p] > tic
  <2> SUFFICES ASSUME NEW p \in others PROVE maketic[p] > tic
    OBVIOUS
  <2>1. p \in Players /\ tic + 1 <= maketic[p]
    BY <1>4 DEF CopiesMade
  <2> QED  BY <1>2, <2>1, Counts, PlayersAre DEF IInv
<1>7. Len(Seen(c)) = tic
  BY RunIsBehind
<1>8. Seen(c)' = Append(Seen(c), others)
  <2>1. sent[c] \in Seq(SUBSET Players) /\ tic < Len(sent[c])
    BY <1>2, <1>3, RunIsBehind DEF SendSeq
  <2>2. gametic'[c] = tic + 1
    BY <1>1 DEF IInv, TypeOK
  <2>3. SubSeq(sent[c], 1, tic + 1) = Append(SubSeq(sent[c], 1, tic), others)
    BY <1>2, <2>1, PrefixGrows
  <2> HIDE DEF others
  <2> QED  BY <1>1, <2>2, <2>3 DEF Seen
<1>9. \A d \in Clients \ {c} : Seen(d)' = Seen(d)
  BY <1>1 DEF Seen, IInv, TypeOK
<1> DEFINE all == [d \in Clients |-> SubSeq(sent[d], 1, gametic[d])]
<1>10. all' = [all EXCEPT ![c] = Append(@, others)]
  BY <1>8, <1>9 DEF Seen
<1>11. Len(all[c]) = tic
  BY <1>7 DEF Seen
<1> HIDE DEF all, tic, others
<1>12. /\ c \in Players => maketic[c] > tic
       /\ \E some \in SUBSET (Players \ {c}) :
            /\ (Players \cap Up) \ {c} \subseteq some
            /\ \A p \in some : maketic[p] > tic
            /\ all' = [all EXCEPT ![c] = Append(@, some)]
       /\ UNCHANGED <<Players \cap Up, maketic>>
  BY <1>1, <1>2, <1>3, <1>5, <1>6, <1>10 DEF Up
<1>13. Game!Run(c)
  BY <1>11, <1>12 DEF Game!Run, Game!Players, Players, all
<1> QED  BY <1>13 DEF Game!Next

LEMMA GameStep ==
    ASSUME IInv, NobodySkipped, CopiesMade, [Next]_vars
    PROVE  [Game!Next]_Game!gameVars
<1>1. CASE EndPass
  BY <1>1, LeavesTogether DEF EndPass, clientVars, Up
<1>2. ASSUME NEW c \in Clients, RunClient(c) PROVE [Game!Next]_Game!gameVars
  <2>1. CASE Goes(c)
    BY <1>2, <2>1, LeavesTogether DEF RunClient, Goes, clientVars, Up
  <2>2. CASE Pump(c) /\ CanPump(c)
    BY <1>2, <2>2, SendsUnseen DEF RunClient, Pump, clientVars
  <2>3. CASE Pump(c) /\ ~CanPump(c)
    BY <1>2, <2>3, LeavesTogether DEF RunClient, Pump, clientVars, Up
  <2> QED  BY <1>2, <2>1, <2>2, <2>3 DEF RunClient
<1>3. ASSUME NEW c \in Clients, ClientStep(c) PROVE [Game!Next]_Game!gameVars
  <2>1. CASE BuildNewTic(c)
    BY <2>1, MakesTic DEF BuildNewTic, Players
  <2>2. CASE RunTic(c)
    BY <2>2, RunsTic
  <2>3. CASE ~BuildNewTic(c) /\ ~RunTic(c)
    <3>1. UNCHANGED <<live, sent, maketic, gametic>>
      BY <1>3, <2>3 DEF ClientStep, ParseGameStart, ClientAdvanceWindow, Leave,
         ClientParseGameData, serverVars
    <3> QED  BY <3>1, LeavesTogether DEF Up
  <2> QED  BY <2>1, <2>2, <2>3
<1>4. ASSUME NEW c \in Clients, FromClient(c) PROVE [Game!Next]_Game!gameVars
  <2>1. UNCHANGED <<sent, maketic, gametic>>
    BY <1>4 DEF FromClient, ParseDisconnect, ParseGameDataACK, ParseGameData, clientVars
  <2>2. Up' \subseteq Up
    BY <1>4 DEF FromClient, ParseDisconnect, ParseGameDataACK, ParseGameData, Up, IInv, TypeOK
  <2> QED  BY <2>1, <2>2, LeavesTogether
<1>5. CASE UNCHANGED vars
  BY <1>5, LeavesTogether DEF vars, serverVars, clientVars, Up
<1> QED  BY <1>1, <1>2, <1>3, <1>4, <1>5 DEF Next

LEMMA GameAtFirst == Init => Game!Init
<1> SUFFICES ASSUME Init PROVE Game!Init
  OBVIOUS
<1>1. Players \cap Up = Players
  BY PlayersAre DEF Init, Up
<1>2. ASSUME NEW c \in Clients PROVE SubSeq(sent[c], 1, gametic[c]) = [t \in 1..FirstTic |-> Players \ {c}]
  <2>1. sent[c] = [u \in 1..FirstTic |-> Players \ {c}] /\ gametic[c] = FirstTic
    BY DEF Init
  <2>2. sent[c] \in Seq({Players \ {c}}) /\ Len(sent[c]) = FirstTic
    BY <2>1, SentAtFirst
  <2> QED  BY <2>1, <2>2, Params
<1> QED  BY <1>1, <1>2 DEF Init, Game!Init, Game!Players, Players

\* The exchange of ticcmds, with its windows, bytes, acknowledgements, resends
\* and disconnects, is a game in lockstep: nobody runs a tic without a ticcmd of
\* every player that is in the game, and none that was not made.
THEOREM TicsImplementGame == Spec => ImplementsLockstep
<1>1. Init => Game!Init
  BY GameAtFirst
<1>2. IInv /\ NobodySkipped /\ CopiesMade /\ [Next]_vars => [Game!Next]_Game!gameVars
  BY GameStep
<1> QED  BY <1>1, <1>2, Invariant, NobodyIsSkipped, CopiesAlways, PTL DEF Spec, Game!Spec, ImplementsLockstep
=============================================================================
