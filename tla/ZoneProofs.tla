------------------------------ MODULE ZoneProofs ------------------------------
(***************************************************************************)
(* The heap of Zone for a zone, fragments, requests and users of any size  *)
(* and number.                                                             *)
(***************************************************************************)
EXTENDS Zone, TLAPS

\* Offsets, sizes and links are numbers.
LEMMA Numbers ==
    ASSUME NEW m, Linked(m), NEW a \in DOMAIN m
    PROVE  /\ a \in Nat /\ a <= Head /\ Head \in Nat
           /\ m[a].size \in Nat /\ m[a].next \in Nat /\ m[a].prev \in Nat
<1>1. a \in Addr \cup {Head} /\ m[a] \in Header
  BY DEF Linked
<1>2. ZoneSize \in Nat
  BY ZoneAssumption
<1>3. a \in Nat /\ a <= Head /\ Head \in Nat
  BY <1>1, <1>2 DEF Addr, Head
<1> QED BY <1>1, <1>3 DEF Header

\* n is m after the merge of b with the block o after it.
Merging(m, b, o, n) ==
    /\ Linked(m) /\ Tiled(m) /\ b \in DOMAIN m \ {Head}
    /\ o = m[b].next /\ o # Head /\ n = Absorb(m, b)

\* What that does to each header.
Effect(m, b, o, n) ==
    /\ o \in DOMAIN m \ {Head} /\ o # b /\ b < o
    /\ m[o].next \in DOMAIN m /\ m[o].next # o /\ m[o].next # b
    /\ DOMAIN n = DOMAIN m \ {o}
    /\ \A a \in DOMAIN n :
         n[a] \in Header /\ n[a].tag = m[a].tag /\ n[a].user = m[a].user
    /\ \A a \in DOMAIN n \ {b} : n[a].size = m[a].size /\ n[a].next = m[a].next
    /\ n[b].size = m[b].size + m[o].size /\ n[b].next = m[o].next
    /\ \A a \in DOMAIN n \ {m[o].next} : n[a].prev = m[a].prev
    /\ n[m[o].next].prev = b

LEMMA AbsorbFields ==
    ASSUME NEW m, NEW b, NEW o, NEW n, Merging(m, b, o, n)
    PROVE  Effect(m, b, o, n)
<1> USE DEF Merging
<1>1. o \in DOMAIN m \ {Head} /\ m[o].next \in DOMAIN m
  BY DEF Linked
<1>2. m[b].size \in Nat /\ m[o].size \in Nat /\ b \in Addr /\ o \in Addr
  BY <1>1 DEF Linked, Header, Head, Addr
<1>3. b < o /\ o < m[o].next
  BY <1>1, <1>2, ZoneAssumption DEF Tiled, Addr
<1>4. o # b /\ m[o].next # o
  BY <1>2, <1>3, ZoneAssumption DEF Addr
<1>5. m[o].next # b
  <2>1. m[o].next = Head \/ m[o].next \in Addr
    BY <1>1 DEF Linked
  <2> QED BY <1>2, <1>3, <2>1, ZoneAssumption DEF Addr, Head
<1>6. DOMAIN n = DOMAIN m \ {o}
  BY DEF Absorb
<1>7. ASSUME NEW a \in DOMAIN n
      PROVE  /\ n[a] \in Header
             /\ n[a].tag = m[a].tag /\ n[a].user = m[a].user
             /\ a # b => n[a].size = m[a].size /\ n[a].next = m[a].next
             /\ a = b => n[a].size = m[b].size + m[o].size /\ n[a].next = m[o].next
             /\ a # m[o].next => n[a].prev = m[a].prev
             /\ a = m[o].next => n[a].prev = b
  <2>1. a \in DOMAIN m /\ a # o /\ m[a] \in Header
    BY <1>6 DEF Linked
  <2>2. b \in Nat /\ m[o].next \in Nat
    BY <1>1, <1>2, ZoneAssumption DEF Linked, Header, Addr
  <2>3. CASE a = b
    <3>1. n[a] = [size |-> m[b].size + m[o].size, tag |-> m[b].tag,
                     user |-> m[b].user, next |-> m[o].next, prev |-> m[b].prev]
      BY <1>4, <2>3 DEF Absorb
    <3> QED BY <1>1, <1>2, <1>5, <2>1, <2>2, <2>3, <3>1 DEF Header
  <2>4. CASE a = m[o].next
    <3>1. n[a] = [m[a] EXCEPT !.prev = b]
      BY <1>4, <1>5, <2>1, <2>4 DEF Absorb
    <3> QED BY <1>5, <2>1, <2>2, <2>4, <3>1 DEF Header
  <2>5. CASE a # b /\ a # m[o].next
    <3>1. n[a] = m[a]
      BY <2>1, <2>5 DEF Absorb
    <3> QED BY <2>1, <2>5, <3>1
  <2> QED BY <2>3, <2>4, <2>5
<1>8. b \in DOMAIN n /\ m[o].next \in DOMAIN n
  BY <1>1, <1>4, <1>6
<1> QED BY <1>1, <1>3, <1>4, <1>5, <1>6, <1>7, <1>8 DEF Effect

\* A merge keeps the ring and the tiling.
LEMMA AbsorbShape ==
    ASSUME NEW m, NEW b, NEW o, NEW n, Merging(m, b, o, n)
    PROVE  Linked(n) /\ Tiled(n)
<1>0. Effect(m, b, o, n)
  BY AbsorbFields
<1>1. /\ o \in DOMAIN m \ {Head} /\ o # b /\ b < o
      /\ m[o].next # b /\ m[o].next # o /\ m[o].next \in DOMAIN m
      /\ DOMAIN n = DOMAIN m \ {o}
  BY <1>0 DEF Effect
<1>2. /\ \A a \in DOMAIN n :
           n[a] \in Header /\ n[a].tag = m[a].tag /\ n[a].user = m[a].user
      /\ \A a \in DOMAIN n \ {b} : n[a].size = m[a].size /\ n[a].next = m[a].next
      /\ n[b].size = m[b].size + m[o].size /\ n[b].next = m[o].next
      /\ \A a \in DOMAIN n \ {m[o].next} : n[a].prev = m[a].prev
      /\ n[m[o].next].prev = b
  BY <1>0 DEF Effect
<1> USE DEF Merging
<1>3. m[o].prev = b /\ m[m[o].next].prev = o
  BY <1>1 DEF Linked
<1>4. ASSUME NEW a \in DOMAIN n
      PROVE  /\ a \in Addr \cup {Head} /\ n[a] \in Header
             /\ n[a].next \in DOMAIN n /\ n[n[a].next].prev = a
             /\ n[a].prev \in DOMAIN n /\ n[n[a].prev].next = a
  <2>1. a \in DOMAIN m /\ a # o
    BY <1>1
  <2>2. /\ a \in Addr \cup {Head}
        /\ m[a].next \in DOMAIN m /\ m[m[a].next].prev = a
        /\ m[a].prev \in DOMAIN m /\ m[m[a].prev].next = a
    BY <2>1 DEF Linked
  <2>3. n[a].next \in DOMAIN n /\ n[n[a].next].prev = a
    <3>1. CASE a = b
      BY <1>1, <1>2, <3>1
    <3>2. CASE a # b
      <4>1. m[a].next # o /\ m[a].next # m[o].next
        BY <1>1, <1>3, <2>1, <2>2, <3>2
      <4> QED BY <1>1, <1>2, <2>2, <3>2, <4>1
    <3> QED BY <3>1, <3>2
  <2>4. n[a].prev \in DOMAIN n /\ n[n[a].prev].next = a
    <3>1. CASE a = m[o].next
      BY <1>1, <1>2, <3>1
    <3>2. CASE a # m[o].next
      <4>1. m[a].prev # o /\ m[a].prev # b
        BY <1>1, <1>3, <2>1, <2>2, <3>2
      <4> QED BY <1>1, <1>2, <2>2, <3>2, <4>1
    <3> QED BY <3>1, <3>2
  <2> QED BY <1>2, <2>2, <2>3, <2>4
<1>5. Head \in DOMAIN n /\ n[Head].tag = PU_STATIC
  BY <1>1, <1>2 DEF Linked
<1>6. Linked(n)
  BY <1>4, <1>5 DEF Linked
<1>7. n[Head].next = 0
  BY <1>1, <1>2, <1>5 DEF Tiled
<1>8. \A x \in DOMAIN m \ {Head} : x \in Int /\ m[x].size \in Int
  BY ZoneAssumption DEF Linked, Addr, Head, Header
<1>9. ASSUME NEW a \in DOMAIN n \ {Head}
      PROVE  n[a].size > 0 /\ a + n[a].size = n[a].next
  <2>1. CASE a = b
    BY <1>1, <1>2, <1>8, <2>1 DEF Tiled
  <2>2. CASE a # b
    BY <1>1, <1>2, <1>8, <2>2 DEF Tiled
  <2> QED BY <2>1, <2>2
<1>10. ASSUME NEW x \in DOMAIN n \ {Head}, NEW y \in DOMAIN n \ {Head}, x < y
       PROVE  x + n[x].size <= y
  <2>1. /\ x \in DOMAIN m \ {Head} /\ y \in DOMAIN m \ {Head} /\ y # o
        /\ x + m[x].size <= y
    BY <1>1, <1>10 DEF Tiled
  <2>2. CASE x = b
    <3>1. o <= y
      BY <1>1, <1>8, <2>1, <2>2 DEF Tiled
    <3>2. o + m[o].size <= y
      BY <1>1, <1>8, <2>1, <3>1 DEF Tiled
    <3>3. n[x].size = m[b].size + m[o].size /\ b + m[b].size = o
      BY <1>1, <1>2, <2>2 DEF Tiled
    <3> QED BY <1>1, <1>8, <2>2, <3>2, <3>3
  <2>3. CASE x # b
    BY <1>2, <2>1, <2>3
  <2> QED BY <2>2, <2>3
<1>11. Tiled(n)
  BY <1>7, <1>9, <1>10 DEF Tiled
<1> QED BY <1>6, <1>11

-----------------------------------------------------------------------------
(* Z_Free *)

Heap(m) == Linked(m) /\ Tiled(m) /\ NoFreeNeighbours(m)

Labelling(m, b, tag, user, n) ==
    /\ Linked(m) /\ Tiled(m) /\ b \in DOMAIN m \ {Head}
    /\ tag \in Tags \cup {PU_FREE} /\ user \in Users \cup {None}
    /\ n = Labelled(m, b, tag, user)

\* The links and sizes of m, and another tag and user for b.
Label(m, b, tag, user, n) ==
    /\ DOMAIN n = DOMAIN m
    /\ \A a \in DOMAIN m :
         n[a].size = m[a].size /\ n[a].next = m[a].next /\ n[a].prev = m[a].prev
    /\ n[b].tag = tag /\ n[b].user = user
    /\ \A a \in DOMAIN m \ {b} : n[a].tag = m[a].tag /\ n[a].user = m[a].user

LEMMA LabelShape ==
    ASSUME NEW m, NEW b, NEW tag, NEW user, NEW n, Labelling(m, b, tag, user, n)
    PROVE  Label(m, b, tag, user, n) /\ Linked(n) /\ Tiled(n)
<1>1. DOMAIN n = DOMAIN m
  BY DEF Labelling, Labelled
<1>2. n[b] = [size |-> m[b].size, tag |-> tag, user |-> user,
              next |-> m[b].next, prev |-> m[b].prev]
  BY DEF Labelling, Labelled
<1>3. \A a \in DOMAIN m \ {b} : n[a] = m[a]
  BY DEF Labelling, Labelled
<1>4. Label(m, b, tag, user, n)
  BY <1>1, <1>2, <1>3 DEF Label
<1>5. m[b] \in Header /\ tag \in Tags \cup {PU_FREE} /\ user \in Users \cup {None}
  BY DEF Labelling, Linked
<1>6. n[b] \in Header
  BY <1>2, <1>5 DEF Header
<1>7. Linked(n)
  <2>1. ASSUME NEW a \in DOMAIN n
        PROVE  /\ a \in Addr \cup {Head} /\ n[a] \in Header
               /\ n[a].next \in DOMAIN n /\ n[n[a].next].prev = a
               /\ n[a].prev \in DOMAIN n /\ n[n[a].prev].next = a
    <3>1. /\ a \in Addr \cup {Head} /\ m[a] \in Header
          /\ m[a].next \in DOMAIN m /\ m[m[a].next].prev = a
          /\ m[a].prev \in DOMAIN m /\ m[m[a].prev].next = a
      BY <1>1 DEF Labelling, Linked
    <3>2. n[a] \in Header
      BY <1>1, <1>3, <1>6, <3>1
    <3> QED BY <1>1, <1>4, <3>1, <3>2 DEF Label
  <2>2. Head \in DOMAIN n /\ n[Head].tag = PU_STATIC
    BY <1>1, <1>3 DEF Labelling, Linked
  <2> QED BY <2>1, <2>2 DEF Linked
<1>8. Tiled(n)
  <2>1. Tiled(m) /\ Head \in DOMAIN m
    BY DEF Labelling, Linked
  <2>2. n[Head].next = 0
    BY <1>4, <2>1 DEF Tiled, Label
  <2>3. \A a \in DOMAIN n \ {Head} : n[a].size > 0 /\ a + n[a].size = n[a].next
    BY <1>1, <1>4, <2>1 DEF Tiled, Label
  <2>4. \A a, c \in DOMAIN n \ {Head} : a < c => a + n[a].size <= c
    BY <1>1, <1>4, <2>1 DEF Tiled, Label
  <2> QED BY <2>2, <2>3, <2>4 DEF Tiled
<1> QED BY <1>4, <1>7, <1>8

\* What is known when block b of mem is freed into block i and the headers become m.
Freeing(b, i, m) ==
    /\ Heap(mem) /\ b \in Blocks /\ mem[b].tag # PU_FREE
    /\ \A a \in DOMAIN mem : mem[a].tag = PU_FREE => mem[a].user = None
    /\ i = Into(b) /\ m = Merged(b)

\* The first half of it: b is free, and part of the block before it if that was free.
HalfFreed(b, i, m) ==
    /\ Linked(m) /\ Tiled(m)
    /\ i \in DOMAIN m \ {Head} /\ m[i].tag = PU_FREE /\ m[i].user = None
    /\ m[i].next = mem[b].next /\ m[i].prev = mem[i].prev
    /\ m[m[i].prev].tag # PU_FREE
    /\ i <= b
    /\ \/ i = b /\ DOMAIN m = DOMAIN mem
       \/ i = mem[b].prev /\ mem[i].tag = PU_FREE /\ DOMAIN m = DOMAIN mem \ {b}
    /\ \A a \in DOMAIN m \ {i} :
         m[a].tag = mem[a].tag /\ m[a].user = mem[a].user /\ m[a].next = mem[a].next
    /\ \A a \in DOMAIN m \ {i} : m[a].tag = PU_FREE => m[m[a].next].tag # PU_FREE

LEMMA HalfFree ==
    ASSUME NEW b, NEW i, NEW m, Freeing(b, i, m)
    PROVE  HalfFreed(b, i, MergedBefore(b))
<1> DEFINE k == Marked(b)
           n == MergedBefore(b)
<1>1. Linked(mem) /\ Tiled(mem) /\ NoFreeNeighbours(mem) /\ b \in DOMAIN mem \ {Head}
  BY DEF Freeing, Heap, Blocks
<1>2. Labelling(mem, b, PU_FREE, None, k)
  BY <1>1 DEF Labelling, Marked, Tags
<1>3. Label(mem, b, PU_FREE, None, k) /\ Linked(k) /\ Tiled(k)
  BY <1>2, LabelShape
<1> HIDE DEF k
<1>4. /\ mem[b].prev \in DOMAIN mem /\ mem[mem[b].prev].next = b
      /\ mem[b].next \in DOMAIN mem /\ mem[mem[b].next].prev = b
  BY <1>1 DEF Linked
<1>5. b \in Nat
  BY <1>1, ZoneAssumption DEF Linked, Addr, Head
<1>6. CASE mem[mem[b].prev].tag # PU_FREE
  <2>1. i = b /\ n = k
    BY <1>6 DEF Freeing, Into, MergedBefore, k
  <2>2. mem[b].prev # b
    BY <1>1, <1>4, <1>5 DEF Tiled, Linked, Header
  <2>3. k[k[b].prev].tag # PU_FREE
    BY <1>1, <1>3, <1>4, <1>6, <2>2 DEF Label
  <2>4. ASSUME NEW a \in DOMAIN k \ {b}, k[a].tag = PU_FREE
        PROVE  k[k[a].next].tag # PU_FREE
    <3>1. a \in DOMAIN mem /\ mem[a].tag = PU_FREE /\ k[a].next = mem[a].next
      BY <1>3, <2>4 DEF Label
    <3>2. mem[a].next \in DOMAIN mem /\ mem[mem[a].next].tag # PU_FREE
          /\ mem[mem[a].next].prev = a
      BY <1>1, <3>1 DEF NoFreeNeighbours, Linked
    <3>3. mem[a].next # b
      BY <1>6, <3>1, <3>2
    <3> QED BY <1>3, <3>1, <3>2, <3>3 DEF Label
  <2> QED BY <1>1, <1>3, <1>4, <1>5, <2>1, <2>3, <2>4 DEF Label, HalfFreed
<1>7. CASE mem[mem[b].prev].tag = PU_FREE
  <2>1. i = mem[b].prev /\ i # b /\ n = Absorb(k, i)
    <3>1. i = mem[b].prev /\ mem[b].tag # PU_FREE
      BY <1>7 DEF Freeing, Into
    <3> QED BY <1>7, <3>1 DEF Freeing, Into, MergedBefore, k
  <2>2. i # Head
    <3>1. mem[Head].tag = PU_STATIC
      BY <1>1 DEF Linked
    <3> QED BY <1>7, <2>1, <3>1 DEF PU_STATIC, PU_FREE
  <2>3. k[i].next = b /\ k[i].tag = PU_FREE /\ i \in DOMAIN k
    BY <1>3, <1>4, <1>7, <2>1 DEF Label
  <2>4. Merging(k, i, b, n)
    BY <1>1, <1>3, <2>1, <2>2, <2>3 DEF Merging
  <2>5. Effect(k, i, b, n) /\ Linked(n) /\ Tiled(n)
    BY <2>4, AbsorbFields, AbsorbShape
  <2> HIDE DEF n
  <2>6. /\ DOMAIN n = DOMAIN mem \ {b} /\ i \in DOMAIN n \ {Head}
        /\ n[i].tag = PU_FREE /\ n[i].user = None
    <3>1. mem[i].user = None
      BY <1>4, <1>7, <2>1 DEF Freeing
    <3> QED BY <1>3, <2>1, <2>2, <2>3, <2>5, <3>1 DEF Label, Effect
  <2>7. n[i].next = mem[b].next
    BY <1>1, <1>3, <2>5 DEF Label, Effect
  <2>8. i < b /\ i # mem[b].next
    BY <1>1, <1>3, <2>5 DEF Effect, Label
  <2>9. n[i].prev = mem[i].prev
    BY <1>1, <1>3, <2>5, <2>6, <2>8 DEF Label, Effect
  <2>10. \A a \in DOMAIN n \ {i} :
           n[a].tag = mem[a].tag /\ n[a].user = mem[a].user /\ n[a].next = mem[a].next
    BY <1>3, <2>5, <2>6 DEF Label, Effect
  <2>11. mem[i].prev \in DOMAIN mem /\ mem[mem[i].prev].next = i
    BY <1>1, <1>4, <2>1 DEF Linked
  <2>12. mem[mem[i].prev].tag # PU_FREE
    BY <1>1, <1>7, <2>1, <2>11 DEF NoFreeNeighbours
  <2>13. mem[i].prev # i /\ mem[i].prev # b
    <3>1. mem[i].prev # i
      BY <1>7, <2>1, <2>12
    <3>2. i \in Nat /\ i < b /\ mem[b].next > b
      <4>1. i \in Nat /\ mem[b].size \in Nat
        BY <1>1, <1>4, <2>1, ZoneAssumption DEF Linked, Addr, Head, Header
      <4> QED BY <1>1, <1>5, <2>8, <4>1 DEF Tiled
    <3> QED BY <1>5, <2>11, <3>1, <3>2
  <2>14. n[n[i].prev].tag # PU_FREE
    BY <2>6, <2>9, <2>10, <2>11, <2>12, <2>13
  <2>15. ASSUME NEW a \in DOMAIN n \ {i}, n[a].tag = PU_FREE
         PROVE  n[n[a].next].tag # PU_FREE
    <3>1. a \in DOMAIN mem /\ mem[a].tag = PU_FREE /\ n[a].next = mem[a].next
      BY <2>6, <2>10, <2>15
    <3>2. mem[a].next \in DOMAIN mem /\ mem[mem[a].next].tag # PU_FREE
          /\ mem[mem[a].next].prev = a
      BY <1>1, <3>1 DEF NoFreeNeighbours, Linked
    <3>3. mem[a].next # b /\ mem[a].next # i
      BY <1>7, <2>1, <2>15, <3>2
    <3> QED BY <2>6, <2>10, <3>1, <3>2, <3>3
  <2>16. i <= b
    <3>1. i \in Nat
      BY <1>1, <1>4, <2>1, Numbers
    <3> QED BY <1>5, <2>8, <3>1
  <2>17. HalfFreed(b, i, n)
    BY <1>7, <2>1, <2>5, <2>6, <2>7, <2>9, <2>10, <2>14, <2>15, <2>16 DEF HalfFreed
  <2> QED BY <2>17 DEF n
<1> QED BY <1>6, <1>7

\* The headers m after Z_Free(b), which is now part of i.  If the block after b was free
\* too, its header is no longer in the list, and its link is that of i.
FreedHeap(b, i, m) ==
    /\ Heap(m) /\ DOMAIN m \subseteq DOMAIN mem
    /\ i \in DOMAIN m \ {Head} /\ m[i].tag = PU_FREE /\ m[i].user = None
    /\ m[i].prev = mem[i].prev
    /\ i <= b
    /\ i = b \/ (i = mem[b].prev /\ mem[i].tag = PU_FREE /\ b \notin DOMAIN m)
    /\ \A a \in DOMAIN m \ {i} :
         m[a].tag = mem[a].tag /\ m[a].user = mem[a].user /\ m[a].next = mem[a].next
    /\ \A a \in DOMAIN mem \ {b} : mem[a].tag # PU_FREE => a \in DOMAIN m
    /\ DOMAIN mem \ {b, mem[b].next} \subseteq DOMAIN m
    /\ \/ mem[b].next \in DOMAIN m /\ m[i].next = mem[b].next
       \/ /\ mem[b].next \notin DOMAIN m /\ i < mem[b].next
          /\ mem[mem[b].next].tag = PU_FREE
          /\ m[i].next = mem[mem[b].next].next

LEMMA FreeShape ==
    ASSUME NEW b, NEW i, NEW m, Freeing(b, i, m)
    PROVE  FreedHeap(b, i, m)
<1> DEFINE k == MergedBefore(b)
           o == k[i].next
<1>1. HalfFreed(b, i, k)
  BY HalfFree
<1>2. m = IF k[o].tag = PU_FREE THEN Absorb(k, i) ELSE k
  BY DEF Freeing, Merged
<1>3. Linked(mem) /\ Tiled(mem) /\ b \in DOMAIN mem \ {Head} /\ mem[b].tag # PU_FREE
  BY DEF Freeing, Heap, Blocks
<1> HIDE DEF k
<1>4. o = mem[b].next /\ o \in DOMAIN k /\ k[o].prev = i
  BY <1>1 DEF HalfFreed, Linked
<1>5. CASE k[o].tag # PU_FREE
  <2>1. m = k
    BY <1>2, <1>5
  <2>2. NoFreeNeighbours(k)
    BY <1>1, <1>5 DEF NoFreeNeighbours, HalfFreed
  <2> QED BY <1>1, <1>3, <1>4, <2>1, <2>2 DEF FreedHeap, HalfFreed, Heap
<1>6. CASE k[o].tag = PU_FREE
  <2>1. m = Absorb(k, i)
    BY <1>2, <1>6
  <2>2. o # Head
    <3>1. k[Head].tag = PU_STATIC
      BY <1>1 DEF HalfFreed, Linked
    <3> QED BY <1>6, <3>1 DEF PU_STATIC, PU_FREE
  <2>3. Merging(k, i, o, m)
    BY <1>1, <2>1, <2>2 DEF Merging, HalfFreed
  <2>4. Effect(k, i, o, m) /\ Linked(m) /\ Tiled(m)
    BY <2>3, AbsorbFields, AbsorbShape
  <2>5. /\ DOMAIN m = DOMAIN k \ {o} /\ i \in DOMAIN m /\ i # o /\ i < o
        /\ k[o].next \in DOMAIN k /\ k[o].next # o /\ k[o].next # i
    BY <1>1, <2>4 DEF Effect, HalfFreed
  <2>6. /\ m[i].next = k[o].next /\ m[i].prev = k[i].prev
        /\ m[i].tag = PU_FREE /\ m[i].user = None
    BY <1>1, <2>4, <2>5 DEF Effect, HalfFreed
  <2>7. k[o].next = mem[o].next /\ mem[o].tag = PU_FREE /\ o \in DOMAIN mem
    BY <1>1, <1>4, <1>6, <2>5 DEF HalfFreed
  <2>8. k[k[o].next].tag # PU_FREE
    BY <1>1, <1>4, <1>6, <2>5 DEF HalfFreed
  <2>9. ASSUME NEW a \in DOMAIN m, m[a].tag = PU_FREE
        PROVE  m[m[a].next].tag # PU_FREE
    <3>1. CASE a = i
      BY <2>4, <2>5, <2>6, <2>8, <3>1 DEF Effect
    <3>2. CASE a # i
      <4>1. a \in DOMAIN k \ {i} /\ k[a].tag = PU_FREE /\ m[a].next = k[a].next
        BY <2>4, <2>5, <2>9, <3>2 DEF Effect
      <4>2. /\ k[k[a].next].tag # PU_FREE
            /\ k[a].next \in DOMAIN k /\ k[k[a].next].prev = a
        BY <1>1, <4>1 DEF HalfFreed, Linked
      <4>3. k[a].next # o
        BY <1>4, <3>2, <4>2
      <4> QED BY <2>4, <2>5, <4>1, <4>2, <4>3 DEF Effect
    <3> QED BY <3>1, <3>2
  <2>10. Heap(m)
    BY <2>4, <2>9 DEF Heap, NoFreeNeighbours
  <2>11. /\ \A a \in DOMAIN m \ {i} :
              m[a].tag = mem[a].tag /\ m[a].user = mem[a].user /\ m[a].next = mem[a].next
         /\ DOMAIN mem \ {b, mem[b].next} \subseteq DOMAIN m
    BY <1>1, <1>4, <2>4, <2>5 DEF Effect, HalfFreed
  <2>12. \A a \in DOMAIN mem \ {b} : mem[a].tag # PU_FREE => a \in DOMAIN m
    BY <1>1, <2>5, <2>7 DEF HalfFreed
  <2>13. /\ DOMAIN m \subseteq DOMAIN mem /\ i <= b
         /\ i = b \/ (i = mem[b].prev /\ mem[i].tag = PU_FREE /\ b \notin DOMAIN m)
         /\ i # Head /\ k[i].prev = mem[i].prev
    BY <1>1, <2>5 DEF HalfFreed
  <2>14. mem[b].next \notin DOMAIN m /\ m[i].next = mem[mem[b].next].next
    BY <1>4, <2>5, <2>6, <2>7
  <2> QED
    BY <1>4, <2>5, <2>6, <2>7, <2>10, <2>11, <2>12, <2>13, <2>14 DEF FreedHeap
<1> QED BY <1>5, <1>6

-----------------------------------------------------------------------------
(* The invariant *)

Owned ==
    /\ owner \in [Users -> Addr \cup {Null}]
    /\ \A u \in Users : owner[u] # Null =>
        owner[u] \in Blocks /\ mem[owner[u]].tag # PU_FREE /\ mem[owner[u]].user = u
    /\ \A b \in Blocks : mem[b].user # None => mem[b].tag # PU_FREE /\ owner[mem[b].user] = b
    /\ \A b \in Blocks : mem[b].tag >= PU_PURGELEVEL => mem[b].user # None
    /\ mem[Head].user = None

Request == [size : Nat \ {0}, tag : Tags, user : Users \cup {None}]

\* The variable that the new block is for has none yet, and a purgable block has one.
Requested ==
    /\ req \in Request
    /\ req.user # None => owner[req.user] = Null
    /\ req.tag >= PU_PURGELEVEL => req.user # None

\* Where the scan is: at the block base, or behind base and base is free.  The block where
\* it gives up is not free, so that no merge takes it away.
ScanShape ==
    /\ base \in DOMAIN mem /\ scan \in DOMAIN mem
    /\ \/ scan = base /\ mem[mem[base].prev].tag # PU_FREE
       \/ mem[base].tag = PU_FREE /\ scan = mem[base].next
    /\ start \in DOMAIN mem /\ mem[start].tag # PU_FREE

TakeShape ==
    base \in DOMAIN mem /\ mem[base].tag = PU_FREE /\ mem[base].size >= req.size

\* Where the walk of Z_FreeTags is: at a block, or at a header that was merged away, with
\* the rest of a free block behind it.
StaleHere ==
    \E c \in Blocks : c < scan /\ mem[c].tag = PU_FREE /\ left.next = mem[c].next

WalkShape ==
    /\ scan \in Nat
    /\ scan \notin DOMAIN mem => left.tag = PU_FREE /\ StaleHere
    /\ \A b \in Blocks : mem[b].tag = PU_LEVEL => scan <= b

IInv ==
    /\ Heap(mem) /\ rover \in DOMAIN mem
    /\ Owned
    /\ pc \in {"idle", "scan", "take", "tags", "error"}
    /\ pc \in {"scan", "take"} => Requested
    /\ pc = "scan" => ScanShape
    /\ pc = "take" => TakeShape
    /\ pc = "tags" => WalkShape

-----------------------------------------------------------------------------
LEMMA InitHolds == Init => IInv
<1> SUFFICES ASSUME Init PROVE IInv
  OBVIOUS
<1> USE ZoneAssumption
<1>1. /\ DOMAIN mem = {0, Head} /\ 0 # Head /\ Head \in Nat /\ 0 \in Addr /\ Null # 0
      /\ mem[0].size = ZoneSize /\ mem[0].tag = PU_FREE /\ mem[0].user = None
      /\ mem[0].next = Head /\ mem[0].prev = Head
      /\ mem[Head].size = 0 /\ mem[Head].tag = PU_STATIC /\ mem[Head].user = None
      /\ mem[Head].next = 0 /\ mem[Head].prev = 0
      /\ \A a \in DOMAIN mem : mem[a] \in Header
  <2>1. DOMAIN mem = {0, Head} /\ 0 # Head /\ Head \in Nat /\ 0 \in Addr /\ Null # 0
    BY DEF Init, Head, Addr, Null
  <2>2. mem[0] = [size |-> ZoneSize, tag |-> PU_FREE, user |-> None,
                  next |-> Head, prev |-> Head]
    BY <2>1 DEF Init
  <2>3. mem[Head] = [size |-> 0, tag |-> PU_STATIC, user |-> None, next |-> 0, prev |-> 0]
    BY <2>1 DEF Init
  <2>4. mem[0] \in Header /\ mem[Head] \in Header
    BY <2>1, <2>2, <2>3 DEF Header, Tags
  <2> QED BY <2>1, <2>2, <2>3, <2>4
<1>2. Linked(mem)
  BY <1>1 DEF Linked
<1>3. Tiled(mem)
  BY <1>1 DEF Tiled, Head
<1>4. NoFreeNeighbours(mem)
  BY <1>1 DEF NoFreeNeighbours, PU_FREE, PU_STATIC
<1>5. Owned
  <2>1. owner \in [Users -> Addr \cup {Null}] /\ \A u \in Users : owner[u] = Null
    BY DEF Init
  <2>2. Blocks = {0}
    BY <1>1 DEF Blocks
  <2> QED BY <1>1, <2>1, <2>2 DEF Owned, PU_FREE, PU_PURGELEVEL
<1>6. rover \in DOMAIN mem /\ pc = "idle"
  BY <1>1 DEF Init
<1> QED BY <1>2, <1>3, <1>4, <1>5, <1>6 DEF IInv, Heap

\* Every free leaves a heap and owners that agree, with the rover in the list.
LEMMA FreeKeeps ==
    ASSUME Heap(mem), rover \in DOMAIN mem, Owned,
           NEW b \in Blocks, mem[b].tag # PU_FREE, Free(b)
    PROVE  FreedHeap(b, Into(b), mem') /\ rover' \in DOMAIN mem' /\ Owned'
<1> DEFINE i == Into(b)
           n == mem'
<1>1. n = Merged(b) /\ Linked(mem) /\ b \in DOMAIN mem
  BY DEF Free, Heap, Blocks
<1>2. \A a \in DOMAIN mem : mem[a].tag = PU_FREE => mem[a].user = None
  BY DEF Owned, Blocks
<1>3. FreedHeap(b, i, n)
  <2>1. Freeing(b, i, n)
    BY <1>1, <1>2 DEF Freeing
  <2> QED BY <2>1, FreeShape
<1> HIDE DEF i, n
<1>4. /\ DOMAIN n \subseteq DOMAIN mem
      /\ i \in DOMAIN n \ {Head} /\ n[i].tag = PU_FREE /\ n[i].user = None
      /\ i = b \/ mem[i].tag = PU_FREE
      /\ \A a \in DOMAIN n \ {i} : n[a].tag = mem[a].tag /\ n[a].user = mem[a].user
      /\ \A a \in DOMAIN mem \ {b} : mem[a].tag # PU_FREE => a \in DOMAIN n
  BY <1>3 DEF FreedHeap
<1>5. rover' \in DOMAIN n
  BY <1>1, <1>4 DEF Free, MoveRover, i
<1>6. Head \in DOMAIN n /\ n[Head].user = None
  <2>1. Head \in DOMAIN n
    BY <1>3 DEF FreedHeap, Heap, Linked
  <2> QED BY <1>4, <2>1 DEF Owned
<1>7. /\ owner' \in [Users -> Addr \cup {Null}]
      /\ \A u \in Users : owner'[u] = IF u = mem[b].user THEN Null ELSE owner[u]
  <2>1. mem[b].user # None => mem[b].user \in Users
    BY <1>1 DEF Linked, Header
  <2> QED BY <2>1, ZoneAssumption DEF Free, ClearMark, Owned
<1>8. ASSUME NEW u \in Users, owner'[u] # Null
      PROVE  /\ owner'[u] \in DOMAIN n \ {Head}
             /\ n[owner'[u]].tag # PU_FREE /\ n[owner'[u]].user = u
  <2>1. owner'[u] = owner[u] /\ u # mem[b].user /\ owner[u] # Null
    BY <1>7, <1>8
  <2>2. owner[u] \in Blocks /\ mem[owner[u]].tag # PU_FREE /\ mem[owner[u]].user = u
    BY <2>1 DEF Owned
  <2>3. owner[u] # b /\ owner[u] # i
    BY <1>4, <2>1, <2>2
  <2> QED BY <1>4, <2>1, <2>2, <2>3 DEF Blocks
<1>9. ASSUME NEW c \in DOMAIN n \ {Head}, n[c].user # None
      PROVE  n[c].tag # PU_FREE /\ owner'[n[c].user] = c
  <2>1. c # i /\ c \in Blocks /\ n[c].user = mem[c].user /\ n[c].tag = mem[c].tag
    BY <1>4, <1>9 DEF Blocks
  <2>2. mem[c].tag # PU_FREE /\ owner[mem[c].user] = c
    BY <1>9, <2>1 DEF Owned
  <2>3. mem[c].user \in Users
    BY <1>1, <1>9, <2>1 DEF Linked, Header, Blocks
  <2>4. c # b
    <3>1. CASE i = b
      BY <2>1, <3>1
    <3>2. CASE i # b
      BY <1>3, <3>2 DEF FreedHeap
    <3> QED BY <3>1, <3>2
  <2>5. mem[c].user # mem[b].user
    BY <1>9, <2>1, <2>2, <2>4 DEF Owned
  <2> QED BY <1>7, <2>1, <2>2, <2>3, <2>5
<1>10. ASSUME NEW c \in DOMAIN n \ {Head}, n[c].tag >= PU_PURGELEVEL
       PROVE  n[c].user # None
  <2>1. c # i
    BY <1>4, <1>10 DEF PU_FREE, PU_PURGELEVEL
  <2> QED BY <1>4, <1>10, <2>1 DEF Owned, Blocks
<1>11. Owned'
  BY <1>6, <1>7, <1>8, <1>9, <1>10 DEF Owned, Blocks, n
<1> QED BY <1>3, <1>5, <1>11 DEF i, n

\* The facts of the invariant that need nothing but mem and owner.
Sound == Heap(mem) /\ rover \in DOMAIN mem /\ Owned

LEMMA MallocStarts ==
    ASSUME IInv, NEW size \in Sizes, NEW tag \in Tags, NEW user \in Users \cup {None},
           Z_Malloc(size, tag, user)
    PROVE  IInv'
<1>1. Sound /\ Linked(mem) /\ NoFreeNeighbours(mem) /\ UNCHANGED <<mem, rover, owner>>
  BY DEF IInv, Sound, Heap, Z_Malloc
<1>2. Sound' /\ pc' = "scan"
  BY <1>1 DEF Sound, Heap, Owned, Blocks, Z_Malloc
<1>3. Requested'
  <2>1. req' = [size |-> size, tag |-> tag, user |-> user]
    BY DEF Z_Malloc
  <2>2. req' \in Request
    BY <2>1, ZoneAssumption DEF Request
  <2>3. user # None => owner'[user] = Null
    BY <1>1 DEF Z_Malloc
  <2>4. tag >= PU_PURGELEVEL => user # None
    BY DEF Z_Malloc, Tags, PU_STATIC, PU_LEVEL, PU_CACHE, PU_PURGELEVEL
  <2> QED BY <2>1, <2>2, <2>3, <2>4 DEF Requested
<1>4. /\ base' \in DOMAIN mem /\ scan' = base' /\ start' = mem[base'].prev
      /\ mem[mem[base'].prev].tag # PU_FREE
  <2> DEFINE before == mem[rover].prev
  <2>1. rover \in DOMAIN mem /\ before \in DOMAIN mem
    BY <1>1 DEF Sound, Linked
  <2>2. CASE mem[before].tag = PU_FREE
    <3>1. base' = before /\ scan' = before /\ start' = mem[before].prev
      BY <2>2 DEF Z_Malloc, StartScan
    <3>2. mem[before].prev \in DOMAIN mem /\ mem[mem[before].prev].next = before
      BY <1>1, <2>1 DEF Linked
    <3> QED BY <1>1, <2>1, <2>2, <3>1, <3>2 DEF NoFreeNeighbours
  <2>3. CASE mem[before].tag # PU_FREE
    BY <2>1, <2>3 DEF Z_Malloc, StartScan
  <2> QED BY <2>2, <2>3
<1>5. ScanShape'
  BY <1>1, <1>4 DEF ScanShape, Linked
<1> QED BY <1>2, <1>3, <1>5 DEF IInv, Sound

\* What is left to show of a turn of the scan.
LEMMA ScanTurns ==
    ASSUME IInv, Scanning, Until, Sound', ScanShape', UNCHANGED req,
           \A u \in Users : owner[u] = Null => owner'[u] = Null
    PROVE  IInv'
<1>1. Requested'
  BY DEF IInv, Scanning, Requested, Request
<1>2. CASE mem'[base'].tag = PU_FREE /\ mem'[base'].size >= req.size
  BY <1>1, <1>2 DEF Until, IInv, Sound, TakeShape, ScanShape
<1>3. CASE ~(mem'[base'].tag = PU_FREE /\ mem'[base'].size >= req.size)
  BY <1>1, <1>3 DEF Until, IInv, Sound
<1> QED BY <1>2, <1>3

LEMMA KeptIsPassed ==
    ASSUME IInv, ScanKept
    PROVE  IInv'
<1>1. Linked(mem) /\ ScanShape /\ Sound /\ Scanning /\ Until /\ UNCHANGED <<mem, rover, owner, req, start>>
  BY DEF IInv, Sound, Heap, ScanKept, Scanning
<1>2. Sound'
  BY <1>1 DEF Sound, Heap, Owned, Blocks
<1>3. base' = mem[scan].next /\ scan' = base' /\ mem[scan].tag # PU_FREE /\ scan \in DOMAIN mem
  BY <1>1 DEF ScanKept, ScanShape
<1>4. base' \in DOMAIN mem /\ mem[base'].prev = scan
  BY <1>1, <1>3 DEF Linked
<1>5. ScanShape'
  BY <1>1, <1>3, <1>4 DEF ScanShape
<1> QED BY <1>1, <1>2, <1>5, ScanTurns

LEMMA FreeIsPassed ==
    ASSUME IInv, ScanFree
    PROVE  IInv'
<1>1. Linked(mem) /\ NoFreeNeighbours(mem) /\ ScanShape /\ Sound /\ Scanning /\ Until
      /\ UNCHANGED <<mem, rover, owner, req, start, base>>
  BY DEF IInv, Sound, Heap, ScanFree, Scanning
<1>2. Sound'
  BY <1>1 DEF Sound, Heap, Owned, Blocks
<1>3. mem[scan].tag = PU_FREE /\ scan' = mem[scan].next
  BY DEF ScanFree
<1>4. scan = base
  BY <1>1, <1>3 DEF ScanShape, NoFreeNeighbours
<1>5. ScanShape'
  BY <1>1, <1>3, <1>4 DEF ScanShape, Linked
<1> QED BY <1>1, <1>2, <1>5, ScanTurns

LEMMA PurgeMoves ==
    ASSUME IInv, ScanPurges
    PROVE  /\ scan \in Blocks /\ mem[scan].tag # PU_FREE /\ Free(scan)
           /\ FreedHeap(scan, Into(scan), mem') /\ rover' \in DOMAIN mem' /\ Owned'
           /\ base' = Into(scan) /\ scan' = mem'[base'].next
<1>1. /\ Linked(mem) /\ ScanShape /\ Sound
      /\ mem[scan].tag >= PU_PURGELEVEL /\ Free(scan)
  BY DEF IInv, Sound, Heap, ScanPurges, Scanning
<1>2. scan \in Blocks /\ mem[scan].tag # PU_FREE
  <2>1. mem[Head].tag = PU_STATIC /\ scan \in DOMAIN mem
    BY <1>1 DEF ScanShape, Linked
  <2> QED BY <1>1, <2>1 DEF Blocks, PU_FREE, PU_PURGELEVEL, PU_STATIC
<1>3. FreedHeap(scan, Into(scan), mem') /\ rover' \in DOMAIN mem' /\ Owned'
  BY <1>1, <1>2, FreeKeeps DEF Sound
<1>4. Linked(mem')
  BY <1>3 DEF FreedHeap, Heap
<1>5. mem[Into(scan)].prev = mem[base].prev
  <2>1. CASE scan = base /\ mem[mem[base].prev].tag # PU_FREE
    BY <2>1 DEF Into
  <2>2. CASE mem[base].tag = PU_FREE /\ scan = mem[base].next
    <3>1. mem[scan].prev = base
      BY <1>1, <2>2 DEF ScanShape, Linked
    <3> QED BY <2>2, <3>1 DEF Into
  <2> QED BY <1>1, <2>1, <2>2 DEF ScanShape
<1>6. Into(scan) \in DOMAIN mem' /\ mem'[Into(scan)].prev = mem[base].prev
  BY <1>3, <1>5 DEF FreedHeap
<1>7. base' = Into(scan) /\ scan' = mem'[base'].next
  <2>1. base' = mem'[mem[base].prev].next /\ scan' = mem'[base'].next
    BY DEF ScanPurges
  <2>2. mem'[mem'[Into(scan)].prev].next = Into(scan)
    BY <1>4, <1>6 DEF Linked
  <2> QED BY <1>6, <2>1, <2>2
<1> QED BY <1>1, <1>2, <1>3, <1>7

LEMMA PurgeIsPassed ==
    ASSUME IInv, ScanPurges
    PROVE  IInv'
<1>1. ScanShape /\ Scanning /\ Until /\ UNCHANGED <<req, start>> /\ scan # start
  BY DEF IInv, ScanPurges, Scanning
<1>2. /\ FreedHeap(scan, Into(scan), mem') /\ rover' \in DOMAIN mem' /\ Owned'
      /\ base' = Into(scan) /\ scan' = mem'[base'].next /\ Free(scan)
  BY PurgeMoves
<1>3. Sound' /\ Linked(mem')
  BY <1>2 DEF Sound, FreedHeap, Heap
<1>4. Into(scan) \in DOMAIN mem' /\ mem'[Into(scan)].tag = PU_FREE
  BY <1>2 DEF FreedHeap
<1>5. start \in DOMAIN mem' /\ mem'[start].tag # PU_FREE
  <2>1. start \in DOMAIN mem \ {scan} /\ mem[start].tag # PU_FREE
    BY <1>1 DEF ScanShape
  <2>2. start # Into(scan)
    BY <1>2, <2>1 DEF FreedHeap
  <2> QED BY <1>2, <2>1, <2>2 DEF FreedHeap
<1>6. ScanShape'
  BY <1>1, <1>2, <1>3, <1>4, <1>5 DEF ScanShape, Linked
<1>7. \A u \in Users : owner[u] = Null => owner'[u] = Null
  BY <1>2 DEF Free, ClearMark, IInv, Owned
<1> QED BY <1>1, <1>3, <1>6, <1>7, ScanTurns

\* The cut keeps the ring and the tiling; what it leaves over is free.
CutBlock(n) ==
    /\ Linked(n) /\ Tiled(n) /\ base \in DOMAIN n \ {Head}
    /\ n[base].user = None /\ n[base].tag = PU_FREE
    /\ \A a \in DOMAIN n \ {base} :
        /\ n[a].tag = PU_FREE => n[n[a].next].tag # PU_FREE
        /\ a \in DOMAIN mem => n[a].tag = mem[a].tag /\ n[a].user = mem[a].user
        /\ a \notin DOMAIN mem => n[a].tag = PU_FREE /\ n[a].user = None /\ a # Head
    /\ DOMAIN mem \subseteq DOMAIN n

LEMMA CutShape ==
    ASSUME IInv, pc = "take"
    PROVE  CutBlock(Cut)
<1> DEFINE extra == mem[base].size - req.size
           new == base + req.size
           next == mem[base].next
           n == Cut
<1>1. /\ Linked(mem) /\ Tiled(mem) /\ NoFreeNeighbours(mem) /\ Owned
      /\ base \in DOMAIN mem /\ mem[base].tag = PU_FREE
      /\ mem[base].size >= req.size /\ req.size \in Nat \ {0}
  BY DEF IInv, Heap, TakeShape, Requested, Request
<1>2. base # Head /\ mem[base].user = None
  <2>1. mem[Head].tag = PU_STATIC
    BY <1>1 DEF Linked
  <2>2. base # Head
    BY <1>1, <2>1 DEF PU_FREE, PU_STATIC
  <2> QED BY <1>1, <2>2 DEF Owned, Blocks
<1>3. /\ next \in DOMAIN mem /\ mem[next].prev = base /\ mem[next].tag # PU_FREE
      /\ mem[base].prev \in DOMAIN mem /\ mem[mem[base].prev].next = base
  BY <1>1 DEF Linked, NoFreeNeighbours
<1>4. /\ base \in Nat /\ mem[base].size \in Nat /\ next \in Nat /\ next <= Head
      /\ Head \in Nat
  BY <1>1, <1>3, Numbers
<1>5. base + mem[base].size = next
  BY <1>1, <1>2 DEF Tiled
<1>6. \A a \in DOMAIN mem \ {base} : mem[a].next # base \/ a = mem[base].prev
  BY <1>1 DEF Linked
<1>7. CASE ~(extra > MinFragment)
  <2>1. n = mem
    BY <1>7 DEF Cut
  <2> QED BY <1>1, <1>2, <1>3, <2>1 DEF CutBlock, NoFreeNeighbours
<1>8. CASE extra > MinFragment
  <2>1. /\ extra \in Nat /\ extra > 0 /\ new \in Nat /\ base < new /\ new < next
        /\ new # base /\ new # next /\ next # base
    BY <1>1, <1>4, <1>5, <1>8, ZoneAssumption
  <2>2. new \notin DOMAIN mem /\ new \in Addr
    <3>1. new # Head /\ new \in Addr
      BY <1>4, <2>1 DEF Addr, Head
    <3>2. \A a \in DOMAIN mem \ {Head} : base < a => next <= a
      BY <1>1, <1>2, <1>5 DEF Tiled
    <3> QED BY <1>4, <2>1, <3>1, <3>2
  <2>3. n = [a \in DOMAIN mem \cup {new} |->
               IF a = new
               THEN [size |-> extra, tag |-> PU_FREE, user |-> None,
                     next |-> next, prev |-> base]
               ELSE IF a = base
               THEN [size |-> req.size, tag |-> PU_FREE, user |-> None,
                     next |-> new, prev |-> mem[base].prev]
               ELSE IF a = next THEN [mem[a] EXCEPT !.prev = new]
               ELSE mem[a]]
    BY <1>8 DEF Cut
  <2> HIDE DEF n, new, next, extra
  <2>4. DOMAIN n = DOMAIN mem \cup {new}
    BY <2>3
  <2>5. n[new] = [size |-> extra, tag |-> PU_FREE, user |-> None,
                  next |-> next, prev |-> base]
    BY <2>3
  <2>6. n[base] = [size |-> req.size, tag |-> PU_FREE, user |-> None,
                   next |-> new, prev |-> mem[base].prev]
    BY <1>1, <2>1, <2>3
  <2>7. n[next] = [mem[next] EXCEPT !.prev = new]
    BY <1>3, <2>1, <2>3
  <2>8. \A a \in DOMAIN mem \ {base, next} : n[a] = mem[a]
    BY <2>2, <2>3
  <2>9. mem[next] \in Header /\ mem[base] \in Header
    BY <1>1, <1>3 DEF Linked
  <2>10. /\ n[next] \in Header /\ n[next].prev = new /\ n[next].next = mem[next].next
         /\ n[next].size = mem[next].size
         /\ n[next].tag = mem[next].tag /\ n[next].user = mem[next].user
    BY <2>1, <2>7, <2>9 DEF Header
  <2>11. n[new] \in Header /\ n[base] \in Header
    BY <1>1, <1>4, <2>1, <2>5, <2>6, <2>9 DEF Header, Tags
  <2>12. ASSUME NEW a \in DOMAIN mem \ {base}
         PROVE  /\ n[a].next = mem[a].next /\ n[a].size = mem[a].size
                /\ n[a].tag = mem[a].tag /\ n[a].user = mem[a].user
                /\ a # next => n[a].prev = mem[a].prev
    BY <2>8, <2>10
  <2>13. ASSUME NEW a \in DOMAIN n
         PROVE  /\ a \in Addr \cup {Head} /\ n[a] \in Header
                /\ n[a].next \in DOMAIN n /\ n[n[a].next].prev = a
                /\ n[a].prev \in DOMAIN n /\ n[n[a].prev].next = a
    <3>1. CASE a = new
      BY <1>1, <1>3, <2>2, <2>4, <2>5, <2>6, <2>10, <2>11, <3>1
    <3>2. CASE a = base
      <4>1. mem[base].prev # base /\ mem[base].prev \in DOMAIN mem
        BY <1>3, <2>1 DEF next
      <4>2. n[mem[base].prev].next = base
        BY <1>3, <2>12, <4>1
      <4>3. base \in Addr \cup {Head}
        BY <1>1 DEF Linked
      <4>4. /\ n[base].next = new /\ new \in DOMAIN n /\ n[new].prev = base
            /\ n[base].prev = mem[base].prev
        BY <2>4, <2>5, <2>6
      <4> QED BY <2>4, <2>11, <3>2, <4>1, <4>2, <4>3, <4>4
    <3>3. CASE a # new /\ a # base
      <4>1. /\ a \in DOMAIN mem /\ a \in Addr \cup {Head} /\ mem[a] \in Header
            /\ mem[a].next \in DOMAIN mem /\ mem[mem[a].next].prev = a
            /\ mem[a].prev \in DOMAIN mem /\ mem[mem[a].prev].next = a
        BY <1>1, <2>4, <3>3 DEF Linked
      <4>2. n[a] \in Header
        BY <2>8, <2>10, <3>3, <4>1
      <4>3. n[a].next = mem[a].next /\ mem[a].next # next
        BY <1>3, <2>12, <3>3, <4>1
      <4>4. n[mem[a].next].prev = a
        <5>1. CASE mem[a].next = base
          BY <2>6, <4>1, <5>1
        <5>2. CASE mem[a].next # base
          BY <2>12, <4>1, <4>3, <5>2
        <5> QED BY <5>1, <5>2
      <4>5. n[a].prev \in DOMAIN n /\ n[n[a].prev].next = a
        <5>1. CASE a = next
          BY <2>4, <2>5, <2>10, <5>1
        <5>2. CASE a # next
          <6>1. mem[a].prev # base
            BY <4>1, <5>2 DEF next
          <6> QED BY <2>4, <2>12, <3>3, <4>1, <5>2, <6>1
        <5> QED BY <5>1, <5>2
      <4> QED BY <2>4, <4>1, <4>2, <4>3, <4>4, <4>5
    <3> QED BY <3>1, <3>2, <3>3
  <2>14. Head \in DOMAIN n /\ n[Head].tag = PU_STATIC /\ n[Head].next = 0
    BY <1>1, <1>2, <2>4, <2>12 DEF Linked, Tiled
  <2>15. Linked(n)
    BY <2>13, <2>14 DEF Linked
  <2>16. ASSUME NEW a \in DOMAIN n \ {Head}
         PROVE  n[a].size > 0 /\ a + n[a].size = n[a].next
    <3>1. CASE a = new
      BY <1>1, <1>4, <1>5, <2>1, <2>5, <3>1 DEF new, extra
    <3>2. CASE a = base
      BY <1>1, <2>6, <3>2 DEF new
    <3>3. CASE a # new /\ a # base
      BY <1>1, <2>4, <2>12, <3>3 DEF Tiled
    <3> QED BY <3>1, <3>2, <3>3
  <2>17. ASSUME NEW a \in DOMAIN n \ {Head}, NEW c \in DOMAIN n \ {Head}, a < c
         PROVE  a + n[a].size <= c
    <3>1. a \in Nat /\ c \in Nat /\ n[a].size \in Nat
      BY <2>15, Numbers
    <3>2. CASE a = new
      <4>1. c \in DOMAIN mem \ {Head} /\ base < c
        BY <1>4, <2>1, <2>4, <2>17, <3>1, <3>2
      <4>2. base + mem[base].size <= c
        BY <1>1, <1>2, <4>1 DEF Tiled
      <4> QED BY <1>5, <2>5, <2>16, <3>2, <4>2
    <3>3. CASE a = base
      <4>1. CASE c = new
        BY <2>6, <3>3, <4>1, <1>1, <1>4, <2>1 DEF new
      <4>2. CASE c # new
        <5>1. base + mem[base].size <= c
          BY <1>1, <1>2, <2>4, <2>17, <3>3, <4>2 DEF Tiled
        <5> QED BY <1>1, <1>4, <2>6, <3>1, <3>3, <5>1
      <4> QED BY <4>1, <4>2
    <3>4. CASE a # new /\ a # base
      <4>1. a \in DOMAIN mem \ {Head} /\ n[a].size = mem[a].size
        BY <2>4, <2>12, <3>4
      <4>2. CASE c # new
        BY <1>1, <2>4, <2>17, <4>1, <4>2 DEF Tiled
      <4>3. CASE c = new
        <5>1. a < base
          <6>1. ~(base < a)
            <7>1. base < a => next <= a
              BY <1>1, <1>2, <1>5, <4>1 DEF Tiled
            <7> QED BY <1>4, <2>1, <2>17, <3>1, <4>3, <7>1
          <6> QED BY <1>4, <3>1, <3>4, <6>1
        <5>2. a + mem[a].size <= base
          BY <1>1, <1>2, <4>1, <5>1 DEF Tiled
        <5> QED BY <1>4, <2>1, <3>1, <4>1, <4>3, <5>2
      <4> QED BY <4>2, <4>3
    <3> QED BY <3>2, <3>3, <3>4
  <2>18. Tiled(n)
    BY <2>14, <2>16, <2>17 DEF Tiled
  <2>19. ASSUME NEW a \in DOMAIN n \ {base}, n[a].tag = PU_FREE
         PROVE  n[n[a].next].tag # PU_FREE
    <3>1. CASE a = new
      BY <1>3, <2>5, <2>10, <3>1
    <3>2. CASE a # new
      <4>1. /\ a \in DOMAIN mem /\ mem[a].tag = PU_FREE /\ n[a].next = mem[a].next
            /\ mem[a].next \in DOMAIN mem
            /\ mem[mem[a].next].tag # PU_FREE
        BY <1>1, <2>4, <2>12, <2>19, <3>2 DEF NoFreeNeighbours, Linked
      <4>2. mem[a].next # base
        BY <1>1, <4>1
      <4> QED BY <2>12, <4>1, <4>2
    <3> QED BY <3>1, <3>2
  <2>20. ASSUME NEW a \in DOMAIN n \ {base}
         PROVE  /\ a \in DOMAIN mem => n[a].tag = mem[a].tag /\ n[a].user = mem[a].user
                /\ a \notin DOMAIN mem =>
                     n[a].tag = PU_FREE /\ n[a].user = None /\ a # Head
    <3>1. new # Head
      BY <1>1, <2>2 DEF Linked
    <3> QED BY <1>1, <2>4, <2>5, <2>12, <3>1
  <2>21. CutBlock(n)
    BY <1>1, <1>2, <2>4, <2>6, <2>15, <2>18, <2>19, <2>20 DEF CutBlock
  <2> QED BY <2>21 DEF n
<1> QED BY <1>7, <1>8

\* A block with a tag that is not free, of whatever owner, leaves no two free neighbours.
LEMMA LabelKeepsApart ==
    ASSUME NEW m, NEW b, NEW tag \in Tags, NEW user, NEW n, Labelling(m, b, tag, user, n),
           \A a \in DOMAIN m \ {b} : m[a].tag = PU_FREE => m[m[a].next].tag # PU_FREE
    PROVE  Heap(n)
<1>1. Label(m, b, tag, user, n) /\ Linked(n) /\ Tiled(n) /\ Linked(m) /\ b \in DOMAIN m
  BY LabelShape DEF Labelling
<1>2. tag # PU_FREE
  BY DEF Tags, PU_STATIC, PU_LEVEL, PU_CACHE, PU_FREE
<1>3. ASSUME NEW a \in DOMAIN n, n[a].tag = PU_FREE
      PROVE  n[n[a].next].tag # PU_FREE
  <2>1. a \in DOMAIN m \ {b} /\ m[a].tag = PU_FREE /\ n[a].next = m[a].next
    BY <1>1, <1>2, <1>3 DEF Label
  <2>2. m[a].next \in DOMAIN m /\ m[m[a].next].tag # PU_FREE
    BY <1>1, <2>1 DEF Linked
  <2> QED BY <1>1, <1>2, <2>1, <2>2 DEF Label
<1> QED BY <1>1, <1>3 DEF Heap, NoFreeNeighbours

LEMMA BlockIsTaken ==
    ASSUME IInv, Take
    PROVE  IInv'
<1> DEFINE n == Cut
           m == mem'
<1>1. Owned /\ Requested /\ CutBlock(n)
  BY CutShape DEF IInv, Take
<1>2. /\ m = Labelled(n, base, req.tag, req.user) /\ rover' = n[base].next
      /\ owner' = IF req.user # None THEN [owner EXCEPT ![req.user] = base] ELSE owner
      /\ pc' = "idle"
  BY DEF Take, Returns
<1> HIDE DEF n, m
<1>3. req.tag \in Tags /\ req.user \in Users \cup {None}
  BY <1>1 DEF Requested, Request
<1>4. Labelling(n, base, req.tag, req.user, m)
  BY <1>1, <1>2, <1>3 DEF Labelling, CutBlock
<1>5. Label(n, base, req.tag, req.user, m)
  BY <1>4, LabelShape
<1>6. Heap(m)
  BY <1>1, <1>3, <1>4, LabelKeepsApart DEF CutBlock
<1>7. rover' \in DOMAIN m
  <2>1. n[base].next \in DOMAIN n
    BY <1>1 DEF CutBlock, Linked
  <2> QED BY <1>2, <1>5, <2>1 DEF Label
<1>8. /\ base \in DOMAIN m \ {Head} /\ m[base].tag = req.tag /\ m[base].user = req.user
      /\ base \in Addr /\ req.tag # PU_FREE
  <2>1. base \in Addr
    BY <1>1 DEF CutBlock, Linked
  <2> QED BY <1>1, <1>3, <1>5, <2>1
        DEF CutBlock, Label, Tags, PU_STATIC, PU_LEVEL, PU_CACHE, PU_FREE
<1>9. ASSUME NEW a \in DOMAIN m \ {base}
      PROVE  /\ a \in DOMAIN mem => m[a].tag = mem[a].tag /\ m[a].user = mem[a].user
             /\ a \notin DOMAIN mem => m[a].tag = PU_FREE /\ m[a].user = None /\ a # Head
  BY <1>1, <1>5 DEF CutBlock, Label
<1>10. Owned'
  <2>1. /\ owner' \in [Users -> Addr \cup {Null}]
        /\ \A u \in Users : owner'[u] = IF u = req.user THEN base ELSE owner[u]
    BY <1>1, <1>2, <1>3, <1>8, ZoneAssumption DEF Owned
  <2>2. mem[base].user = None
    BY <1>1 DEF CutBlock, Owned, Blocks, IInv, Take, TakeShape
  <2>3. ASSUME NEW u \in Users, owner'[u] # Null
        PROVE  owner'[u] \in DOMAIN m \ {Head} /\ m[owner'[u]].tag # PU_FREE
               /\ m[owner'[u]].user = u
    <3>1. CASE u = req.user
      BY <1>8, <2>1, <3>1
    <3>2. CASE u # req.user
      <4>1. /\ owner'[u] = owner[u] /\ owner[u] \in Blocks
            /\ mem[owner[u]].tag # PU_FREE /\ mem[owner[u]].user = u
        BY <1>1, <2>1, <2>3, <3>2 DEF Owned
      <4>2. owner[u] # base
        BY <2>2, <4>1, ZoneAssumption
      <4>3. owner[u] \in DOMAIN m \ {base}
        BY <1>1, <1>5, <4>1, <4>2 DEF Blocks, CutBlock, Label
      <4>4. owner[u] # Head
        BY <4>1 DEF Blocks
      <4>5. m[owner[u]].tag = mem[owner[u]].tag /\ m[owner[u]].user = mem[owner[u]].user
        BY <1>9, <4>1, <4>3 DEF Blocks
      <4> QED BY <4>1, <4>3, <4>4, <4>5
    <3> QED BY <3>1, <3>2
  <2>4. ASSUME NEW c \in DOMAIN m \ {Head}, m[c].user # None
        PROVE  m[c].tag # PU_FREE /\ owner'[m[c].user] = c
    <3>1. CASE c = base
      BY <1>3, <1>8, <2>1, <2>4, <3>1
    <3>2. CASE c # base
      <4>1. c \in Blocks /\ m[c].tag = mem[c].tag /\ m[c].user = mem[c].user
        BY <1>9, <2>4, <3>2 DEF Blocks
      <4>2. mem[c].tag # PU_FREE /\ owner[mem[c].user] = c
        BY <1>1, <2>4, <4>1 DEF Owned
      <4>3. mem[c].user \in Users
        BY <2>4, <4>1 DEF IInv, Heap, Linked, Header, Blocks
      <4>4. c # Null
        BY <4>1, Numbers DEF IInv, Heap, Blocks, Null
      <4>5. mem[c].user # req.user
        BY <1>1, <2>4, <4>1, <4>2, <4>4 DEF Requested
      <4> QED BY <2>1, <4>1, <4>2, <4>3, <4>5
    <3> QED BY <3>1, <3>2
  <2>5. ASSUME NEW c \in DOMAIN m \ {Head}, m[c].tag >= PU_PURGELEVEL
        PROVE  m[c].user # None
    <3>1. CASE c = base
      BY <1>1, <1>8, <2>5, <3>1 DEF Requested
    <3>2. CASE c # base
      BY <1>1, <1>9, <2>5, <3>2 DEF Owned, Blocks, PU_FREE, PU_PURGELEVEL
    <3> QED BY <3>1, <3>2
  <2>6. m[Head].user = None
    <3>1. Head \in DOMAIN m \ {base}
      BY <1>6, <1>8 DEF Heap, Linked
    <3> QED BY <1>1, <1>9, <3>1 DEF Owned
  <2> QED BY <2>1, <2>3, <2>4, <2>5, <2>6 DEF Owned, Blocks, m
<1> QED BY <1>2, <1>6, <1>7, <1>10 DEF IInv, m

LEMMA TagChanges ==
    ASSUME IInv, NEW u \in Users, NEW tag \in Tags, Z_ChangeTag(u, tag)
    PROVE  IInv'
<1> DEFINE b == owner[u]
           n == mem'
<1>1. /\ Heap(mem) /\ Linked(mem) /\ Owned /\ b \in Blocks /\ mem[b].tag # PU_FREE
      /\ mem[b].user = u /\ rover \in DOMAIN mem
  BY DEF IInv, Z_ChangeTag, Owned, Heap
<1>2. n = Labelled(mem, b, tag, u) /\ UNCHANGED <<rover, owner, pc>> /\ pc = "idle"
  BY <1>1 DEF Z_ChangeTag
<1> HIDE DEF n
<1>3. Labelling(mem, b, tag, u, n)
  BY <1>1, <1>2 DEF Labelling, Heap, Blocks
<1>4. Label(mem, b, tag, u, n)
  BY <1>3, LabelShape
<1>5. Heap(n)
  BY <1>1, <1>3, LabelKeepsApart DEF Heap, NoFreeNeighbours
<1>6. tag # PU_FREE /\ u # None
  BY ZoneAssumption DEF Tags, PU_STATIC, PU_LEVEL, PU_CACHE, PU_FREE
<1>7. Owned'
  <2>1. DOMAIN n = DOMAIN mem /\ b \in DOMAIN mem \ {Head}
    BY <1>1, <1>4 DEF Label, Blocks
  <2>2. \A a \in DOMAIN mem : n[a].user = mem[a].user
    BY <1>1, <1>4 DEF Label
  <2>3. \A a \in DOMAIN mem : mem[a].tag # PU_FREE => n[a].tag # PU_FREE
    BY <1>4, <1>6 DEF Label
  <2>4. \A a \in DOMAIN mem \ {b} : n[a].tag = mem[a].tag
    BY <1>4 DEF Label
  <2>5. Head \in DOMAIN mem
    BY <1>1 DEF Linked
  <2> QED BY <1>1, <1>2, <1>6, <2>1, <2>2, <2>3, <2>4, <2>5 DEF Owned, Blocks, n
<1> QED BY <1>1, <1>2, <1>4, <1>5, <1>7 DEF IInv, Label, n

LEMMA BlockIsFreed ==
    ASSUME IInv, NEW b \in Blocks, Z_Free(b)
    PROVE  IInv'
<1>1. FreedHeap(b, Into(b), mem') /\ rover' \in DOMAIN mem' /\ Owned'
  BY FreeKeeps DEF IInv, Z_Free
<1> QED BY <1>1 DEF IInv, Z_Free, FreedHeap

-----------------------------------------------------------------------------
(* Z_FreeTags *)

LEMMA WalkStarts ==
    ASSUME IInv, Z_FreeTags
    PROVE  IInv'
<1>1. Heap(mem) /\ Linked(mem) /\ Tiled(mem) /\ UNCHANGED <<mem, rover, owner>>
  BY DEF IInv, Heap, Z_FreeTags
<1>2. scan' = 0 /\ 0 \in DOMAIN mem
  BY <1>1 DEF Z_FreeTags, FirstBlock, Linked, Tiled
<1>3. \A b \in Blocks : 0 <= b
  BY <1>1, Numbers DEF Blocks
<1>4. WalkShape'
  BY <1>1, <1>2, <1>3 DEF WalkShape, Blocks
<1> QED BY <1>1, <1>4 DEF IInv, Owned, Blocks, Z_FreeTags

\* What lies behind a block c and no longer before s lies at the end of c or behind it.
LEMMA Behind ==
    ASSUME Linked(mem), Tiled(mem), NEW c \in Blocks, NEW b \in Blocks,
           NEW s \in Nat, c <= s, s <= b, b # c
    PROVE  mem[c].next <= b
<1>1. c \in Nat /\ b \in Nat
  BY Numbers DEF Blocks
<1>2. c < b
  BY <1>1
<1> QED BY <1>2 DEF Tiled, Blocks

LEMMA WalkGoesOn ==
    ASSUME IInv, FreeTagged
    PROVE  IInv'
<1>1. /\ Heap(mem) /\ Linked(mem) /\ Tiled(mem) /\ WalkShape /\ scan \in Nat /\ scan # Head
      /\ rover \in DOMAIN mem /\ Owned /\ pc' = "tags" /\ scan' = Here.next
      /\ left' = mem[Here.next]
  BY DEF IInv, Heap, FreeTagged, WalkShape
<1>2. CASE scan \notin DOMAIN mem
  <2>1. Here = left /\ left.tag = PU_FREE /\ StaleHere
    BY <1>1, <1>2 DEF Here, WalkShape
  <2>2. UNCHANGED <<mem, rover, owner>>
    BY <2>1 DEF FreeTagged
  <2>3. PICK c \in Blocks : c < scan /\ mem[c].tag = PU_FREE /\ left.next = mem[c].next
    BY <2>1 DEF StaleHere
  <2>4. scan' = mem[c].next /\ scan' \in DOMAIN mem /\ scan' \in Nat
    BY <1>1, <2>1, <2>3, Numbers DEF Blocks, Linked
  <2>5. ASSUME NEW b \in Blocks, mem[b].tag = PU_LEVEL
        PROVE  scan' <= b
    <3>1. scan <= b /\ b # c /\ c \in Nat
      BY <1>1, <2>3, <2>5, Numbers DEF WalkShape, PU_FREE, PU_LEVEL, Blocks
    <3> QED BY <1>1, <2>3, <2>4, <3>1, Behind
  <2>6. WalkShape'
    BY <2>2, <2>4, <2>5 DEF WalkShape, Blocks
  <2> QED BY <1>1, <2>2, <2>6 DEF IInv, Owned, Blocks
<1>3. CASE scan \in DOMAIN mem
  <2>1. scan \in Blocks /\ Here = mem[scan] /\ scan' = mem[scan].next
        /\ left' = mem[mem[scan].next]
    BY <1>1, <1>3 DEF Here, Blocks
  <2>2. mem[scan].next \in DOMAIN mem /\ scan' \in Nat
    BY <1>1, <1>3, <2>1, Numbers DEF Linked
  <2>3. ASSUME NEW b \in Blocks, mem[b].tag = PU_LEVEL, b # scan
        PROVE  scan' <= b
    <3>1. scan <= b
      BY <1>1, <2>3 DEF WalkShape
    <3> QED BY <1>1, <2>1, <2>3, <3>1, Behind
  <2>4. CASE ~(mem[scan].tag # PU_FREE /\ mem[scan].tag >= PU_LEVEL
               /\ mem[scan].tag <= PU_PURGELEVEL - 1)
    <3>1. UNCHANGED <<mem, rover, owner>>
      BY <2>1, <2>4 DEF FreeTagged
    <3>2. mem[scan].tag # PU_LEVEL
      BY <2>4 DEF PU_LEVEL, PU_PURGELEVEL, PU_FREE
    <3>3. WalkShape'
      BY <2>1, <2>2, <2>3, <3>1, <3>2 DEF WalkShape, Blocks
    <3> QED BY <1>1, <3>1, <3>3 DEF IInv, Owned, Blocks
  <2>5. CASE mem[scan].tag # PU_FREE /\ mem[scan].tag >= PU_LEVEL
             /\ mem[scan].tag <= PU_PURGELEVEL - 1
    <3>1. Free(scan)
      BY <2>1, <2>5 DEF FreeTagged
    <3>2. FreedHeap(scan, Into(scan), mem') /\ rover' \in DOMAIN mem' /\ Owned'
      BY <1>1, <2>1, <2>5, <3>1, FreeKeeps
    <3>3. Heap(mem')
      BY <3>2 DEF FreedHeap
    <3>4. ASSUME NEW b \in Blocks', mem'[b].tag = PU_LEVEL
          PROVE  scan' <= b
      <4>1. b # Into(scan)
        BY <3>2, <3>4 DEF FreedHeap, PU_FREE, PU_LEVEL
      <4>2. b \in Blocks /\ mem[b].tag = PU_LEVEL
        BY <3>2, <3>4, <4>1 DEF FreedHeap, Blocks
      <4>3. b # scan
        BY <3>2, <3>4, <4>1 DEF FreedHeap, Blocks
      <4> QED BY <2>3, <4>2, <4>3
    <3>5. scan' \notin DOMAIN mem' => left'.tag = PU_FREE /\ StaleHere'
      <4> SUFFICES ASSUME scan' \notin DOMAIN mem'
                   PROVE  left'.tag = PU_FREE /\ StaleHere'
        OBVIOUS
      <4>1. /\ Into(scan) \in DOMAIN mem' \ {Head} /\ Into(scan) < scan'
            /\ mem'[Into(scan)].tag = PU_FREE
            /\ mem[scan'].tag = PU_FREE /\ mem'[Into(scan)].next = mem[scan'].next
        BY <2>1, <3>2 DEF FreedHeap
      <4> QED BY <2>1, <4>1 DEF StaleHere, Blocks
    <3>6. WalkShape'
      BY <2>2, <3>4, <3>5 DEF WalkShape
    <3> QED BY <1>1, <3>2, <3>3, <3>6 DEF IInv
  <2> QED BY <2>4, <2>5
<1> QED BY <1>2, <1>3

LEMMA WalkEnds ==
    ASSUME IInv, TagsFreed
    PROVE  IInv' /\ \A b \in Blocks' : mem'[b].tag # PU_LEVEL
<1>1. UNCHANGED <<mem, rover, owner>> /\ pc' = "idle" /\ scan = Head
  BY DEF TagsFreed, Returns
<1>2. IInv'
  BY <1>1 DEF IInv, Owned, Blocks
<1>3. Linked(mem) /\ WalkShape
  BY DEF IInv, Heap, TagsFreed
<1>4. \A b \in Blocks : b \in Nat /\ b < Head
  <2> SUFFICES ASSUME NEW b \in Blocks PROVE b \in Nat /\ b < Head
    OBVIOUS
  <2>1. b \in Addr
    BY <1>3 DEF Linked, Blocks
  <2> QED BY <2>1, ZoneAssumption DEF Addr, Head
<1>5. \A b \in Blocks : mem[b].tag # PU_LEVEL
  BY <1>1, <1>3, <1>4, ZoneAssumption DEF WalkShape, Head
<1> QED BY <1>1, <1>2, <1>5 DEF Blocks

-----------------------------------------------------------------------------
LEMMA StepHolds == IInv /\ [Next]_vars => IInv'
<1> SUFFICES ASSUME IInv, [Next]_vars PROVE IInv'
  OBVIOUS
<1>1. ASSUME NEW size \in Sizes, NEW tag \in {PU_STATIC, PU_LEVEL}, Z_Malloc(size, tag, None)
      PROVE  IInv'
  BY <1>1, MallocStarts DEF Tags
<1>2. ASSUME NEW u \in Users, NEW tag \in Tags, W_CacheLumpNum(u, tag)
      PROVE  IInv'
  BY <1>2, MallocStarts, TagChanges DEF W_CacheLumpNum
<1>3. ASSUME NEW u \in Users, W_ReleaseLumpNum(u)
      PROVE  IInv'
  BY <1>3, TagChanges DEF W_ReleaseLumpNum, Tags
<1>4. ASSUME NEW b \in Blocks, Z_Free(b)
      PROVE  IInv'
  BY <1>4, BlockIsFreed
<1>5. CASE Z_FreeTags
  BY <1>5, WalkStarts
<1>6. CASE ScanFails
  BY <1>6 DEF ScanFails, callVars, IInv, Owned, Blocks
<1>7. CASE ScanKept
  BY <1>7, KeptIsPassed
<1>8. CASE ScanPurges
  BY <1>8, PurgeIsPassed
<1>9. CASE ScanFree
  BY <1>9, FreeIsPassed
<1>10. CASE Take
  BY <1>10, BlockIsTaken
<1>11. CASE FreeTagged
  BY <1>11, WalkGoesOn
<1>12. CASE TagsFreed
  BY <1>12, WalkEnds
<1>13. CASE UNCHANGED vars
  BY <1>13 DEF vars, callVars, IInv, Owned, Blocks, Requested, ScanShape, TakeShape,
               WalkShape, StaleHere
<1> QED
  BY <1>1, <1>2, <1>3, <1>4, <1>5, <1>6, <1>7, <1>8, <1>9, <1>10, <1>11, <1>12, <1>13
  DEF Next, Turn

\* The heap, who owns what, and where each loop is, for a zone of any size.
THEOREM ZoneInvariant == Spec => []IInv
<1> QED BY InitHolds, StepHolds, PTL DEF Spec

\* The heap is sound at every turn of every call.
THEOREM HeapHolds == Spec => []HeapOK
<1>1. IInv => HeapOK
  BY DEF IInv, Heap, HeapOK
<1> QED BY <1>1, ZoneInvariant, PTL

\* A user variable points to a block exactly as long as the block is its own.
THEOREM OwnersHold == Spec => []OwnersAgree
<1>1. IInv => OwnersAgree
  BY DEF IInv, Owned, OwnersAgree
<1> QED BY <1>1, ZoneInvariant, PTL

\* Z_FreeTags leaves nothing of the old level.
THEOREM LevelIsGone == Spec => LevelGone
<1> DEFINE Gone == pc = "tags" /\ pc' = "idle" => \A b \in Blocks : mem[b].tag # PU_LEVEL
<1>1. IInv /\ [Next]_vars => [Gone]_vars
  <2> SUFFICES ASSUME IInv, Next, pc = "tags", pc' = "idle"
               PROVE  \A b \in Blocks : mem[b].tag # PU_LEVEL
    OBVIOUS
  <2>1. TagsFreed
    BY DEF Next, Turn, Z_Malloc, W_CacheLumpNum, W_ReleaseLumpNum, Z_ChangeTag, Z_Free,
           Z_FreeTags, ScanFails, ScanKept, ScanPurges, ScanFree, Scanning, Take,
           FreeTagged, TagsFreed
  <2>2. UNCHANGED mem
    BY <2>1 DEF TagsFreed
  <2> QED BY <2>1, <2>2, WalkEnds DEF Blocks
<1> QED BY <1>1, ZoneInvariant, PTL DEF Spec, LevelGone
-----------------------------------------------------------------------------
(* What the scan of Z_Malloc has behind it, and that no byte is lost.      *)

\* b lies between s and t on the way that the links go.
Between(s, t, b) == IF s < t THEN s < b /\ b < t ELSE b > s \/ b < t

\* Behind the scan nothing can be purged any more, and what is free is too small.
ScanClean ==
    pc = "scan" => \A b \in Blocks : Between(start, scan, b) =>
        /\ mem[b].tag < PU_PURGELEVEL
        /\ mem[b].tag = PU_FREE => mem[b].size < req.size

\* Every byte of the zone is in a block.
Covered(m) == \A a \in Addr : \E b \in DOMAIN m \ {Head} : b <= a /\ a < b + m[b].size

Searched == Covered(mem) /\ ScanClean

LEMMA BetweenNext ==
    ASSUME NEW m, Linked(m), Tiled(m), NEW s \in DOMAIN m, NEW t \in DOMAIN m, s # t,
           NEW b \in DOMAIN m \ {Head}
    PROVE  Between(s, m[t].next, b) <=> Between(s, t, b) \/ b = t
<1>1. /\ s \in Nat /\ s <= Head /\ t \in Nat /\ t <= Head /\ Head \in Nat
      /\ b \in Nat /\ b < Head /\ m[t].next \in Nat
  <2>1. b \in Nat /\ b <= Head /\ b # Head
    BY Numbers
  <2> QED BY <2>1, Numbers
<1>2. CASE t = Head
  <2>1. m[t].next = 0
    BY <1>2 DEF Tiled
  <2> QED BY <1>1, <1>2, <2>1 DEF Between
<1>3. CASE t # Head
  <2>1. m[t].size \in Nat /\ m[t].size > 0 /\ t + m[t].size = m[t].next
    BY <1>3, Numbers DEF Tiled
  <2>2. t < b => m[t].next <= b
    BY <1>3, <2>1 DEF Tiled
  <2>3. t < s => m[t].next <= s
    <3>1. CASE s = Head
      <4>1. m[t].next \in DOMAIN m
        BY DEF Linked
      <4> QED BY <1>1, <3>1, <4>1, Numbers
    <3>2. CASE s # Head
      BY <1>3, <2>1, <3>2 DEF Tiled
    <3> QED BY <3>1, <3>2
  <2> QED BY <1>1, <2>1, <2>2, <2>3 DEF Between
<1> QED BY <1>2, <1>3

LEMMA FreeCovers ==
    ASSUME Heap(mem), Covered(mem), NEW b \in Blocks, NEW i, NEW m, FreedHeap(b, i, m)
    PROVE  Covered(m)
<1>1. /\ Linked(mem) /\ Tiled(mem) /\ Linked(m) /\ Tiled(m) /\ b \in DOMAIN mem \ {Head}
      /\ i \in DOMAIN m \ {Head} /\ DOMAIN m \subseteq DOMAIN mem /\ i <= b
      /\ DOMAIN mem \ {b, mem[b].next} \subseteq DOMAIN m
      /\ \A a \in DOMAIN m \ {i} : m[a].next = mem[a].next
  BY DEF Heap, Blocks, FreedHeap
<1>2. /\ b \in Nat /\ i \in Nat /\ mem[b].size \in Nat /\ mem[b].next \in Nat
      /\ m[i].size \in Nat /\ m[i].next \in Nat
      /\ b + mem[b].size = mem[b].next /\ mem[b].size > 0 /\ i + m[i].size = m[i].next
      /\ mem[b].next \in DOMAIN mem
  BY <1>1, Numbers DEF Tiled, Linked
<1>3. /\ mem[b].next \notin DOMAIN m =>
           mem[b].next # Head /\ m[i].next = mem[mem[b].next].next
      /\ mem[b].next \in DOMAIN m => m[i].next = mem[b].next
      /\ i = b \/ i = mem[b].prev
  <2>1. Head \in DOMAIN m
    BY <1>1 DEF Linked
  <2> QED BY <2>1 DEF FreedHeap
<1>4. m[i].next >= mem[b].next
  <2>1. CASE mem[b].next \in DOMAIN m
    BY <1>2, <1>3, <2>1
  <2>2. CASE mem[b].next \notin DOMAIN m
    <3>1. LET o == mem[b].next IN o \in DOMAIN mem \ {Head} /\ mem[o].size \in Nat /\ mem[o].next \in Nat
      BY <1>1, <1>2, <1>3, <2>2, Numbers
    <3> QED BY <1>1, <1>2, <1>3, <2>2, <3>1 DEF Tiled
  <2> QED BY <2>1, <2>2
<1> SUFFICES ASSUME NEW a \in Addr PROVE \E c \in DOMAIN m \ {Head} : c <= a /\ a < c + m[c].size
  BY DEF Covered
<1>5. a \in Nat
  BY ZoneAssumption DEF Addr
<1>6. PICK c \in DOMAIN mem \ {Head} : c <= a /\ a < c + mem[c].size
  BY DEF Covered
<1>7. c \in Nat /\ mem[c].size \in Nat /\ c + mem[c].size = mem[c].next
  BY <1>1, Numbers DEF Tiled
<1>8. CASE c \in DOMAIN m \ {i}
  <2>1. c + m[c].size = m[c].next /\ m[c].next = mem[c].next
    BY <1>1, <1>6, <1>8 DEF Tiled
  <2> QED BY <1>6, <1>7, <1>8, <2>1
<1>9. CASE c = i
  <2>1. i = b \/ mem[i].next = b
    BY <1>1, <1>3 DEF Linked
  <2>2. a < m[i].next
    BY <1>2, <1>4, <1>5, <1>6, <1>7, <1>9, <2>1
  <2> QED BY <1>1, <1>2, <1>6, <1>9, <2>2
<1>10. CASE c \notin DOMAIN m
  <2>1. c = b \/ c = mem[b].next
    BY <1>1, <1>6, <1>10
  <2>2. i <= a /\ a < m[i].next
    BY <1>1, <1>2, <1>3, <1>4, <1>5, <1>6, <1>7, <1>10, <2>1
  <2> QED BY <1>1, <1>2, <2>2
<1> QED BY <1>8, <1>9, <1>10

\* The sizes after the cut, if there is one.
CutSized(n) ==
    /\ n[base].size \in req.size..req.size + MinFragment /\ n[base].size <= mem[base].size
    /\ \A a \in DOMAIN mem \ {base} : n[a].size = mem[a].size
    /\ n[base].size < mem[base].size =>
         LET rest == base + n[base].size
         IN  rest \in DOMAIN n \ {Head} /\ n[rest].size = mem[base].size - n[base].size

LEMMA CutSizes ==
    ASSUME IInv, pc = "take"
    PROVE  CutSized(Cut)
<1> DEFINE extra == mem[base].size - req.size
           new == base + req.size
           next == mem[base].next
           n == Cut
<1>1. /\ Linked(mem) /\ Tiled(mem) /\ base \in DOMAIN mem \ {Head} /\ next \in DOMAIN mem
      /\ mem[base].size >= req.size /\ req.size \in Nat \ {0}
  <2>1. base \in DOMAIN mem /\ mem[base].tag = PU_FREE /\ Linked(mem) /\ Tiled(mem)
        /\ mem[base].size >= req.size /\ req.size \in Nat \ {0}
    BY DEF IInv, Heap, TakeShape, Requested, Request
  <2>2. mem[Head].tag = PU_STATIC /\ next \in DOMAIN mem
    BY <2>1 DEF Linked
  <2>3. base # Head
    BY <2>1, <2>2 DEF PU_FREE, PU_STATIC
  <2> QED BY <2>1, <2>2, <2>3
<1>2. base \in Nat /\ mem[base].size \in Nat /\ next \in Nat /\ MinFragment \in Nat
      /\ base + mem[base].size = next /\ next <= Head /\ Head \in Nat
  BY <1>1, Numbers, ZoneAssumption DEF Tiled
<1>3. CASE ~(extra > MinFragment)
  <2>1. n = mem
    BY <1>3 DEF Cut
  <2>2. n[base].size \in req.size..req.size + MinFragment
    BY <1>1, <1>2, <1>3, <2>1
  <2> QED BY <1>2, <2>1, <2>2 DEF CutSized
<1>4. CASE extra > MinFragment
  <2>1. extra \in Nat /\ new \in Nat /\ base < new /\ new < next /\ new # Head
    BY <1>1, <1>2, <1>4
  <2>2. new \notin DOMAIN mem
    <3>1. \A a \in DOMAIN mem \ {Head} : base < a => next <= a
      BY <1>1, <1>2 DEF Tiled
    <3> QED BY <1>2, <2>1, <3>1
  <2>3. n = [a \in DOMAIN mem \cup {new} |->
               IF a = new
               THEN [size |-> extra, tag |-> PU_FREE, user |-> None,
                     next |-> next, prev |-> base]
               ELSE IF a = base
               THEN [size |-> req.size, tag |-> PU_FREE, user |-> None,
                     next |-> new, prev |-> mem[base].prev]
               ELSE IF a = next THEN [mem[a] EXCEPT !.prev = new]
               ELSE mem[a]]
    BY <1>4 DEF Cut
  <2> HIDE DEF n, next, new, extra
  <2>4. new \in DOMAIN n \ {Head} /\ n[new].size = extra /\ n[base].size = req.size
    BY <1>1, <2>1, <2>3
  <2>5. ASSUME NEW a \in DOMAIN mem \ {base} PROVE n[a].size = mem[a].size
    <3>1. CASE a = next
      <4>1. mem[a] \in Header
        BY <1>1 DEF Linked
      <4>2. n[a] = [mem[a] EXCEPT !.prev = new]
        BY <2>2, <2>3, <3>1
      <4> QED BY <4>1, <4>2 DEF Header
    <3>2. CASE a # next
      BY <2>2, <2>3, <3>2
    <3> QED BY <3>1, <3>2
  <2>6. n[base].size \in req.size..req.size + MinFragment /\ n[base].size <= mem[base].size
    BY <1>1, <1>2, <2>4, <2>1 DEF extra
  <2>7. CutSized(n)
    BY <2>4, <2>5, <2>6 DEF CutSized, new, extra
  <2> QED BY <2>7 DEF n
<1> QED BY <1>3, <1>4

LEMMA CutCovers ==
    ASSUME IInv, pc = "take", Covered(mem)
    PROVE  Covered(Cut)
<1> DEFINE n == Cut
<1>1. CutSized(n) /\ CutBlock(n)
  BY CutSizes, CutShape
<1>2. Linked(mem) /\ Tiled(mem)
  BY DEF IInv, Heap
<1> HIDE DEF n
<1>3. /\ DOMAIN mem \subseteq DOMAIN n /\ base \in DOMAIN mem \ {Head}
      /\ base \in DOMAIN n /\ Linked(n)
  BY <1>1 DEF CutBlock, IInv, TakeShape
<1>4. base \in Nat /\ mem[base].size \in Nat /\ n[base].size \in Nat
  BY <1>2, <1>3, Numbers
<1>5. ASSUME NEW a \in Addr PROVE \E c \in DOMAIN n \ {Head} : c <= a /\ a < c + n[c].size
  <2>1. a \in Nat
    BY ZoneAssumption DEF Addr
  <2>2. PICK c \in DOMAIN mem \ {Head} : c <= a /\ a < c + mem[c].size
    BY DEF Covered
  <2>3. CASE c # base
    BY <1>1, <1>3, <2>2, <2>3 DEF CutSized
  <2>4. CASE c = base /\ a < base + n[base].size
    BY <1>3, <2>2, <2>4
  <2>5. CASE c = base /\ ~(a < base + n[base].size)
    <3>1. n[base].size < mem[base].size
      BY <1>4, <2>1, <2>2, <2>5
    <3>2. LET rest == base + n[base].size
          IN  rest \in DOMAIN n \ {Head} /\ n[rest].size = mem[base].size - n[base].size
      BY <1>1, <3>1 DEF CutSized
    <3> QED BY <1>4, <2>1, <2>2, <2>5, <3>2
  <2> QED BY <2>3, <2>4, <2>5
<1>6. Covered(n)
  BY <1>5 DEF Covered
<1> QED BY <1>6 DEF n

LEMMA LabelCovers ==
    ASSUME NEW m, NEW b, NEW tag, NEW user, NEW n, Label(m, b, tag, user, n), Covered(m)
    PROVE  Covered(n)
  BY DEF Label, Covered


\* Nothing is between a block and the next.
LEMMA BetweenNone ==
    ASSUME NEW m, Linked(m), Tiled(m), NEW s \in DOMAIN m, NEW b \in DOMAIN m \ {Head}
    PROVE  ~Between(s, m[s].next, b)
<1>1. s \in Nat /\ s <= Head /\ Head \in Nat /\ b \in Nat /\ b <= Head /\ m[s].next \in Nat
  BY Numbers
<1>2. CASE s = Head
  BY <1>1, <1>2 DEF Tiled, Between
<1>3. CASE s # Head
  <2>1. m[s].size \in Nat /\ m[s].size > 0 /\ s + m[s].size = m[s].next
    BY <1>3, Numbers DEF Tiled
  <2>2. s < b => m[s].next <= b
    BY <1>3, <2>1 DEF Tiled
  <2> QED BY <1>1, <2>1, <2>2 DEF Between
<1> QED BY <1>2, <1>3

LEMMA SearchBegins ==
    ASSUME IInv, Covered(mem), NEW size \in Sizes, NEW tag \in Tags,
           NEW user \in Users \cup {None}, Z_Malloc(size, tag, user)
    PROVE  Searched'
<1>1. mem' = mem /\ Linked(mem) /\ Tiled(mem) /\ pc' = "scan"
  BY DEF IInv, Heap, Z_Malloc
<1>2. scan' = base' /\ start' = mem[base'].prev
  BY DEF Z_Malloc, StartScan
<1>3. base' \in DOMAIN mem
  BY <1>1, MallocStarts DEF IInv, ScanShape
<1>4. start' \in DOMAIN mem /\ scan' = mem[start'].next
  BY <1>1, <1>2, <1>3 DEF Linked
<1>5. ASSUME NEW b \in Blocks PROVE ~Between(start', scan', b)
  BY <1>1, <1>4, BetweenNone DEF Blocks
<1> QED BY <1>1, <1>5 DEF Searched, ScanClean, Blocks

LEMMA SearchPasses ==
    ASSUME IInv, Searched, ScanKept \/ ScanFree
    PROVE  Searched'
<1>1. /\ Linked(mem) /\ Tiled(mem) /\ NoFreeNeighbours(mem) /\ ScanShape /\ Requested
      /\ pc = "scan" /\ scan # start /\ Until
      /\ UNCHANGED <<mem, req, start>> /\ scan' = mem[scan].next
  BY DEF IInv, Heap, ScanKept, ScanFree, Scanning
<1>2. start \in DOMAIN mem /\ scan \in DOMAIN mem
  BY <1>1 DEF ScanShape
<1>3. ASSUME NEW b \in Blocks, Between(start, scan', b), b # scan
      PROVE  mem[b].tag < PU_PURGELEVEL /\ (mem[b].tag = PU_FREE => mem[b].size < req.size)
  <2>1. Between(start, scan, b)
    BY <1>1, <1>2, <1>3, BetweenNext DEF Blocks
  <2> QED BY <1>1, <2>1 DEF Searched, ScanClean
<1>4. ASSUME pc' = "scan", scan \in Blocks
      PROVE  mem[scan].tag < PU_PURGELEVEL /\ (mem[scan].tag = PU_FREE => mem[scan].size < req.size)
  <2>1. CASE ScanKept
    BY <2>1 DEF ScanKept
  <2>2. CASE ScanFree
    <3>1. scan = base /\ base' = base /\ mem[scan].tag = PU_FREE
      BY <1>1, <2>2 DEF ScanFree, ScanShape, NoFreeNeighbours
    <3>2. ~(mem[scan].size >= req.size)
      BY <1>1, <1>4, <3>1 DEF Until
    <3>3. mem[scan].size \in Nat /\ req.size \in Nat
      BY <1>1, <1>2, Numbers DEF Requested, Request
    <3> QED BY <3>1, <3>2, <3>3 DEF PU_FREE, PU_PURGELEVEL
  <2> QED BY <2>1, <2>2
<1>5. ScanClean'
  BY <1>1, <1>3, <1>4 DEF ScanClean, Blocks
<1> QED BY <1>1, <1>5 DEF Searched

LEMMA SearchPurges ==
    ASSUME IInv, Searched, ScanPurges
    PROVE  Searched'
<1> DEFINE i == Into(scan)
           n == mem'
           after == mem[scan].next
<1>1. /\ Heap(mem) /\ Linked(mem) /\ Tiled(mem) /\ ScanShape /\ Requested
      /\ pc = "scan" /\ scan # start /\ Until /\ UNCHANGED <<req, start>>
  BY DEF IInv, Heap, ScanPurges, Scanning
<1>2. /\ scan \in Blocks /\ mem[scan].tag # PU_FREE
      /\ FreedHeap(scan, i, n) /\ base' = i /\ scan' = n[i].next
  BY PurgeMoves
<1>3. Covered(n)
  BY <1>1, <1>2, FreeCovers DEF Searched
<1> HIDE DEF i, n
<1>4. /\ Linked(n) /\ Tiled(n) /\ DOMAIN n \subseteq DOMAIN mem
      /\ i \in DOMAIN n \ {Head} /\ n[i].tag = PU_FREE
      /\ i = scan \/ scan \notin DOMAIN n
      /\ \A a \in DOMAIN n \ {i} : n[a].tag = mem[a].tag /\ n[a].next = mem[a].next
      /\ \/ after \in DOMAIN n /\ n[i].next = after
         \/ after \notin DOMAIN n /\ mem[after].tag = PU_FREE /\ n[i].next = mem[after].next
  BY <1>2 DEF FreedHeap, Heap
<1>5. start \in DOMAIN mem /\ scan \in DOMAIN mem /\ after \in DOMAIN mem /\ mem[start].tag # PU_FREE
  BY <1>1 DEF ScanShape, Linked
<1>6. ASSUME pc' = "scan"
      PROVE  n[i].tag < PU_PURGELEVEL /\ n[i].size < req.size
  <2>1. ~(n[i].size >= req.size)
    BY <1>1, <1>2, <1>4, <1>6 DEF Until, n
  <2>2. n[i].size \in Nat /\ req.size \in Nat
    BY <1>1, <1>4, Numbers DEF Requested, Request
  <2> QED BY <1>4, <2>1, <2>2 DEF PU_FREE, PU_PURGELEVEL
<1>7. ASSUME NEW b \in DOMAIN n \ {Head}, b # i, Between(start, scan', b)
      PROVE  n[b].tag < PU_PURGELEVEL /\ (n[b].tag = PU_FREE => n[b].size < req.size)
  <2>1. b \in Blocks /\ b # scan /\ n[b].tag = mem[b].tag /\ n[b].next = mem[b].next
    BY <1>4, <1>7 DEF Blocks
  <2>2. n[b].size = mem[b].size
    <3>1. b + n[b].size = n[b].next /\ b + mem[b].size = mem[b].next
      BY <1>1, <1>4, <2>1 DEF Tiled, Blocks
    <3>2. b \in Nat /\ n[b].size \in Nat /\ mem[b].size \in Nat
      BY <1>1, <1>4, <2>1, Numbers DEF Blocks
    <3> QED BY <2>1, <3>1, <3>2
  <2>3. Between(start, after, b)
    <3>1. CASE n[i].next = after
      BY <1>2, <1>7, <3>1
    <3>2. CASE after \notin DOMAIN n /\ mem[after].tag = PU_FREE /\ n[i].next = mem[after].next
      <4>1. start # after /\ b # after
        BY <1>5, <1>7, <3>2
      <4>2. Between(start, mem[after].next, b)
        BY <1>2, <1>7, <3>2
      <4> QED BY <1>1, <1>5, <2>1, <4>1, <4>2, BetweenNext DEF Blocks
    <3> QED BY <1>4, <3>1, <3>2
  <2>4. Between(start, scan, b)
    BY <1>1, <1>5, <2>1, <2>3, BetweenNext DEF Blocks
  <2> QED BY <1>1, <2>1, <2>2, <2>4 DEF Searched, ScanClean
<1>8. ScanClean'
  BY <1>1, <1>6, <1>7 DEF ScanClean, Blocks, n
<1> QED BY <1>3, <1>8 DEF Searched, n

LEMMA SearchEnds ==
    ASSUME IInv, Searched, Take
    PROVE  Searched'
<1>1. Covered(Cut) /\ CutBlock(Cut)
  BY CutCovers, CutShape DEF Take, Searched
<1>2. Labelling(Cut, base, req.tag, req.user, mem')
  BY <1>1 DEF Take, IInv, Requested, Request, Labelling, CutBlock
<1>3. Covered(mem')
  BY <1>1, <1>2, LabelShape, LabelCovers
<1> QED BY <1>3 DEF Take, Returns, Searched, ScanClean

\* A block that is freed or labelled outside of the scan.
LEMMA SearchIsOver ==
    ASSUME IInv, Searched, pc' # "scan",
           \/ UNCHANGED mem
           \/ \E b \in Blocks : mem[b].tag # PU_FREE /\ Free(b)
           \/ \E u \in Users, tag \in Tags : Z_ChangeTag(u, tag)
    PROVE  Searched'
<1>1. ScanClean'
  BY DEF ScanClean
<1>2. CASE UNCHANGED mem
  BY <1>1, <1>2 DEF Searched
<1>3. ASSUME NEW b \in Blocks, mem[b].tag # PU_FREE, Free(b) PROVE Covered(mem')
  BY <1>3, FreeKeeps, FreeCovers DEF IInv, Searched
<1>4. ASSUME NEW u \in Users, NEW tag \in Tags, Z_ChangeTag(u, tag) PROVE Covered(mem')
  <2>1. owner[u] \in Blocks /\ mem[owner[u]].user = u
    BY <1>4 DEF IInv, Z_ChangeTag, Owned
  <2>2. Labelling(mem, owner[u], tag, u, mem')
    BY <1>4, <2>1 DEF IInv, Heap, Z_ChangeTag, Labelling, Blocks
  <2> QED BY <2>2, LabelShape, LabelCovers DEF Searched
<1> QED BY <1>1, <1>2, <1>3, <1>4 DEF Searched

LEMMA SearchedStep == IInv /\ Searched /\ [Next]_vars => Searched'
<1> SUFFICES ASSUME IInv, Searched, [Next]_vars PROVE Searched'
  OBVIOUS
<1>1. ASSUME NEW size \in Sizes, NEW tag \in {PU_STATIC, PU_LEVEL}, Z_Malloc(size, tag, None)
      PROVE  Searched'
  BY <1>1, SearchBegins DEF Tags, Searched
<1>2. ASSUME NEW u \in Users, NEW tag \in Tags, W_CacheLumpNum(u, tag) \/ W_ReleaseLumpNum(u)
      PROVE  Searched'
  <2>1. ASSUME NEW t \in Tags, Z_ChangeTag(u, t) PROVE Searched'
    BY <2>1, SearchIsOver DEF Z_ChangeTag
  <2>2. ASSUME NEW size \in Sizes, Z_Malloc(size, tag, u) PROVE Searched'
    BY <2>2, SearchBegins DEF Searched
  <2> QED BY <1>2, <2>1, <2>2 DEF W_CacheLumpNum, W_ReleaseLumpNum, Tags
<1>3. ASSUME NEW b \in Blocks, Z_Free(b) PROVE Searched'
  BY <1>3, SearchIsOver DEF Z_Free
<1>4. CASE Z_FreeTags \/ ScanFails \/ TagsFreed
  <2>1. UNCHANGED mem /\ pc' # "scan"
    BY <1>4 DEF Z_FreeTags, ScanFails, TagsFreed, Returns
  <2> QED BY <2>1, SearchIsOver
<1>5. CASE FreeTagged
  <2>1. \/ UNCHANGED mem
        \/ scan \in Blocks /\ mem[scan].tag # PU_FREE /\ Free(scan)
    <3>1. scan \notin DOMAIN mem => left.tag = PU_FREE
      BY <1>5 DEF FreeTagged, IInv, WalkShape
    <3> QED BY <1>5, <3>1 DEF FreeTagged, Here, Blocks
  <2> QED BY <1>5, <2>1, SearchIsOver DEF FreeTagged
<1>6. CASE ScanKept \/ ScanFree
  BY <1>6, SearchPasses
<1>7. CASE ScanPurges
  BY <1>7, SearchPurges
<1>8. CASE Take
  BY <1>8, SearchEnds
<1>9. CASE UNCHANGED vars
  BY <1>9 DEF vars, callVars, Searched, ScanClean, Blocks
<1> QED BY <1>1, <1>2, <1>3, <1>4, <1>5, <1>6, <1>7, <1>8, <1>9 DEF Next, Turn, Tags

LEMMA SearchedAtFirst == Init => Searched
<1> SUFFICES ASSUME Init PROVE Searched
  OBVIOUS
<1>1. DOMAIN mem = {0, Head} /\ 0 # Head
  BY ZoneAssumption DEF Init, Head
<1>2. mem[0].size = ZoneSize
  BY <1>1 DEF Init
<1>3. Covered(mem)
  BY <1>1, <1>2, ZoneAssumption DEF Covered, Addr
<1> QED BY <1>3 DEF Init, Searched, ScanClean

\* Every byte of the zone is in a block, and what the scan of Z_Malloc has behind it can
\* neither be purged nor hold what is asked for.
THEOREM SearchIsThorough == Spec => []Searched
  BY InitHolds, StepHolds, SearchedAtFirst, SearchedStep, PTL DEF Spec
-----------------------------------------------------------------------------
(* The calls end: with every turn of a loop less is left of the list.      *)

\* A header that was merged away still says where the block after it is.
StaleAhead == pc = "tags" /\ scan \notin DOMAIN mem => scan < left.next

LEMMA StaleAheadAtFirst == Init => StaleAhead
  BY DEF Init, StaleAhead

\* The blocks lie in the order of their addresses.
LEMMA NextIsAhead ==
    ASSUME NEW m, Linked(m), Tiled(m), NEW b \in DOMAIN m \ {Head}
    PROVE  b < m[b].next
<1>1. b \in Nat /\ m[b].size \in Nat /\ m[b].size > 0 /\ b + m[b].size = m[b].next
  BY Numbers DEF Tiled
<1> QED BY <1>1

LEMMA StaleAheadStep == IInv /\ StaleAhead /\ [Next]_vars => StaleAhead'
<1> SUFFICES ASSUME IInv, StaleAhead, [Next]_vars PROVE StaleAhead'
  OBVIOUS
<1>1. Linked(mem) /\ Tiled(mem)
  BY DEF IInv, Heap
<1>2. ASSUME UNCHANGED vars PROVE StaleAhead'
  BY <1>2 DEF vars, callVars, StaleAhead
<1>3. ASSUME pc' # "tags" PROVE StaleAhead'
  BY <1>3 DEF StaleAhead
<1>4. CASE Z_FreeTags
  <2>1. mem' = mem /\ scan' \in DOMAIN mem
    BY <1>1, <1>4 DEF Z_FreeTags, FirstBlock, Linked
  <2> QED BY <2>1 DEF StaleAhead
<1>5. CASE FreeTagged
  <2>1. WalkShape /\ scan # Head /\ scan' = Here.next /\ left' = mem[Here.next]
    BY <1>5 DEF FreeTagged, IInv
  <2>2. Here.next \in DOMAIN mem
    <3>1. CASE scan \in DOMAIN mem
      BY <1>1, <3>1 DEF Here, Linked
    <3>2. CASE scan \notin DOMAIN mem
      <4>1. PICK c \in Blocks : left.next = mem[c].next
        BY <2>1, <3>2 DEF WalkShape, StaleHere
      <4> QED BY <1>1, <3>2, <4>1 DEF Here, Linked, Blocks
    <3> QED BY <3>1, <3>2
  <2>3. CASE scan' \in DOMAIN mem'
    BY <2>3 DEF StaleAhead
  <2>4. CASE scan' \notin DOMAIN mem'
    <3>1. Head \in DOMAIN mem'
      BY StepHolds DEF IInv, Heap, Linked
    <3>2. scan' # Head
      BY <2>4, <3>1 DEF Head
    <3> QED BY <1>1, <2>1, <2>2, <3>2, NextIsAhead DEF StaleAhead
  <2> QED BY <2>3, <2>4
<1>6. ASSUME pc # "tags", pc' = pc PROVE StaleAhead'
  BY <1>6 DEF StaleAhead
<1>7. ASSUME NEW b \in Blocks, Z_Free(b) PROVE StaleAhead'
  BY <1>6, <1>7 DEF Z_Free
<1>8. ASSUME NEW u \in Users, NEW tag \in Tags, Z_ChangeTag(u, tag) PROVE StaleAhead'
  BY <1>6, <1>8 DEF Z_ChangeTag
<1>9. ASSUME NEW size, NEW tag, NEW user, Z_Malloc(size, tag, user) PROVE StaleAhead'
  BY <1>3, <1>9 DEF Z_Malloc
<1>10. CASE ScanFails \/ TagsFreed \/ Take
  BY <1>3, <1>10 DEF ScanFails, TagsFreed, Take, Returns
<1>11. CASE ScanKept \/ ScanPurges \/ ScanFree
  BY <1>3, <1>11 DEF ScanKept, ScanPurges, ScanFree, Until
<1> QED
  BY <1>2, <1>4, <1>5, <1>7, <1>8, <1>9, <1>10, <1>11
     DEF Next, Turn, W_CacheLumpNum, W_ReleaseLumpNum, Tags

\* The way from t on to s, along the links.
Way(t, s) == IF t <= s THEN s - t ELSE s - t + Head + 1

LEMMA WayShrinks ==
    ASSUME NEW m, Linked(m), Tiled(m), NEW s \in DOMAIN m, NEW t \in DOMAIN m, s # t
    PROVE  Way(m[t].next, s) \in Nat /\ Way(t, s) \in Nat /\ Way(m[t].next, s) < Way(t, s)
<1>1. /\ s \in Nat /\ s <= Head /\ t \in Nat /\ t <= Head /\ Head \in Nat
      /\ m[t].next \in Nat /\ m[t].next \in DOMAIN m
  BY Numbers DEF Linked
<1>2. m[t].next <= Head
  BY <1>1, Numbers
<1>3. CASE t = Head
  <2>1. m[t].next = 0
    BY <1>3 DEF Tiled
  <2> QED BY <1>1, <1>3, <2>1 DEF Way
<1>4. CASE t # Head
  <2>1. m[t].size \in Nat /\ m[t].size > 0 /\ t + m[t].size = m[t].next
    BY <1>4, Numbers DEF Tiled
  <2>2. t < s => m[t].next <= s
    <3>1. CASE s = Head
      BY <1>2, <3>1
    <3>2. CASE s # Head
      BY <1>4, <2>1, <3>2 DEF Tiled
    <3> QED BY <3>1, <3>2
  <2> QED BY <1>1, <1>2, <2>1, <2>2 DEF Way
<1> QED BY <1>3, <1>4

LEMMA ScanAdvances ==
    ASSUME IInv, ScanKept \/ ScanFree \/ ScanPurges
    PROVE  Way(scan', start) \in 0..Way(scan, start) - 1
<1>1. /\ Heap(mem) /\ Linked(mem) /\ Tiled(mem) /\ ScanShape /\ scan # start
  BY DEF IInv, Heap, ScanKept, ScanFree, ScanPurges, Scanning
<1>2. /\ start \in DOMAIN mem /\ scan \in DOMAIN mem /\ mem[start].tag # PU_FREE
      /\ mem[scan].next \in DOMAIN mem
  BY <1>1 DEF ScanShape, Linked
<1>3. LET after == mem[scan].next IN
      /\ Way(after, start) \in Nat /\ Way(scan, start) \in Nat
      /\ Way(after, start) < Way(scan, start)
  BY <1>1, <1>2, WayShrinks
<1>4. CASE scan' = mem[scan].next
  BY <1>3, <1>4
<1>5. CASE mem[mem[scan].next].tag = PU_FREE /\ scan' = mem[mem[scan].next].next
  <2>1. LET after == mem[scan].next IN
        /\ Way(mem[after].next, start) \in Nat
        /\ Way(mem[after].next, start) < Way(after, start)
    BY <1>1, <1>2, <1>5, WayShrinks
  <2> QED BY <1>3, <1>5, <2>1
<1>6. CASE ScanKept \/ ScanFree
  BY <1>4, <1>6 DEF ScanKept, ScanFree
<1>7. CASE ScanPurges
  <2>1. FreedHeap(scan, Into(scan), mem') /\ scan' = mem'[Into(scan)].next
    BY <1>7, PurgeMoves
  <2> QED BY <1>4, <1>5, <2>1 DEF FreedHeap
<1> QED BY <1>6, <1>7

LEMMA WalkAdvances ==
    ASSUME IInv, StaleAhead, FreeTagged
    PROVE  Head - scan' \in 0..Head - scan - 1
<1>1. /\ Linked(mem) /\ Tiled(mem) /\ WalkShape /\ scan \in Nat /\ scan # Head
      /\ scan' = Here.next /\ pc = "tags"
  BY DEF IInv, Heap, FreeTagged, WalkShape
<1>2. CASE scan \in DOMAIN mem
  <2>1. scan' \in DOMAIN mem /\ scan < scan'
    BY <1>1, <1>2, NextIsAhead DEF Here, Linked
  <2> QED BY <1>1, <2>1, Numbers
<1>3. CASE scan \notin DOMAIN mem
  <2>1. PICK c \in Blocks : left.next = mem[c].next
    BY <1>1, <1>3 DEF WalkShape, StaleHere
  <2>2. scan' \in DOMAIN mem /\ scan < scan'
    BY <1>1, <1>3, <2>1 DEF Here, Linked, Blocks, StaleAhead
  <2> QED BY <1>1, <2>2, Numbers
<1> QED BY <1>2, <1>3

\* No call hangs, whatever the zone, the blocks and the requests are: each turn of the
\* loops of Z_Malloc and Z_FreeTags brings scan nearer to the end of its way.
THEOREM CallsAreFinite == Spec => EveryTurnAdvances
<1>1. ASSUME IInv, StaleAhead, [Next]_vars
      PROVE  [pc' = pc /\ pc \in {"scan", "tags"} => ToGo' \in 0..ToGo - 1]_vars
  <2> SUFFICES ASSUME Next, pc' = pc, pc \in {"scan", "tags"}
               PROVE  ToGo' \in 0..ToGo - 1
    BY <1>1
  <2>1. \/ pc = "scan" /\ (ScanKept \/ ScanFree \/ ScanPurges)
        \/ pc = "tags" /\ FreeTagged
    <3>1. ~(\E u \in Users, tag \in Tags : W_CacheLumpNum(u, tag) \/ W_ReleaseLumpNum(u))
      BY DEF W_CacheLumpNum, W_ReleaseLumpNum, Z_ChangeTag, Z_Malloc
    <3>2. ~(ScanFails \/ Take \/ TagsFreed)
      BY DEF ScanFails, Take, TagsFreed, Returns
    <3>3. \A size, tag : ~Z_Malloc(size, tag, None)
      BY DEF Z_Malloc
    <3>4. ~Z_FreeTags /\ \A b \in Blocks : ~Z_Free(b)
      BY DEF Z_FreeTags, Z_Free
    <3>5. ScanKept \/ ScanPurges \/ ScanFree \/ FreeTagged
      BY <3>1, <3>2, <3>3, <3>4 DEF Next, Turn, Tags
    <3> QED BY <3>5 DEF ScanKept, ScanPurges, ScanFree, FreeTagged, Scanning
  <2>2. CASE pc = "scan" /\ (ScanKept \/ ScanFree \/ ScanPurges)
    <3>1. ToGo = Way(scan, start) /\ ToGo' = Way(scan', start)
      BY <2>2 DEF ToGo, Way, Head, ScanKept, ScanFree, ScanPurges
    <3> QED BY <1>1, <2>2, <3>1, ScanAdvances
  <2>3. CASE pc = "tags" /\ FreeTagged
    <3>1. ToGo = Head - scan /\ ToGo' = Head - scan'
      BY <2>3 DEF ToGo, Head
    <3> QED BY <1>1, <2>3, <3>1, WalkAdvances
  <2> QED BY <2>1, <2>2, <2>3
<1> QED
  BY <1>1, InitHolds, StepHolds, StaleAheadAtFirst, StaleAheadStep, PTL DEF Spec, EveryTurnAdvances
-----------------------------------------------------------------------------
(* Zone implements ZoneContract.                                           *)

\* What is allocated in the heap m, as ZoneContract sees it.
AllocatedIn(m) ==
    [b \in {c \in DOMAIN m \ {Head} : m[c].tag # PU_FREE} |->
        [size |-> m[b].size, tag |-> m[b].tag, user |-> m[b].user]]
Allocated == AllocatedIn(mem)

LEMMA AllocatedIs ==
    /\ Allocated = [b \in Held |-> [size |-> mem[b].size, tag |-> mem[b].tag,
                                    user |-> mem[b].user]]
    /\ DOMAIN Allocated = Held
    /\ \A b \in Held : /\ Allocated[b].size = mem[b].size /\ Allocated[b].tag = mem[b].tag
                       /\ Allocated[b].user = mem[b].user
  BY DEF Allocated, AllocatedIn, Held, Blocks

\* The tag of a block is one of Tags or free.
LEMMA TagIsOne ==
    ASSUME Heap(mem), NEW b \in DOMAIN mem
    PROVE  mem[b].tag \in {PU_STATIC, PU_LEVEL, PU_CACHE, PU_FREE}
  BY DEF Heap, Linked, Header, Tags

LEMMA FreeDrops ==
    ASSUME IInv, NEW b \in Blocks, mem[b].tag # PU_FREE, Free(b)
    PROVE  b \in Held /\ Contract!Drop(b)
<1> DEFINE i == Into(b)
           n == mem'
           A == Allocated
<1>1. FreedHeap(b, i, n) /\ Tiled(mem) /\ Linked(mem) /\ b \in DOMAIN mem
  BY FreeKeeps DEF IInv, Heap, Blocks
<1> HIDE DEF i, n
<1>2. /\ Tiled(n) /\ Linked(n) /\ DOMAIN n \subseteq DOMAIN mem
      /\ i = b \/ (mem[i].tag = PU_FREE /\ b \notin DOMAIN n)
      /\ \A a \in DOMAIN n \ {i} : /\ n[a].tag = mem[a].tag /\ n[a].user = mem[a].user
                                   /\ n[a].next = mem[a].next
      /\ \A a \in DOMAIN mem \ {b} : mem[a].tag # PU_FREE => a \in DOMAIN n
  BY <1>1 DEF FreedHeap, Heap
<1>3. n[i].tag = PU_FREE
  BY <1>1 DEF FreedHeap
<1>4. b \in Held
  BY DEF Held
<1>5. {c \in DOMAIN n \ {Head} : n[c].tag # PU_FREE} = Held \ {b}
  BY <1>2, <1>3 DEF Held, Blocks
<1>6. ASSUME NEW c \in Held \ {b}
      PROVE  n[c].size = mem[c].size /\ n[c].tag = mem[c].tag /\ n[c].user = mem[c].user
  <2>1. c \in DOMAIN n \ {Head} /\ c # i /\ c \in DOMAIN mem \ {Head}
    BY <1>2, <1>3, <1>5 DEF Held, Blocks
  <2>2. c + n[c].size = n[c].next /\ c + mem[c].size = mem[c].next /\ n[c].next = mem[c].next
    BY <1>1, <1>2, <2>1 DEF Tiled
  <2>3. c \in Nat /\ n[c].size \in Nat /\ mem[c].size \in Nat
    BY <1>1, <1>2, <2>1, Numbers
  <2> QED BY <1>2, <2>1, <2>2, <2>3
<1>7. AllocatedIn(n) = [c \in Held \ {b} |-> A[c]]
  BY <1>5, <1>6 DEF AllocatedIn, Allocated, Held, Blocks
<1>8. Allocated' = [c \in DOMAIN A \ {b} |-> A[c]]
  BY <1>7, AllocatedIs DEF Allocated, n, AllocatedIn
<1>9. owner' = [u \in Users |-> IF u = A[b].user THEN Null ELSE owner[u]]
  <2>1. A[b].user = mem[b].user /\ mem[b].user \in Users \cup {None}
    BY <1>1, <1>4, AllocatedIs DEF Linked, Header
  <2>2. owner \in [Users -> Addr \cup {Null}]
    BY DEF IInv, Owned
  <2> QED BY <2>1, <2>2, ZoneAssumption DEF Free, ClearMark
<1> HIDE DEF A
<1> QED BY <1>4, <1>8, <1>9 DEF Contract!Drop, A, Allocated, AllocatedIn, Held, Blocks

\* The new block lies where nothing is allocated.
LEMMA TakeIsVacant ==
    ASSUME IInv, pc = "take", NEW size \in Nat, size <= mem[base].size
    PROVE  base \in Addr /\ Contract!Vacant(base, size)
<1>1. /\ Linked(mem) /\ Tiled(mem) /\ base \in DOMAIN mem /\ mem[base].tag = PU_FREE
  BY DEF IInv, Heap, TakeShape
<1>2. base \in Blocks /\ mem[base].next \in DOMAIN mem
  <2>1. mem[Head].tag = PU_STATIC /\ mem[base].next \in DOMAIN mem
    BY <1>1 DEF Linked
  <2>2. base # Head
    BY <1>1, <2>1 DEF PU_FREE, PU_STATIC
  <2> QED BY <1>1, <2>1, <2>2 DEF Blocks
<1>3. /\ base \in Nat /\ mem[base].size \in Nat /\ base + mem[base].size = mem[base].next
      /\ mem[base].next <= Head /\ Head \in Nat
  BY <1>1, <1>2, Numbers DEF Tiled, Blocks
<1>4. base..base + size - 1 \subseteq 0..ZoneSize - 1
  BY <1>3 DEF Head
<1>5. ASSUME NEW c \in Held
      PROVE  (c..c + mem[c].size - 1) \cap (base..base + size - 1) = {}
  <2>1. c \in DOMAIN mem \ {Head} /\ c # base
    BY <1>1, <1>5 DEF Held, Blocks
  <2>2. c \in Nat /\ mem[c].size \in Nat
    BY <1>1, <2>1, Numbers
  <2>3. c < base => c + mem[c].size <= base
    BY <1>1, <1>2, <2>1 DEF Tiled, Blocks
  <2>4. base < c => base + mem[base].size <= c
    BY <1>1, <1>2, <2>1 DEF Tiled, Blocks
  <2> QED BY <1>3, <2>1, <2>2, <2>3, <2>4
<1>6. base \in Addr
  BY <1>1, <1>2 DEF Linked, Blocks
<1> QED BY <1>4, <1>5, <1>6, AllocatedIs DEF Contract!Vacant, Contract!Extent, Contract!Addr

LEMMA TakeGives ==
    ASSUME IInv, Take
    PROVE  Contract!Next
<1> DEFINE n == Cut
           m == mem'
           size == n[base].size
           A == Allocated
           B == [c \in DOMAIN A \cup {base} |->
                   IF c = base THEN [req EXCEPT !.size = size] ELSE A[c]]
<1>1. CutBlock(n) /\ CutSized(n) /\ pc = "take" /\ Owned /\ Requested
  BY CutShape, CutSizes DEF Take, IInv
<1>2. m = Labelled(n, base, req.tag, req.user)
  BY DEF Take
<1> HIDE DEF n, m
<1>3. Labelling(n, base, req.tag, req.user, m) /\ req \in Request
  BY <1>1, <1>2 DEF Requested, Request, Labelling, CutBlock
<1>4. Label(n, base, req.tag, req.user, m)
  BY <1>3, LabelShape
<1>5. /\ base \in DOMAIN n \ {Head} /\ DOMAIN mem \subseteq DOMAIN n
      /\ \A a \in DOMAIN n \ {base} :
           /\ a \in DOMAIN mem => n[a].tag = mem[a].tag /\ n[a].user = mem[a].user
           /\ a \notin DOMAIN mem => n[a].tag = PU_FREE
      /\ \A a \in DOMAIN mem \ {base} : n[a].size = mem[a].size
  BY <1>1 DEF CutBlock, CutSized
<1>6. /\ size \in req.size..req.size + MinFragment /\ size <= mem[base].size
      /\ req.size \in Nat /\ size \in Nat
  <2>1. req.size \in Nat /\ MinFragment \in Nat
    BY <1>3, ZoneAssumption DEF Request
  <2> QED BY <1>1, <2>1 DEF CutSized
<1>7. /\ DOMAIN m = DOMAIN n /\ m[base].tag = req.tag /\ m[base].user = req.user
      /\ m[base].size = size /\ req.tag # PU_FREE
      /\ \A a \in DOMAIN n \ {base} :
           m[a].size = n[a].size /\ m[a].tag = n[a].tag /\ m[a].user = n[a].user
  BY <1>3, <1>4, <1>5
     DEF Label, Request, Tags, PU_STATIC, PU_LEVEL, PU_CACHE, PU_FREE
<1> HIDE DEF size
<1>8. mem[base].tag = PU_FREE /\ base \notin Held
  BY <1>1 DEF IInv, TakeShape, Held
<1>9. {c \in DOMAIN m \ {Head} : m[c].tag # PU_FREE} = Held \cup {base}
  BY <1>5, <1>7, <1>8 DEF Held, Blocks
<1>10. [req EXCEPT !.size = size] = [size |-> size, tag |-> req.tag, user |-> req.user]
  BY <1>3 DEF Request
<1>11. ASSUME NEW c \in Held \cup {base}
       PROVE  [size |-> m[c].size, tag |-> m[c].tag, user |-> m[c].user]
                = IF c = base THEN [req EXCEPT !.size = size] ELSE A[c]
  <2>1. CASE c = base
    BY <1>7, <1>10, <2>1
  <2>2. CASE c # base
    <3>1. c \in Held /\ c \in DOMAIN mem \ {base} /\ c \in DOMAIN n \ {base}
      BY <1>5, <2>2 DEF Held, Blocks
    <3>2. m[c].size = mem[c].size /\ m[c].tag = mem[c].tag /\ m[c].user = mem[c].user
      BY <1>5, <1>7, <3>1
    <3> QED BY <2>2, <3>1, <3>2 DEF Allocated, AllocatedIn, Held, Blocks
  <2> QED BY <2>1, <2>2
<1>12. DOMAIN A = Held
  BY AllocatedIs
<1> HIDE DEF A
<1>13. AllocatedIn(m) = B
  BY <1>9, <1>11, <1>12 DEF AllocatedIn
<1>14. Allocated' = B
  BY <1>13 DEF Allocated, m, AllocatedIn
<1>15. owner' = [u \in Users |-> IF u = req.user THEN base ELSE owner[u]]
  <2>1. owner \in [Users -> Addr \cup {Null}] /\ req.user \in Users \cup {None}
    BY <1>1, <1>3 DEF Owned, Request
  <2> QED BY <2>1, ZoneAssumption DEF Take
<1>16. base \in Addr /\ Contract!Vacant(base, size)
  BY <1>1, <1>6, TakeIsVacant
<1>17. pc = "take" /\ pc' = "idle" /\ req' = Idle
  BY DEF Take, Returns
<1> HIDE DEF B
<1>18. PICK b \in Addr, s \in req.size..req.size + MinFragment : b = base /\ s = size
  BY <1>6, <1>16
<1>19. Contract!Give(b, s)
  BY <1>14, <1>15, <1>16, <1>17, <1>18
     DEF Contract!Give, Contract!Nobody, Idle, A, B, Allocated, AllocatedIn, Held, Blocks
<1> QED BY <1>18, <1>19 DEF Contract!Next, Contract!Addr, Addr

\* When the scan gives up there is no room: bytes side by side that are not allocated lie
\* in one free block, which the scan has found to be too small.
LEMMA ScanRunsOut ==
    ASSUME IInv, Searched, ScanFails
    PROVE  Contract!Next
<1>1. /\ Heap(mem) /\ Linked(mem) /\ Tiled(mem) /\ NoFreeNeighbours(mem) /\ ScanShape
      /\ Requested /\ pc = "scan" /\ pc' = "error" /\ scan = start
      /\ UNCHANGED <<mem, owner, req>>
  BY DEF IInv, Heap, ScanFails, callVars
<1>2. req.size \in Nat /\ req.size > 0
  BY <1>1 DEF Requested, Request
<1>3. ASSUME NEW b \in Blocks, b # start
      PROVE  mem[b].tag < PU_PURGELEVEL /\ (mem[b].tag = PU_FREE => mem[b].size < req.size)
  <2>1. b \in Nat /\ start \in Nat
    BY <1>1, Numbers DEF ScanShape, Blocks
  <2>2. Between(start, scan, b)
    BY <1>1, <1>3, <2>1 DEF Between
  <2> QED BY <1>1, <2>2 DEF Searched, ScanClean
<1>4. ASSUME NEW a \in Addr, Contract!Vacant(a, req.size)
      PROVE  FALSE
  <2> DEFINE span == a..a + req.size - 1
  <2>1. /\ span \subseteq 0..ZoneSize - 1
        /\ \A c \in Held : (c..c + mem[c].size - 1) \cap span = {}
    BY <1>4, AllocatedIs DEF Contract!Vacant, Contract!Extent, Contract!Addr
  <2>2. a \in Nat
    BY ZoneAssumption DEF Addr
  <2>3. PICK b \in DOMAIN mem \ {Head} : b <= a /\ a < b + mem[b].size
    BY DEF Searched, Covered
  <2>4. b \in Nat /\ mem[b].size \in Nat /\ b + mem[b].size = mem[b].next
        /\ mem[b].next \in DOMAIN mem /\ mem[b].next \in Nat
    BY <1>1, <2>3, Numbers DEF Tiled, Linked
  <2>5. mem[b].tag = PU_FREE
    <3>1. a \in span /\ a \in b..b + mem[b].size - 1
      BY <1>2, <2>2, <2>3, <2>4
    <3> HIDE DEF span
    <3> QED BY <2>1, <2>3, <3>1 DEF Held, Blocks
  <2>6. mem[b].size < req.size
    BY <1>1, <1>3, <2>3, <2>5 DEF ScanShape, Blocks
  <2>7. mem[b].next \in span
    BY <1>2, <2>2, <2>3, <2>4, <2>6
  <2>8. mem[b].next # Head
    BY <2>1, <2>7, ZoneAssumption DEF Head
  <2>9. mem[mem[b].next].tag # PU_FREE /\ mem[mem[b].next].size > 0
        /\ mem[mem[b].next].size \in Nat
    BY <1>1, <2>3, <2>4, <2>5, <2>8, Numbers DEF NoFreeNeighbours, Tiled
  <2>10. mem[b].next \in Held
    BY <2>4, <2>8, <2>9 DEF Held, Blocks
  <2>11. mem[b].next \in mem[b].next..mem[b].next + mem[mem[b].next].size - 1
    BY <2>4, <2>9
  <2> HIDE DEF span
  <2> QED BY <2>1, <2>7, <2>10, <2>11
<1>5. ASSUME NEW b \in Held, mem[b].tag = PU_CACHE PROVE b = start
  BY <1>3, <1>5 DEF Held, PU_CACHE, PU_PURGELEVEL
<1>6. Contract!RunOut
  <2>1. \A b \in Contract!Addr : ~Contract!Vacant(b, req.size)
    BY <1>4 DEF Contract!Addr, Addr
  <2>2. \A b, c \in DOMAIN Allocated :
          Allocated[b].tag = PU_CACHE /\ Allocated[c].tag = PU_CACHE => b = c
    BY <1>5, AllocatedIs
  <2>3. UNCHANGED Allocated
    BY <1>1 DEF Allocated, AllocatedIn
  <2> QED BY <1>1, <2>1, <2>2, <2>3
        DEF Contract!RunOut, Allocated, AllocatedIn, Held, Blocks
<1> QED BY <1>6 DEF Contract!Next

LEMMA MallocAsks ==
    ASSUME NEW size \in Sizes, NEW tag \in Tags, NEW user \in Users \cup {None},
           Z_Malloc(size, tag, user)
    PROVE  Contract!Next
<1>1. Contract!Ask(size, tag, user)
  BY DEF Z_Malloc, Contract!Ask, Blocks, Held, PU_CACHE, PU_PURGELEVEL
<1> QED BY <1>1 DEF Contract!Next, Contract!Tags, Tags

LEMMA TagIsChanged ==
    ASSUME IInv, NEW u \in Users, NEW tag \in Tags, Z_ChangeTag(u, tag)
    PROVE  Contract!Next
<1> DEFINE b == owner[u]
           n == mem'
           A == Allocated
           B == [A EXCEPT ![b].tag = tag]
<1>1. b \in Blocks /\ mem[b].tag # PU_FREE /\ mem[b].user = u /\ b # Null /\ pc = "idle"
      /\ UNCHANGED <<owner, pc, req>> /\ n = Labelled(mem, b, tag, u)
  BY DEF IInv, Z_ChangeTag, Owned, callVars
<1> HIDE DEF n
<1>2. Label(mem, b, tag, u, n)
  <2>1. Labelling(mem, b, tag, u, n)
    BY <1>1 DEF Labelling, IInv, Heap, Blocks
  <2> QED BY <2>1, LabelShape
<1>3. tag # PU_FREE
  BY DEF Tags, PU_STATIC, PU_LEVEL, PU_CACHE, PU_FREE
<1>4. {c \in DOMAIN n \ {Head} : n[c].tag # PU_FREE} = Held
  BY <1>1, <1>2, <1>3 DEF Label, Held, Blocks
<1>5. ASSUME NEW c \in Held
      PROVE  [size |-> n[c].size, tag |-> n[c].tag, user |-> n[c].user] = B[c]
  <2>1. A[c] = [size |-> mem[c].size, tag |-> mem[c].tag, user |-> mem[c].user] /\ c \in DOMAIN mem
    BY AllocatedIs DEF Held, Blocks
  <2>2. B[c] = IF c = b THEN [A[c] EXCEPT !.tag = tag] ELSE A[c]
    BY AllocatedIs
  <2>3. n[c].size = mem[c].size /\ n[c].user = mem[c].user
        /\ n[c].tag = IF c = b THEN tag ELSE mem[c].tag
    BY <1>1, <1>2, <2>1 DEF Label
  <2> QED BY <2>1, <2>2, <2>3
<1>6. AllocatedIn(n) = [c \in Held |-> B[c]]
  BY <1>4, <1>5 DEF AllocatedIn
<1>7. B = [c \in Held |-> B[c]]
  BY AllocatedIs
<1> HIDE DEF B
<1>8. Allocated' = B
  BY <1>6, <1>7 DEF Allocated, n, AllocatedIn
<1>9. Contract!ChangeTag(u, tag)
  BY <1>1, <1>8 DEF Contract!ChangeTag, B, Allocated, AllocatedIn, Held, Blocks
<1> QED BY <1>9 DEF Contract!Next, Contract!Tags, Tags

LEMMA ContractStutters ==
    ASSUME UNCHANGED <<mem, owner, req>>,
           pc' = pc \/ (pc \in {"scan", "take"} /\ pc' \in {"scan", "take"})
    PROVE  UNCHANGED Contract!contractVars
  BY DEF Contract!contractVars, Held, Blocks

LEMMA ContractStep ==
    ASSUME IInv, Searched, [Next]_vars
    PROVE  [Contract!Next]_Contract!contractVars
<1>1. ASSUME NEW size \in Sizes, NEW tag \in {PU_STATIC, PU_LEVEL}, Z_Malloc(size, tag, None)
      PROVE  Contract!Next
  BY <1>1, MallocAsks DEF Tags
<1>2. ASSUME NEW u \in Users, NEW tag \in Tags, W_CacheLumpNum(u, tag) \/ W_ReleaseLumpNum(u)
      PROVE  Contract!Next
  BY <1>2, TagIsChanged, MallocAsks DEF W_CacheLumpNum, W_ReleaseLumpNum, Tags
<1>3. ASSUME NEW b \in Blocks, Z_Free(b) PROVE Contract!Next
  <2>1. b \in Held /\ Contract!Drop(b) /\ pc = "idle" /\ UNCHANGED <<pc, req>>
    BY <1>3, FreeDrops DEF Z_Free, callVars
  <2>2. Contract!Release(b)
    BY <2>1 DEF Contract!Release
  <2> QED BY <2>1, <2>2 DEF Contract!Next
<1>4. CASE Z_FreeTags
  <2>1. Contract!LeaveLevel
    BY <1>4 DEF Z_FreeTags, Contract!LeaveLevel, Held, Blocks
  <2> QED BY <2>1 DEF Contract!Next
<1>5. CASE ScanFails
  BY <1>5, ScanRunsOut
<1>6. CASE ScanKept \/ ScanFree
  <2>1. UNCHANGED <<mem, owner, req>> /\ pc = "scan" /\ pc' \in {"scan", "take"}
    BY <1>6 DEF ScanKept, ScanFree, Scanning, Until
  <2> QED BY <2>1, ContractStutters
<1>7. CASE ScanPurges
  <2>1. PICK b \in Blocks : b = scan /\ mem[b].tag # PU_FREE /\ Free(b)
    BY <1>7, PurgeMoves
  <2>2. b \in Held /\ Contract!Drop(b)
    BY <2>1, FreeDrops
  <2>3. mem[b].tag = PU_CACHE
    BY <1>7, <2>1, TagIsOne
       DEF ScanPurges, IInv, Blocks, PU_STATIC, PU_LEVEL, PU_CACHE, PU_FREE, PU_PURGELEVEL
  <2>4. pc = "scan" /\ pc' \in {"scan", "take"} /\ UNCHANGED req
    BY <1>7 DEF ScanPurges, Scanning, Until
  <2>5. Contract!Purge(b)
    BY <2>2, <2>3, <2>4 DEF Contract!Purge
  <2> QED BY <2>2, <2>5 DEF Contract!Next
<1>8. CASE Take
  BY <1>8, TakeGives
<1>9. CASE FreeTagged
  <2>1. pc = "tags" /\ pc' = pc /\ UNCHANGED req /\ (scan \notin DOMAIN mem => left.tag = PU_FREE)
        /\ scan # Head
    BY <1>9 DEF FreeTagged, IInv, WalkShape
  <2>2. \/ UNCHANGED <<mem, owner>>
        \/ /\ scan \in Blocks /\ mem[scan].tag # PU_FREE /\ Free(scan)
           /\ mem[scan].tag >= PU_LEVEL /\ mem[scan].tag <= PU_PURGELEVEL - 1
    BY <1>9, <2>1 DEF FreeTagged, Here, Blocks
  <2>3. CASE UNCHANGED <<mem, owner>>
    BY <2>1, <2>3, ContractStutters
  <2>4. CASE /\ scan \in Blocks /\ mem[scan].tag # PU_FREE /\ Free(scan)
             /\ mem[scan].tag >= PU_LEVEL /\ mem[scan].tag <= PU_PURGELEVEL - 1
    <3>1. PICK b \in Blocks : b = scan /\ mem[b].tag # PU_FREE /\ Free(b)
      BY <2>4
    <3>2. b \in Held /\ Contract!Drop(b)
      BY <3>1, FreeDrops
    <3>3. mem[b].tag = PU_LEVEL
      BY <2>4, <3>1, TagIsOne
         DEF IInv, Blocks, PU_STATIC, PU_LEVEL, PU_CACHE, PU_FREE, PU_PURGELEVEL
    <3>4. Contract!ReleaseOfLevel(b)
      BY <2>1, <3>2, <3>3 DEF Contract!ReleaseOfLevel
    <3> QED BY <3>2, <3>4 DEF Contract!Next
  <2> QED BY <2>2, <2>3, <2>4
<1>10. CASE TagsFreed
  <2>1. UNCHANGED <<mem, owner>> /\ pc = "tags" /\ pc' = "idle" /\ req' = Idle
    BY <1>10 DEF TagsFreed, Returns
  <2>2. \A b \in Held : mem[b].tag # PU_LEVEL
    BY <1>10, <2>1, WalkEnds DEF Held, Blocks
  <2>3. Contract!LevelLeft
    BY <2>1, <2>2 DEF Contract!LevelLeft, Contract!Nobody, Idle, Held, Blocks
  <2> QED BY <2>3 DEF Contract!Next
<1>11. CASE UNCHANGED vars
  BY <1>11, ContractStutters DEF vars, callVars
<1> QED BY <1>1, <1>2, <1>3, <1>4, <1>5, <1>6, <1>7, <1>8, <1>9, <1>10, <1>11
        DEF Next, Turn, Tags

LEMMA ContractAtFirst == Init => Contract!Init
<1> SUFFICES ASSUME Init PROVE Contract!Init
  OBVIOUS
<1>1. Held = {}
  BY ZoneAssumption DEF Init, Held, Blocks, Head
<1> QED BY <1>1 DEF Init, Idle, Contract!Init, Contract!Nobody

\* The callers of the zone get what ZoneContract promises: blocks that lie apart, purges
\* only while something is allocated and with the pointer of the owner, and an error only
\* when no gap is large enough and at most one block is left that could be purged.
THEOREM ZoneImplementsContract == Spec => ImplementsContract
  BY InitHolds, StepHolds, SearchedAtFirst, SearchedStep, ContractAtFirst, ContractStep, PTL
     DEF Spec, Contract!Spec, ImplementsContract
=============================================================================
