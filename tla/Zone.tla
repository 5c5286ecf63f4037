-------------------------------- MODULE Zone --------------------------------
(***************************************************************************)
(* The zone allocator: z_zone.c, with its callers in w_wad.c, r_data.c and *)
(* p_setup.c.  One block of memory is cut into blocks that form a ring     *)
(* with the zone's own header, blocklist.  A block whose tag is            *)
(* PU_PURGELEVEL or more may be thrown out by any later allocation; the    *)
(* variable that its owner keeps is then cleared.                          *)
(*                                                                         *)
(* The program has one thread and every call runs to its end.  The loops   *)
(* of Z_Malloc and Z_FreeTags are taken one turn at a time, since blocks   *)
(* merge under them; pc says which call is under way.                      *)
(***************************************************************************)
EXTENDS Integers

CONSTANTS
    ZoneSize,     \* mainzone->size without the zone's header
    MinFragment,  \* MINFRAGMENT
    Sizes,        \* sizes that are asked for, block header and alignment included
    Users,        \* variables that own a block: lump->cache, texturecomposite[i]
    None          \* no user

ASSUME ZoneAssumption ==
    /\ ZoneSize \in Nat \ {0} /\ MinFragment \in Nat
    /\ Sizes \subseteq Nat \ {0}
    /\ None \notin Users

\* Of PU_STATIC, PU_SOUND and PU_MUSIC one is enough, and so of PU_LEVEL and PU_LEVSPEC.
PU_STATIC == 1
PU_FREE == 4
PU_LEVEL == 5
PU_PURGELEVEL == 7
PU_CACHE == 8
Tags == {PU_STATIC, PU_LEVEL, PU_CACHE}

\* A block is named by its offset in the zone.  blocklist, the cap of the list, is
\* named by the offset behind the last block.
Addr == 0..(ZoneSize - 1)
Head == ZoneSize
Null == -1

VARIABLES
    mem,    \* the headers in the list, by offset
    rover,  \* mainzone->rover
    owner,  \* what each user variable points to
    pc,     \* "idle", "scan" and "take" in Z_Malloc, "tags" in Z_FreeTags, "error"
    req,    \* the arguments of Z_Malloc
    base,   \* its locals; scan is its rover, and the block of Z_FreeTags
    scan,
    start,
    left    \* what memory holds where the next block of Z_FreeTags is, or was

callVars == <<req, base, scan, start, left>>
vars == <<mem, rover, owner, pc, callVars>>

Blocks == DOMAIN mem \ {Head}
Idle == [size |-> 0, tag |-> PU_STATIC, user |-> None]
Nothing == [size |-> 0, tag |-> PU_STATIC, user |-> None, next |-> Head, prev |-> Head]

\* Z_Init.
Init ==
    /\ mem = [a \in {0, Head} |->
                [size |-> IF a = Head THEN 0 ELSE ZoneSize,
                 tag |-> IF a = Head THEN PU_STATIC ELSE PU_FREE,
                 user |-> None,
                 next |-> IF a = Head THEN 0 ELSE Head,
                 prev |-> IF a = Head THEN 0 ELSE Head]]
    /\ rover = 0
    /\ owner = [u \in Users |-> Null]
    /\ pc = "idle"
    /\ req = Idle /\ base = Head /\ scan = Head /\ start = Head /\ left = Nothing

\* The call is over: its locals are gone.
Returns ==
    /\ pc' = "idle"
    /\ req' = Idle /\ base' = Head /\ scan' = Head /\ start' = Head /\ left' = Nothing

-----------------------------------------------------------------------------
(* Z_Free *)

\* The free block after b becomes part of b.  Its header is left as it is, outside the list.
Absorb(m, b) ==
    LET other == m[b].next IN
    [a \in DOMAIN m \ {other} |->
        IF a = b THEN [size |-> m[b].size + m[other].size, tag |-> m[b].tag,
                       user |-> m[b].user, next |-> m[other].next, prev |-> m[b].prev]
        ELSE IF a = m[other].next THEN [m[a] EXCEPT !.prev = b]
        ELSE m[a]]

\* The header of b with another tag and user.
Labelled(m, b, tag, user) ==
    [m EXCEPT ![b] = [size |-> m[b].size, tag |-> tag, user |-> user,
                      next |-> m[b].next, prev |-> m[b].prev]]

Marked(b) == Labelled(mem, b, PU_FREE, None)

\* The block that b is part of after Z_Free(b), which is the previous one if that is free.
Into(b) == IF mem[mem[b].prev].tag = PU_FREE THEN mem[b].prev ELSE b

MergedBefore(b) == IF Into(b) # b THEN Absorb(Marked(b), Into(b)) ELSE Marked(b)

Merged(b) ==
    LET m == MergedBefore(b) IN
    IF m[m[Into(b)].next].tag = PU_FREE THEN Absorb(m, Into(b)) ELSE m

\* Mutant: the mark of the user is not cleared.
ClearMarkNot(b) == UNCHANGED owner

\* *block->user = 0.
ClearMark(b) ==
    IF mem[b].user # None THEN owner' = [owner EXCEPT ![mem[b].user] = Null] ELSE UNCHANGED owner

\* Mutant: the rover is moved when its block merges with the previous one only.
MoveRoverBack(b) == rover' = IF rover = b THEN Into(b) ELSE rover

\* A block that the rover pointed to is now part of another one.
MoveRover(b) == rover' = IF rover \in DOMAIN Merged(b) THEN rover ELSE Into(b)

Free(b) ==
    /\ mem' = Merged(b)
    /\ ClearMark(b)
    /\ MoveRover(b)

\* A caller frees once what it allocated; W_Reload frees lumps, which have a user.
Z_Free(b) ==
    /\ pc = "idle" /\ mem[b].tag # PU_FREE
    /\ Free(b)
    /\ UNCHANGED <<pc, callVars>>

-----------------------------------------------------------------------------
(* Z_Malloc *)

\* Mutant: the scan starts at the rover even if the block before it is free.
StartScanHere == base' = rover /\ scan' = rover /\ start' = mem[rover].prev

StartScan ==
    LET before == mem[rover].prev
        first == IF mem[before].tag = PU_FREE THEN before ELSE rover
    IN  base' = first /\ scan' = first /\ start' = mem[first].prev

\* An owner is required for purgable blocks, and has no block yet.
Z_Malloc(size, tag, user) ==
    /\ pc = "idle"
    /\ user = None => tag < PU_PURGELEVEL
    /\ user # None => owner[user] = Null
    /\ pc' = "scan"
    /\ req' = [size |-> size, tag |-> tag, user |-> user]
    /\ StartScan
    /\ UNCHANGED <<mem, rover, owner, left>>

\* Scanned all the way around the list.
ScanFails ==
    /\ pc = "scan" /\ scan = start
    /\ pc' = "error"
    /\ UNCHANGED <<mem, rover, owner, callVars>>

Scanning == pc = "scan" /\ scan # start

\* The condition of the loop.
Until ==
    pc' = IF mem'[base'].tag = PU_FREE /\ mem'[base'].size >= req.size THEN "take" ELSE "scan"

ScanKept ==
    /\ Scanning /\ mem[scan].tag # PU_FREE /\ mem[scan].tag < PU_PURGELEVEL
    /\ base' = mem[scan].next /\ scan' = base'
    /\ UNCHANGED <<mem, rover, owner, req, start, left>>
    /\ Until

\* base steps back, the block is freed, base steps forward.
ScanPurges ==
    /\ Scanning /\ mem[scan].tag >= PU_PURGELEVEL
    /\ Free(scan)
    /\ base' = mem'[mem[base].prev].next
    /\ scan' = mem'[base'].next
    /\ UNCHANGED <<req, start, left>>
    /\ Until

ScanFree ==
    /\ Scanning /\ mem[scan].tag = PU_FREE
    /\ scan' = mem[scan].next
    /\ base' = base
    /\ UNCHANGED <<mem, rover, owner, req, start, left>>
    /\ Until

\* The free block base, cut if what is left over is more than a fragment.
Cut ==
    LET extra == mem[base].size - req.size
        newblock == base + req.size
        next == mem[base].next
    IN  IF extra > MinFragment
        THEN [a \in DOMAIN mem \cup {newblock} |->
                IF a = newblock
                THEN [size |-> extra, tag |-> PU_FREE, user |-> None,
                      next |-> next, prev |-> base]
                ELSE IF a = base
                THEN [size |-> req.size, tag |-> PU_FREE, user |-> None,
                      next |-> newblock, prev |-> mem[base].prev]
                ELSE IF a = next THEN [mem[a] EXCEPT !.prev = newblock]
                ELSE mem[a]]
        ELSE mem

Take ==
    /\ pc = "take"
    /\ mem' = Labelled(Cut, base, req.tag, req.user)
    /\ owner' = IF req.user # None THEN [owner EXCEPT ![req.user] = base] ELSE owner
    /\ rover' = Cut[base].next
    /\ Returns

-----------------------------------------------------------------------------
(* Z_FreeTags, and the tags of owned blocks *)

\* Mutant: the walk begins where the last allocation ended.
FirstBlockRover == rover

FirstBlock == mem[Head].next

\* P_SetupLevel: Z_FreeTags(PU_LEVEL, PU_PURGELEVEL - 1).
Z_FreeTags ==
    /\ pc = "idle" /\ pc' = "tags"
    /\ scan' = FirstBlock
    /\ left' = mem[FirstBlock]
    /\ UNCHANGED <<mem, rover, owner, req, base, start>>

\* The header of the block may have been absorbed when the one before it was freed.  It
\* is still what it was then, and says free.
Here == IF scan \in DOMAIN mem THEN mem[scan] ELSE left

\* Mutant: a free block is passed over before the link is taken.
FreeTaggedLate ==
    /\ pc = "tags" /\ scan # Head /\ Here.tag # PU_FREE
    /\ scan' = Here.next
    /\ left' = mem[Here.next]
    /\ IF Here.tag >= PU_LEVEL /\ Here.tag <= PU_PURGELEVEL - 1
       THEN Free(scan)
       ELSE UNCHANGED <<mem, rover, owner>>
    /\ UNCHANGED <<pc, req, base, start>>

FreeTagged ==
    /\ pc = "tags" /\ scan # Head
    /\ scan' = Here.next
    /\ left' = mem[Here.next]
    /\ IF Here.tag # PU_FREE /\ Here.tag >= PU_LEVEL /\ Here.tag <= PU_PURGELEVEL - 1
       THEN Free(scan)
       ELSE UNCHANGED <<mem, rover, owner>>
    /\ UNCHANGED <<pc, req, base, start>>

TagsFreed ==
    /\ pc = "tags" /\ scan = Head
    /\ Returns
    /\ UNCHANGED <<mem, rover, owner>>

\* Z_ChangeTag, for a block that has an owner.
Z_ChangeTag(u, tag) ==
    /\ pc = "idle" /\ owner[u] # Null
    /\ mem' = Labelled(mem, owner[u], tag, mem[owner[u]].user)
    /\ UNCHANGED <<rover, owner, pc, callVars>>

\* A lump or composite that is there gets the tag; another one is allocated.
W_CacheLumpNum(u, tag) ==
    \/ Z_ChangeTag(u, tag)
    \/ \E size \in Sizes : Z_Malloc(size, tag, u)

\* W_ReleaseLumpNum, and the end of R_GenerateComposite.
W_ReleaseLumpNum(u) == Z_ChangeTag(u, PU_CACHE)

-----------------------------------------------------------------------------
Turn == ScanFails \/ ScanKept \/ ScanPurges \/ ScanFree \/ Take \/ FreeTagged \/ TagsFreed

Next ==
    \/ \E size \in Sizes, tag \in {PU_STATIC, PU_LEVEL} : Z_Malloc(size, tag, None)
    \/ \E u \in Users, tag \in Tags : W_CacheLumpNum(u, tag)
    \/ \E u \in Users : W_ReleaseLumpNum(u)
    \/ \E b \in Blocks : Z_Free(b)
    \/ Z_FreeTags
    \/ Turn

Spec == Init /\ [][Next]_vars

\* A call that is under way goes on.
FairSpec == Spec /\ WF_vars(Turn)

-----------------------------------------------------------------------------
Header == [size : Nat, tag : Tags \cup {PU_FREE}, user : Users \cup {None},
           next : Nat, prev : Nat]

\* The headers of m form a ring, in which next and prev agree.
Linked(m) ==
    /\ \A a \in DOMAIN m :
        /\ a \in Addr \cup {Head} /\ m[a] \in Header
        /\ m[a].next \in DOMAIN m /\ m[m[a].next].prev = a
        /\ m[a].prev \in DOMAIN m /\ m[m[a].prev].next = a
    /\ Head \in DOMAIN m /\ m[Head].tag = PU_STATIC

\* Block follows block, from the first to the last byte of the zone.
Tiled(m) ==
    /\ m[Head].next = 0
    /\ \A b \in DOMAIN m \ {Head} : m[b].size > 0 /\ b + m[b].size = m[b].next
    /\ \A a, b \in DOMAIN m \ {Head} : a < b => a + m[a].size <= b

NoFreeNeighbours(m) ==
    \A a \in DOMAIN m : m[a].tag = PU_FREE => m[m[a].next].tag # PU_FREE

\* The heap is what Z_CheckHeap tests and the head of z_zone.c promises, at every turn
\* of every loop: the blocks tile the zone, the links agree, no two free blocks touch,
\* and the rover, which Z_Free moves when its block is merged away, is in the list.
HeapOK == Linked(mem) /\ Tiled(mem) /\ NoFreeNeighbours(mem) /\ rover \in DOMAIN mem

\* A user variable points to a block exactly as long as that block is its own: what is
\* purged, freed with its level or freed by a merge is never left behind in lump->cache,
\* and a purgable block always has a variable to clear.
OwnersAgree ==
    /\ \A u \in Users : owner[u] # Null =>
        owner[u] \in Blocks /\ mem[owner[u]].tag # PU_FREE /\ mem[owner[u]].user = u
    /\ \A b \in Blocks : mem[b].user # None => owner[mem[b].user] = b
    /\ \A b \in Blocks : mem[b].tag >= PU_PURGELEVEL => mem[b].user # None

\* When Z_FreeTags has ended, nothing of the old level is left, although the blocks it
\* walks over merge under it and it reads headers that are no longer in the list.
LevelGone ==
    [][pc = "tags" /\ pc' = "idle" => \A b \in Blocks : mem[b].tag # PU_LEVEL]_vars

\* Z_Malloc and Z_FreeTags end: the block at which the scan gives up is never merged
\* away, and the walk comes to the cap of the list.
CallsEnd == pc \in {"scan", "take", "tags"} ~> pc \in {"idle", "error"}

\* How far the scan is from the block at which it gives up, and the walk from the cap.
ToGo ==
    IF pc = "tags" THEN Head - scan
    ELSE IF scan <= start THEN start - scan ELSE start - scan + Head + 1

\* Every turn of a loop gets nearer to its end, also when it frees the block it stands on,
\* so that no call takes more turns than the zone has units.
EveryTurnAdvances ==
    [][pc' = pc /\ pc \in {"scan", "tags"} => ToGo' \in 0..ToGo - 1]_vars

\* The callers see ZoneContract: what is allocated lies apart, only what may be purged is
\* purged and only for an allocation, with its pointer, and the memory runs out only when
\* no free block is large enough and the scan has thrown out every other that it may.
Held == {b \in Blocks : mem[b].tag # PU_FREE}
Contract == INSTANCE ZoneContract
              WITH held <- [b \in Held |-> [size |-> mem[b].size, tag |-> mem[b].tag,
                                            user |-> mem[b].user]],
                   point <- owner, asked <- req,
                   call <- IF pc \in {"scan", "take"} THEN "malloc" ELSE pc
ImplementsContract == Contract!Spec
=============================================================================
