----------------------------- MODULE ZoneContract -----------------------------
(***************************************************************************)
(* What the zone allocator promises its callers (z_zone.h, z_zone.c): what *)
(* is allocated lies apart, a block that may be thrown out is thrown out   *)
(* only while another is being asked for, the variable of its owner is     *)
(* cleared with it, and the memory runs out only when there is no room and *)
(* at most one block that could have been thrown out is left.  There are   *)
(* no headers, no list, no rover and no merges here.                       *)
(***************************************************************************)
EXTENDS Integers

CONSTANTS
    ZoneSize, MinFragment, Sizes, Users,
    None, Null,                        \* no user, no block
    PU_STATIC, PU_LEVEL, PU_CACHE      \* a block that is kept, goes with its level, may be purged

VARIABLES
    held,    \* the blocks that are allocated, by address
    point,   \* what each user variable points to
    call,    \* "idle", "malloc", "tags" or, out of memory, "error"
    asked    \* what the malloc under way is to allocate

contractVars == <<held, point, call, asked>>

Addr == 0..ZoneSize - 1
Nobody == [size |-> 0, tag |-> PU_STATIC, user |-> None]

Init ==
    /\ held = [b \in {} |-> Nobody]
    /\ point = [u \in Users |-> Null]
    /\ call = "idle" /\ asked = Nobody

Extent(b) == b..b + held[b].size - 1

\* Nothing that is allocated is in size bytes from b.
Vacant(b, size) ==
    /\ b..b + size - 1 \subseteq Addr
    /\ \A c \in DOMAIN held : Extent(c) \cap b..b + size - 1 = {}

\* A block goes, and nobody points to it any more.
Drop(b) ==
    /\ held' = [c \in DOMAIN held \ {b} |-> held[c]]
    /\ point' = [u \in Users |-> IF u = held[b].user THEN Null ELSE point[u]]

Ask(size, tag, user) ==
    /\ call = "idle" /\ call' = "malloc"
    /\ user = None => tag # PU_CACHE
    /\ user # None => point[user] = Null
    /\ asked' = [size |-> size, tag |-> tag, user |-> user]
    /\ UNCHANGED <<held, point>>

Purge(b) ==
    /\ call = "malloc" /\ held[b].tag = PU_CACHE
    /\ Drop(b)
    /\ UNCHANGED <<call, asked>>

\* The block is as large as asked for, or a fragment larger.
Give(b, size) ==
    /\ call = "malloc" /\ call' = "idle" /\ asked' = Nobody
    /\ Vacant(b, size)
    /\ held' = [c \in DOMAIN held \cup {b} |->
                  IF c = b THEN [asked EXCEPT !.size = size] ELSE held[c]]
    /\ point' = [u \in Users |-> IF u = asked.user THEN b ELSE point[u]]

\* No room is left, and of what could be thrown out at most one block is.
RunOut ==
    /\ call = "malloc" /\ call' = "error"
    /\ \A b \in Addr : ~Vacant(b, asked.size)
    /\ \A b, c \in DOMAIN held : held[b].tag = PU_CACHE /\ held[c].tag = PU_CACHE => b = c
    /\ UNCHANGED <<held, point, asked>>

Release(b) ==
    /\ call = "idle"
    /\ Drop(b)
    /\ UNCHANGED <<call, asked>>

ChangeTag(u, tag) ==
    /\ call = "idle" /\ point[u] # Null
    /\ held' = [held EXCEPT ![point[u]].tag = tag]
    /\ UNCHANGED <<point, call, asked>>

LeaveLevel ==
    /\ call = "idle" /\ call' = "tags"
    /\ UNCHANGED <<held, point, asked>>

ReleaseOfLevel(b) ==
    /\ call = "tags" /\ held[b].tag = PU_LEVEL
    /\ Drop(b)
    /\ UNCHANGED <<call, asked>>

LevelLeft ==
    /\ call = "tags" /\ call' = "idle" /\ asked' = Nobody
    /\ \A b \in DOMAIN held : held[b].tag # PU_LEVEL
    /\ UNCHANGED <<held, point>>

Tags == {PU_STATIC, PU_LEVEL, PU_CACHE}

Next ==
    \/ \E size \in Sizes, tag \in Tags, user \in Users \cup {None} : Ask(size, tag, user)
    \/ \E b \in DOMAIN held : Purge(b) \/ Release(b) \/ ReleaseOfLevel(b)
    \/ \E b \in Addr, size \in asked.size..asked.size + MinFragment : Give(b, size)
    \/ \E u \in Users, tag \in Tags : ChangeTag(u, tag)
    \/ RunOut \/ LeaveLevel \/ LevelLeft

Spec == Init /\ [][Next]_contractVars
=============================================================================
