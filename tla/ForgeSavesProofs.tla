--------------------------- MODULE ForgeSavesProofs ---------------------------
(***************************************************************************)
(* The saved games of ForgeSaves for any number of recipes, files, saves   *)
(* and waiting transactions.                                               *)
(*                                                                         *)
(* The inductive invariant: Types; QueueShape and PageShape, what is under *)
(* way where and with what in the queue; Ages, nothing is newer than the   *)
(* newest version; Purged, whatever may still reach the database is newer  *)
(* than what Clear has removed or will remove; and Ordered, of a recipe    *)
(* that was neither cleared nor imported, the database holds nothing newer *)
(* than a job has read, and a job nothing newer than the file system.      *)
(***************************************************************************)
EXTENDS ForgeSaves, TLAPS

Waiting == 1..Len(queue)
HasPut == saving # None /\ saving.put

\* The one transaction of a job, which is the last or leaves room for buttons.
JobAt(j) ==
    /\ queue[j].by = "job" /\ \A i \in Waiting : queue[i].by = "job" => i = j
    /\ queue[j].to = saving.of /\ queue[j].saves = saving.got
    /\ j = Len(queue) \/ Len(queue) <= MaxQueue

Types ==
    /\ disk \in [Recipes -> Saves] /\ fs \in [Recipes -> Saves] /\ dirs \subseteq Recipes
    /\ queue \in Seq(Transaction)
    /\ stage \in Stages /\ recipe \in Recipes \cup {None} /\ loaded \in Saves
    /\ main \in BOOLEAN /\ alive \in BOOLEAN /\ overlay \in {"library", "hidden", "failed"}
    /\ launch \in Recipes \cup {None} /\ timer \in BOOLEAN
    /\ saving \in Job \cup {None} /\ clearing \in BOOLEAN
    /\ returning \in {"no", "saving", "persisting"}
    /\ made \in 0..MaxMade /\ owed \in Saves
    /\ cleared \in [Recipes -> 0..MaxMade] /\ restored \subseteq Recipes

QueueShape ==
    /\ HasPut => \E j \in Waiting : JobAt(j)
    /\ ~HasPut => Len(queue) <= MaxQueue + 1 /\ \A i \in Waiting : queue[i].by # "job"
    /\ Len(queue) <= MaxQueue + 2
    /\ \A i \in Waiting :
         /\ queue[i].by # "workspace" => queue[i].to \in Recipes
         /\ queue[i].by # "clear" => queue[i].upTo = 0
         /\ queue[i].by = "load" => stage = "loading" /\ queue[i].to = recipe
    /\ \A i, j \in Waiting : queue[i].by = "load" /\ queue[j].by = "load" => i = j

PageShape ==
    /\ (alive \/ timer) => main
    /\ main => launch # None
    /\ (clearing \/ returning = "saving") => saving # None
    /\ launch # None => launch \in dirs
    /\ saving # None => saving.of \in dirs
    /\ \A r \in Recipes, s \in Slots : fs[r][s] # 0 => r \in dirs
    /\ stage \in {"attempted", "loading", "loaded"} => recipe # None /\ ~main
    /\ stage \in {"booting", "booted"} => main

QueueAges ==
    \A i \in Waiting : queue[i].upTo <= made /\ \A s \in Slots : queue[i].saves[s] <= made

Ages ==
    /\ \A r \in Recipes : cleared[r] <= made
    /\ \A r \in Recipes, s \in Slots : disk[r][s] <= made /\ fs[r][s] <= made
    /\ \A s \in Slots : loaded[s] <= made
    /\ saving # None => \A s \in Slots : saving.got[s] <= made
    /\ QueueAges

\* Version v of recipe r is none, or newer than what is or will be removed.
Above(r, v) ==
    v # 0 => v > cleared[r] /\ \A i \in Waiting : queue[i].to = r => v > queue[i].upTo

FilesPurged == \A r \in Recipes, s \in Slots : Above(r, fs[r][s])
LoadedPurged == stage = "loaded" => \A s \in Slots : Above(recipe, loaded[s])
JobPurged == saving # None /\ ~saving.put => \A s \in Slots : Above(saving.of, saving.got[s])
QueuePurged ==
    \A j \in Waiting :
      /\ queue[j].to \in Recipes =>
           \A s \in Slots : queue[j].saves[s] # 0 =>
             /\ queue[j].saves[s] > cleared[queue[j].to]
             /\ \A i \in 1..j : queue[i].to = queue[j].to => queue[j].saves[s] > queue[i].upTo
      /\ queue[j].by = "load" =>
           \A i \in j + 1..Len(queue) : queue[i].to = queue[j].to => queue[i].upTo = 0
Purged == FilesPurged /\ LoadedPurged /\ JobPurged /\ QueuePurged

FilesOrdered ==
    \A r \in dirs \ restored, s \in Slots :
      disk[r][s] <= fs[r][s] /\ (~main => fs[r][s] = disk[r][s])
JobOrdered ==
    saving # None =>
      /\ saving.put => saving.todo = {}
      /\ saving.of \notin restored =>
           \A s \in Slots \ saving.todo :
             disk[saving.of][s] <= saving.got[s] /\ saving.got[s] <= fs[saving.of][s]
LoadedOrdered ==
    stage = "loaded" /\ recipe \notin restored => \A s \in Slots : loaded[s] = disk[recipe][s]
QueueOrdered ==
    \A i \in Waiting : queue[i].by \in {"clear", "import"} => queue[i].to \in restored
Ordered == FilesOrdered /\ JobOrdered /\ LoadedOrdered /\ QueueOrdered

Inv == Types /\ QueueShape /\ PageShape /\ Ages /\ Purged /\ ClearedStaysCleared /\ Ordered

-----------------------------------------------------------------------------
(* The queue.                                                              *)

LEMMA TailAt ==
    ASSUME NEW S, NEW q \in Seq(S), q # << >>
    PROVE  /\ Tail(q) \in Seq(S) /\ Len(q) \in Nat \ {0} /\ Len(Tail(q)) = Len(q) - 1
           /\ Head(q) = q[1] /\ \A i \in 1..Len(Tail(q)) : Tail(q)[i] = q[i + 1] /\ i + 1 \in 1..Len(q)
           /\ \A i \in 1..Len(q) : i # 1 => i - 1 \in 1..Len(Tail(q)) /\ q[i] = Tail(q)[i - 1]
<1>1. Len(q) \in Nat \ {0} /\ Tail(q) \in Seq(S) /\ Len(Tail(q)) = Len(q) - 1 /\ Head(q) = q[1]
  OBVIOUS
<1>2. \A i \in 1..Len(q) - 1 : Tail(q)[i] = q[i + 1]
  OBVIOUS
<1>3. \A i \in 1..Len(q) : i # 1 => i - 1 \in 1..Len(q) - 1 /\ (i - 1) + 1 = i
  BY <1>1
<1>4. \A i \in 1..Len(q) - 1 : i + 1 \in 1..Len(q)
  BY <1>1
<1> QED  BY <1>1, <1>2, <1>3, <1>4

LEMMA AppendAt ==
    ASSUME NEW S, NEW q \in Seq(S), NEW e \in S
    PROVE  /\ Append(q, e) \in Seq(S) /\ Len(q) \in Nat /\ Len(Append(q, e)) = Len(q) + 1
           /\ \A i \in 1..Len(q) : Append(q, e)[i] = q[i]
           /\ Append(q, e)[Len(q) + 1] = e
           /\ 1..Len(q) + 1 = 1..Len(q) \cup {Len(q) + 1}
<1>1. Len(q) \in Nat
  OBVIOUS
<1>2. 1..Len(q) + 1 = 1..Len(q) \cup {Len(q) + 1}
  BY <1>1
<1> QED  BY <1>1, <1>2

LEMMA Putting ==
    ASSUME NEW r \in Recipes \cup {None}, NEW saves \in Saves, Types,
           NEW by \in {"job", "clear", "import", "load", "workspace"}
    PROVE  Put(by, r, saves) \in Transaction
  BY SavesAssumption DEF Put, Transaction, Types

LEMMA Nothing == NoSaves \in Saves /\ \A s \in Slots : NoSaves[s] = 0
  BY SavesAssumption DEF NoSaves, Saves

LEMMA Clearing ==
    ASSUME Types, NEW r \in Recipes
    PROVE  /\ Clear(r) \in Transaction /\ Clear(r).by = "clear" /\ Clear(r).to = r
           /\ Clear(r).saves = NoSaves /\ Clear(r).upTo = IF StillHeld(r) THEN 0 ELSE made
<1> DEFINE until == IF StillHeld(r) THEN 0 ELSE made
<1>1. Clear(r) = [by |-> "clear", to |-> r, saves |-> NoSaves, upTo |-> until]
  BY DEF Clear, Put
<1>2. until \in 0..MaxMade
  BY SavesAssumption DEF Types
<1> QED  BY <1>1, <1>2, Nothing DEF Transaction

LEMMA Working == Workspace \in Transaction /\ Workspace.by = "workspace"
                 /\ Workspace.saves = NoSaves /\ Workspace.upTo = 0 /\ Workspace.to = None
  BY Nothing, SavesAssumption DEF Workspace, Put, Transaction

\* A job begins with all files of the game, the first of them read.
LEMMA Starting ==
    ASSUME Types, StartJob, launch # None
    PROVE  /\ saving' \in Job /\ saving'.of = launch
           /\ \A s \in Slots : saving'.got[s] \in {0, fs[launch][s]}
           /\ \A s \in Slots \ saving'.todo : saving'.got[s] = fs[launch][s]
           /\ saving'.put => saving'.todo = {}
           /\ \/ queue' = queue /\ ~saving'.put
              \/ queue' = Append(queue, Put("job", saving'.of, saving'.got)) /\ saving'.put
<1> DEFINE files == fs[launch]
<1>0. launch \in Recipes /\ files \in Saves
  BY DEF Types
<1>1. CASE Files(launch) = {}
  <2>1. /\ saving' = [of |-> launch, todo |-> {}, got |-> NoSaves, put |-> TRUE]
        /\ queue' = Append(queue, Put("job", launch, NoSaves))
    BY <1>1 DEF StartJob
  <2>2. \A s \in Slots : files[s] = 0
    BY <1>1 DEF Files
  <2> QED  BY <1>0, <2>1, <2>2, Nothing DEF Job
<1>2. CASE Files(launch) # {}
  <2>1. PICK s \in Files(launch) :
          /\ saving' = [of |-> launch, todo |-> Files(launch) \ {s}, put |-> FALSE,
                        got |-> [NoSaves EXCEPT ![s] = fs[launch][s]]]
          /\ queue' = queue
    BY <1>2 DEF StartJob
  <2>2. s \in Slots /\ Files(launch) \in SUBSET Slots
        /\ \A t \in Slots : t \notin Files(launch) => files[t] = 0
    BY DEF Files
  <2>3. [NoSaves EXCEPT ![s] = files[s]] \in Saves
    BY <1>0, <2>2, Nothing DEF Saves
  <2>4. \A t \in Slots : [NoSaves EXCEPT ![s] = files[s]][t] = IF t = s THEN files[s] ELSE 0
    BY DEF NoSaves
  <2> QED  BY <1>0, <2>1, <2>2, <2>3, <2>4 DEF Job
<1> QED  BY <1>1, <1>2

\* The next file is read, or all of them are put.
LEMMA Reading ==
    ASSUME Types, JobReads
    PROVE  /\ saving' \in Job /\ saving \in Job /\ saving'.of = saving.of
           /\ saving # None /\ ~saving.put
           /\ \A s \in Slots : saving'.got[s] \in {saving.got[s], fs[saving.of][s]}
           /\ \A s \in Slots \ saving'.todo :
                \/ s \notin saving.todo /\ saving'.got[s] = saving.got[s]
                \/ saving'.got[s] = fs[saving.of][s]
           /\ saving'.put => saving'.todo = {}
           /\ \/ queue' = queue /\ ~saving'.put
              \/ queue' = Append(queue, Put("job", saving'.of, saving'.got)) /\ saving'.put
<1>1. saving \in Job /\ saving # None /\ ~saving.put
  BY DEF JobReads, Types
<1>2. CASE saving.todo = {}
  <2>1. saving' = [saving EXCEPT !.put = TRUE]
        /\ queue' = Append(queue, Put("job", saving.of, saving.got))
    BY <1>2 DEF JobReads
  <2>2. saving' \in Job /\ saving'.of = saving.of /\ saving'.got = saving.got
        /\ saving'.todo = {} /\ saving'.put
    BY <1>1, <1>2, <2>1 DEF Job
  <2> QED  BY <1>1, <1>2, <2>1, <2>2
<1>3. CASE saving.todo # {}
  <2>1. PICK s \in saving.todo :
          saving' = [saving EXCEPT !.todo = @ \ {s}, !.got[s] = fs[saving.of][s]]
    BY <1>3 DEF JobReads
  <2>2. queue' = queue
    BY <1>3 DEF JobReads
  <2>3. s \in Slots /\ saving.of \in Recipes /\ saving.got \in Saves /\ saving.todo \in SUBSET Slots
        /\ saving.put \in BOOLEAN
    BY <1>1 DEF Job
  <2>4. saving' = [of |-> saving.of, todo |-> saving.todo \ {s}, put |-> saving.put,
                   got |-> [saving.got EXCEPT ![s] = fs[saving.of][s]]]
    BY <1>1, <2>1 DEF Job
  <2>5. fs[saving.of][s] \in 0..MaxMade
    BY <2>3 DEF Types, Saves
  <2>6. [saving.got EXCEPT ![s] = fs[saving.of][s]] \in Saves
    BY <2>3, <2>5 DEF Saves
  <2>7. \A t \in Slots : [saving.got EXCEPT ![s] = fs[saving.of][s]][t]
                           = IF t = s THEN fs[saving.of][s] ELSE saving.got[t]
    BY <2>3 DEF Saves
  <2>8. saving' \in Job /\ saving'.of = saving.of /\ saving'.todo = saving.todo \ {s}
        /\ saving'.put = saving.put /\ saving'.got = [saving.got EXCEPT ![s] = fs[saving.of][s]]
    BY <2>3, <2>4, <2>6 DEF Job
  <2> QED  BY <1>1, <2>2, <2>7, <2>8
<1> QED  BY <1>2, <1>3

-----------------------------------------------------------------------------
(* What happens to the queue when its first transaction has run.           *)

Kept(i) == i \in 1..Len(queue) - 1 /\ queue'[i] = queue[i + 1]
Added(i) ==
    /\ i >= Len(queue)
    /\ queue'[i] = Workspace \/ \E r \in Recipes : Unlink(r) /\ queue'[i] = Clear(r)
Shifts ==
    /\ queue' \in Seq(Transaction)
    /\ Len(queue) - 1 <= Len(queue') /\ Len(queue') <= Len(queue) + 1
    /\ \A i \in 1..Len(queue') : Kept(i) \/ Added(i)

LEMMA Dropping ==
    ASSUME Types, queue # << >>, queue' = Tail(queue)
    PROVE  Shifts /\ Len(queue') = Len(queue) - 1 /\ \A i \in 1..Len(queue') : Kept(i)
<1>1. queue \in Seq(Transaction)
  BY DEF Types
<1>2. /\ Tail(queue) \in Seq(Transaction) /\ Len(queue) \in Nat \ {0}
      /\ Len(Tail(queue)) = Len(queue) - 1
      /\ \A i \in 1..Len(Tail(queue)) : Tail(queue)[i] = queue[i + 1]
  BY <1>1, TailAt
<1> QED  BY <1>2 DEF Shifts, Kept

LEMMA Settling ==
    ASSUME Types, queue # << >>, GoOn(Tail(queue))
    PROVE  /\ Shifts
           /\ (fs' = fs /\ restored' = restored) \/ \E r \in Recipes : Unlink(r)
           /\ clearing' = FALSE /\ owed' = owed /\ returning' # "saving"
           /\ returning' \in {returning, "persisting"}
<1> DEFINE rest == Tail(queue)
           left == IF returning = "saving" THEN Append(rest, Workspace) ELSE rest
<1>1. queue \in Seq(Transaction)
  BY DEF Types
<1>2. /\ rest \in Seq(Transaction) /\ Len(queue) \in Nat \ {0}
      /\ Len(rest) = Len(queue) - 1 /\ \A i \in 1..Len(rest) : rest[i] = queue[i + 1]
  BY <1>1, TailAt
<1>a. /\ returning = "saving" => left = Append(rest, Workspace)
      /\ returning # "saving" => left = rest
  OBVIOUS
<1>b. /\ clearing => \E r \in Recipes : Unlink(r) /\ queue' = Append(left, Clear(r))
      /\ ~clearing => queue' = left /\ fs' = fs /\ restored' = restored
      /\ clearing' = FALSE /\ owed' = owed /\ returning' # "saving"
      /\ returning' \in {returning, "persisting"}
  BY DEF GoOn
<1> HIDE DEF left, rest
<1>3. /\ left \in Seq(Transaction) /\ Len(left) \in {Len(rest), Len(rest) + 1}
      /\ \A i \in 1..Len(left) : \/ i \in 1..Len(rest) /\ left[i] = rest[i]
                                 \/ i = Len(rest) + 1 /\ left[i] = Workspace
  <2>1. CASE returning = "saving"
    <3>1. left = Append(rest, Workspace) /\ Workspace \in Transaction
      BY <1>a, <2>1, Working
    <3>2. /\ left \in Seq(Transaction) /\ Len(left) = Len(rest) + 1
          /\ \A i \in 1..Len(rest) : left[i] = rest[i]
          /\ left[Len(rest) + 1] = Workspace /\ 1..Len(rest) + 1 = 1..Len(rest) \cup {Len(rest) + 1}
      BY <1>2, <3>1, AppendAt
    <3> QED  BY <3>2
  <2>2. CASE returning # "saving"
    <3>1. left = rest
      BY <1>a, <2>2
    <3> QED  BY <1>2, <3>1
  <2> QED  BY <2>1, <2>2
<1>4. CASE clearing
  <2>1. PICK r \in Recipes : Unlink(r) /\ queue' = Append(left, Clear(r))
    BY <1>b, <1>4
  <2>2. /\ queue' \in Seq(Transaction) /\ Len(queue') = Len(left) + 1 /\ Len(left) \in Nat
        /\ \A i \in 1..Len(left) : queue'[i] = left[i]
        /\ queue'[Len(left) + 1] = Clear(r) /\ 1..Len(left) + 1 = 1..Len(left) \cup {Len(left) + 1}
    BY <1>3, <2>1, AppendAt, Clearing
  <2>3. ASSUME NEW i \in 1..Len(queue') PROVE Kept(i) \/ Added(i)
    <3>1. CASE i \in 1..Len(rest) /\ queue'[i] = rest[i]
      BY <1>2, <3>1 DEF Kept
    <3>2. CASE i = Len(rest) + 1 /\ queue'[i] = Workspace
      BY <1>2, <3>2 DEF Added
    <3>3. CASE i = Len(left) + 1
      BY <1>2, <1>3, <2>1, <2>2, <3>3 DEF Added
    <3> QED  BY <1>3, <2>2, <2>3, <3>1, <3>2, <3>3
  <2>4. Shifts
    BY <1>2, <1>3, <2>2, <2>3 DEF Shifts
  <2> QED  BY <1>b, <2>1, <2>4
<1>5. CASE ~clearing
  <2>1. queue' = left /\ fs' = fs /\ restored' = restored
    BY <1>b, <1>5
  <2>2. ASSUME NEW i \in 1..Len(queue') PROVE Kept(i) \/ Added(i)
    <3>1. CASE i \in 1..Len(rest) /\ queue'[i] = rest[i]
      BY <1>2, <3>1 DEF Kept
    <3>2. CASE i = Len(rest) + 1 /\ queue'[i] = Workspace
      BY <1>2, <3>2 DEF Added
    <3> QED  BY <1>3, <2>1, <2>2, <3>1, <3>2
  <2>3. Shifts
    BY <1>2, <1>3, <2>1, <2>2 DEF Shifts
  <2> QED  BY <1>b, <2>1, <2>3
<1>6. clearing \in BOOLEAN
  BY DEF Types
<1> QED  BY <1>4, <1>5, <1>6

LEMMA Unlinking ==
    ASSUME Types, NEW r \in Recipes, Unlink(r)
    PROVE  /\ fs' \in [Recipes -> Saves] /\ restored' = restored \cup {r}
           /\ \A q \in Recipes \ {r} : fs'[q] = fs[q]
           /\ fs'[r] = IF launch = r THEN NoSaves ELSE fs[r]
  BY Nothing DEF Types, Unlink

-----------------------------------------------------------------------------
(* Types.                                                                  *)

LEMMA InitTypes == Init => Types
<1> SUFFICES ASSUME Init PROVE Types
  OBVIOUS
<1>1. disk \in [Recipes -> Saves] /\ fs \in [Recipes -> Saves] /\ loaded \in Saves /\ owed \in Saves
  BY Nothing DEF Init
<1>2. cleared \in [Recipes -> 0..MaxMade] /\ made \in 0..MaxMade
  BY SavesAssumption DEF Init
<1>3. queue \in Seq(Transaction)
  BY DEF Init
<1> QED  BY <1>1, <1>2, <1>3 DEF Init, Types, Stages

LEMMA SaveNowTypes ==
    ASSUME Types, SaveNow
    PROVE  saving' \in Job \cup {None} /\ queue' \in Seq(Transaction)
<1>1. CASE CanStart
  <2>1. StartJob /\ launch # None
    BY <1>1 DEF SaveNow, CanStart
  <2>2. /\ saving' \in Job
        /\ \/ queue' = queue
           \/ queue' = Append(queue, Put("job", saving'.of, saving'.got))
    BY <2>1, Starting
  <2>3. Put("job", saving'.of, saving'.got) \in Transaction
    BY <2>2, Putting DEF Job
  <2>4. queue \in Seq(Transaction)
    BY DEF Types
  <2>5. Append(queue, Put("job", saving'.of, saving'.got)) \in Seq(Transaction)
    BY <2>3, <2>4, AppendAt
  <2> QED  BY <2>2, <2>4, <2>5
<1>2. CASE ~CanStart
  BY <1>2 DEF SaveNow, Types
<1> QED  BY <1>1, <1>2

LEMMA NextKeepsTypes == Types /\ QueueShape /\ PageShape /\ [Next]_vars => Types'
<1> SUFFICES ASSUME Types, QueueShape, PageShape, [Next]_vars PROVE Types'
  OBVIOUS
<1>1. CASE JobReads
  <2>0. /\ saving' \in Job
        /\ \/ queue' = queue
           \/ queue' = Append(queue, Put("job", saving'.of, saving'.got))
    BY <1>1, Reading
  <2>1. Put("job", saving'.of, saving'.got) \in Transaction
    BY <2>0, Putting DEF Job
  <2>a. queue \in Seq(Transaction)
    BY DEF Types
  <2>b. Append(queue, Put("job", saving'.of, saving'.got)) \in Seq(Transaction)
    BY <2>1, <2>a, AppendAt
  <2>2. saving' \in Job /\ queue' \in Seq(Transaction)
    BY <2>0, <2>a, <2>b
  <2>3. UNCHANGED <<disk, fileVars, launchVars, clearing, returning, owed, made, ghosts>>
    BY <1>1 DEF JobReads
  <2> QED  BY <2>2, <2>3 DEF Types, fileVars, launchVars, ghosts
<1>2. CASE TimerSaves \/ HiddenSaves
  <2>1. UNCHANGED <<disk, fileVars, launchVars, clearing, returning, owed, made, ghosts>> /\ SaveNow
    BY <1>2 DEF TimerSaves, HiddenSaves
  <2> QED  BY <2>1, SaveNowTypes DEF Types, fileVars, launchVars, ghosts
<1>3. CASE ClickClear
  <2>1. UNCHANGED <<disk, dirs, launchVars, returning, owed, made, cleared>>
    BY <1>3 DEF ClickClear
  <2>2. CASE SaveNowResolved
    <3>1. PICK r \in Recipes : Unlink(r) /\ queue' = Append(queue, Clear(r))
                               /\ UNCHANGED <<saving, clearing>>
      BY <1>3, <2>2 DEF ClickClear
    <3>2. queue' \in Seq(Transaction) /\ fs' \in [Recipes -> Saves] /\ restored' \subseteq Recipes
      BY <3>1, Clearing, AppendAt, Unlinking DEF Types
    <3> QED  BY <2>1, <3>1, <3>2 DEF Types, launchVars
  <2>3. CASE ~SaveNowResolved
    <3>1. SaveNow /\ clearing' = TRUE /\ UNCHANGED <<fs, restored>>
      BY <1>3, <2>3 DEF ClickClear
    <3> QED  BY <2>1, <3>1, SaveNowTypes DEF Types, launchVars
  <2> QED  BY <2>2, <2>3
<1>4. CASE ClickImport
  <2>1. /\ made < MaxMade /\ made' = made + 1
        /\ UNCHANGED <<disk, fileVars, launchVars, jobVars, cleared>>
    BY <1>4 DEF ClickImport
  <2>2. made + 1 \in 0..MaxMade
    BY <2>1, SavesAssumption DEF Types
  <2>3. PICK r \in Recipes, saves \in [Slots -> {0, made + 1}] :
          queue' = Append(queue, Put("import", r, saves)) /\ restored' = restored \cup {r}
    BY <1>4 DEF ClickImport
  <2>4. saves \in Saves
    BY <2>2, SavesAssumption DEF Saves
  <2>5. queue' \in Seq(Transaction)
    BY <2>3, <2>4, Putting, AppendAt DEF Types
  <2> QED  BY <2>1, <2>2, <2>3, <2>5 DEF Types, fileVars, launchVars, jobVars
<1>5. CASE ClickReturn
  <2>1. UNCHANGED <<disk, fileVars, stage, recipe, loaded, main, alive, overlay, launch,
                    clearing, made, ghosts>> /\ timer' = FALSE
    BY <1>5 DEF ClickReturn
  <2>2. CASE SaveNowResolved
    <3>1. returning' = "persisting" /\ queue' = Append(queue, Workspace) /\ UNCHANGED <<saving, owed>>
      BY <1>5, <2>2 DEF ClickReturn
    <3>2. queue' \in Seq(Transaction)
      BY <3>1, Working, AppendAt DEF Types
    <3> QED  BY <2>1, <3>1, <3>2 DEF Types, fileVars, ghosts
  <2>3. CASE ~SaveNowResolved
    <3>1. /\ returning' = "saving" /\ SaveNow
          /\ owed' = IF launch = None THEN NoSaves ELSE fs[launch]
      BY <1>5, <2>3 DEF ClickReturn
    <3>2. owed' \in Saves
      BY <3>1, Nothing DEF Types
    <3> QED  BY <2>1, <3>1, <3>2, SaveNowTypes DEF Types, fileVars, ghosts
  <2> QED  BY <2>2, <2>3
<1>6. ASSUME NEW r \in Recipes, LaunchStart(r) PROVE Types'
  BY <1>6 DEF LaunchStart, Types, Stages, fileVars, jobVars, ghosts
<1>7. CASE LoadSaves
  <2>1. Put("load", recipe, NoSaves) \in Transaction
    BY Putting, Nothing DEF Types
  <2>2. queue' \in Seq(Transaction)
    BY <1>7, <2>1, AppendAt DEF LoadSaves, Types
  <2> QED  BY <1>7, <2>2 DEF LoadSaves, Types, Stages, fileVars, jobVars, ghosts
<1>8. CASE PrepareFails
  BY <1>8, Nothing DEF PrepareFails, Types, Stages, fileVars, jobVars, ghosts
<1>9. CASE PrepareAndStart
  <2>1. /\ fs' = [fs EXCEPT ![recipe] = WithLoaded(@)] /\ dirs' = dirs \cup {recipe}
        /\ launch' = recipe /\ recipe' = None /\ loaded' = NoSaves
        /\ UNCHANGED <<disk, queue, timer, jobVars, made, ghosts>>
        /\ stage' \in {"booting", "idle"}
        /\ main' \in {main, TRUE} /\ alive' \in {alive, TRUE} /\ overlay' \in {overlay, "hidden"}
    BY <1>9 DEF PrepareAndStart
  <2>2. \A r \in Recipes : WithLoaded(fs[r]) \in Saves
    BY DEF WithLoaded, Types, Saves
  <2>3. recipe \in Recipes
    BY <1>9 DEF PrepareAndStart, PageShape, Types
  <2>4. fs' \in [Recipes -> Saves]
    BY <2>1, <2>2 DEF Types
  <2>5. dirs' \subseteq Recipes
    BY <2>1, <2>3 DEF Types
  <2> QED  BY <2>1, <2>3, <2>4, <2>5, Nothing DEF Types, Stages, jobVars, ghosts
<1>10. CASE Boots \/ BootFails \/ StartTimer \/ EngineFails
  <2>1. UNCHANGED <<disk, queue, fileVars, recipe, loaded, main, launch, jobVars, made, ghosts>>
    BY <1>10 DEF Boots, BootFails, StartTimer, EngineFails
  <2>2. stage' \in Stages /\ timer' \in BOOLEAN /\ alive' \in BOOLEAN
        /\ overlay' \in {"library", "hidden", "failed"}
    BY <1>10 DEF Boots, BootFails, StartTimer, EngineFails, Types, Stages
  <2> QED  BY <2>1, <2>2 DEF Types, fileVars, jobVars, ghosts
<1>11. ASSUME NEW s \in Slots, GameSaves(s) PROVE Types'
  <2>1. /\ made < MaxMade /\ made' = made + 1 /\ fs' = [fs EXCEPT ![launch][s] = made + 1]
        /\ UNCHANGED <<disk, queue, dirs, launchVars, jobVars, ghosts>>
    BY <1>11 DEF GameSaves
  <2>2. made + 1 \in 0..MaxMade
    BY <2>1, SavesAssumption DEF Types
  <2>3. \A r \in Recipes : [fs[r] EXCEPT ![s] = made + 1] \in Saves
    BY <2>2 DEF Types, Saves
  <2>4. fs' \in [Recipes -> Saves]
    BY <2>1, <2>3 DEF Types
  <2> QED  BY <2>1, <2>2, <2>4 DEF Types, launchVars, jobVars, ghosts
<1>12. CASE Commit
  <2>1. /\ queue # << >> /\ First \in Transaction
        /\ disk' = [disk EXCEPT ![First.to] = First.saves]
        /\ cleared' = [cleared EXCEPT ![First.to] = IF First.upTo > @ THEN First.upTo ELSE @]
        /\ UNCHANGED <<dirs, launchVars, made>>
    BY <1>12, TailAt DEF Commit, First, Types
  <2>2. disk' \in [Recipes -> Saves] /\ cleared' \in [Recipes -> 0..MaxMade]
    BY <2>1 DEF Types, Transaction
  <2>3. CASE First.by = "job"
    <3>1. saving' = None /\ GoOn(Tail(queue))
      BY <1>12, <2>3 DEF Commit, Settled
    <3>2. /\ queue' \in Seq(Transaction) /\ clearing' = FALSE /\ owed' = owed
          /\ returning' \in {returning, "persisting"}
          /\ (fs' = fs /\ restored' = restored) \/ \E r \in Recipes : Unlink(r)
      BY <2>1, <3>1, Settling DEF Shifts
    <3>3. fs' \in [Recipes -> Saves] /\ restored' \subseteq Recipes
      BY <3>2, Unlinking DEF Types
    <3> QED  BY <2>1, <2>2, <3>1, <3>2, <3>3 DEF Types, launchVars
  <2>4. CASE First.by # "job"
    <3>1. queue' = Tail(queue) /\ UNCHANGED <<fs, restored, jobVars>>
      BY <1>12, <2>4 DEF Commit
    <3>2. queue' \in Seq(Transaction)
      BY <2>1, <3>1, TailAt DEF Types
    <3> QED  BY <2>1, <2>2, <3>1, <3>2 DEF Types, launchVars, jobVars
  <2> QED  BY <2>3, <2>4
<1>13. CASE Loads
  <2>1. /\ queue # << >> /\ First.by = "load" /\ loaded' = disk[First.to] /\ stage' = "loaded"
        /\ queue' = Tail(queue)
        /\ UNCHANGED <<disk, fileVars, recipe, main, alive, overlay, launch, timer, jobVars,
                       made, ghosts>>
    BY <1>13 DEF Loads
  <2>2. First = queue[1] /\ 1 \in Waiting /\ queue' \in Seq(Transaction)
    BY <2>1, TailAt DEF Types, First, Waiting
  <2>3. loaded' \in Saves
    BY <2>1, <2>2 DEF QueueShape, Types
  <2> QED  BY <2>1, <2>2, <2>3 DEF Types, Stages, fileVars, jobVars, ghosts
<1>14. CASE Leaves
  <2>1. fs' \in [Recipes -> Saves] /\ loaded' \in Saves /\ owed' \in Saves
        /\ queue' \in Seq(Transaction)
    BY <1>14, Nothing DEF Leaves
  <2> QED  BY <1>14, <2>1 DEF Leaves, Types, Stages
<1>15. CASE Aborts
  <2>1. /\ queue # << >> /\ queue' = Tail(queue)
        /\ UNCHANGED <<disk, fileVars, loaded, main, alive, overlay, launch, timer, made, ghosts>>
    BY <1>15 DEF Aborts
  <2>2. queue' \in Seq(Transaction)
    BY <2>1, TailAt DEF Types
  <2>3. /\ saving' \in {saving, None} /\ clearing' \in {clearing, FALSE}
        /\ returning' \in {returning, "no"} /\ owed' \in {owed, NoSaves}
        /\ stage' \in {stage, "idle"} /\ recipe' \in {recipe, None}
    BY <1>15 DEF Aborts, Fails, jobVars
  <2>4. saving' \in Job \cup {None} /\ clearing' \in BOOLEAN /\ owed' \in Saves
        /\ returning' \in {"no", "saving", "persisting"}
        /\ stage' \in Stages /\ recipe' \in Recipes \cup {None}
    BY <2>3, Nothing DEF Types, Stages
  <2> QED  BY <2>1, <2>2, <2>4 DEF Types, fileVars, ghosts
<1>16. CASE UNCHANGED vars
  BY <1>16 DEF vars, fileVars, launchVars, jobVars, ghosts, Types
<1> QED
  BY <1>1, <1>2, <1>3, <1>4, <1>5, <1>6, <1>7, <1>8, <1>9, <1>10, <1>11, <1>12, <1>13, <1>14,
     <1>15, <1>16 DEF Next, Page, Database, Reload, Crash

-----------------------------------------------------------------------------
(* What is under way on the page.                                          *)

LEMMA UnlinkEmpties ==
    ASSUME Types, NEW r \in Recipes, Unlink(r), NEW q \in Recipes, NEW s \in Slots
    PROVE  fs'[q][s] \in {0, fs[q][s]}
<1>1. fs'[q] = fs[q] \/ fs'[q] = NoSaves
  BY Unlinking
<1> QED  BY <1>1, Nothing

LEMMA SaveNowStarts ==
    ASSUME Types, SaveNow
    PROVE  \/ saving' = saving /\ queue' = queue /\ ~CanStart
           \/ StartJob /\ CanStart /\ launch # None /\ saving = None /\ saving' \in Job
              /\ saving'.of = launch /\ saving' # None
<1>1. CASE CanStart
  <2>1. StartJob /\ launch # None /\ saving = None
    BY <1>1 DEF SaveNow, CanStart
  <2>2. saving' # None
    BY <2>1, Starting, JobAssumption
  <2> QED  BY <1>1, <2>1, <2>2, Starting
<1>2. CASE ~CanStart
  BY <1>2 DEF SaveNow
<1> QED  BY <1>1, <1>2

LEMMA NextKeepsPageShape == Types /\ QueueShape /\ PageShape /\ [Next]_vars => PageShape'
<1> SUFFICES ASSUME Types, QueueShape, PageShape, [Next]_vars PROVE PageShape'
  OBVIOUS
<1>1. CASE JobReads
  <2>1. saving' # None /\ saving'.of = saving.of
    BY <1>1, Reading, JobAssumption
  <2>2. UNCHANGED <<fileVars, launchVars, clearing, returning>>
    BY <1>1 DEF JobReads
  <2> QED  BY <1>1, <2>1, <2>2, Reading DEF PageShape, fileVars, launchVars
<1>2. CASE TimerSaves \/ HiddenSaves
  <2>1. SaveNow /\ UNCHANGED <<fileVars, launchVars, clearing, returning>>
    BY <1>2 DEF TimerSaves, HiddenSaves
  <2> QED  BY <2>1, SaveNowStarts DEF PageShape, fileVars, launchVars
<1>3. CASE ClickClear
  <2>1. UNCHANGED <<dirs, launchVars, returning>>
    BY <1>3 DEF ClickClear
  <2>2. CASE SaveNowResolved
    <3>1. PICK r \in Recipes : Unlink(r) /\ UNCHANGED <<saving, clearing>>
      BY <1>3, <2>2 DEF ClickClear
    <3>2. \A q \in Recipes, s \in Slots : fs'[q][s] # 0 => fs[q][s] # 0
      BY <3>1, UnlinkEmpties
    <3> QED  BY <2>1, <3>1, <3>2 DEF PageShape, launchVars
  <2>3. CASE ~SaveNowResolved
    <3>1. SaveNow /\ fs' = fs /\ (saving # None \/ CanStart)
      BY <1>3, <2>3 DEF ClickClear, SaveNowResolved, CanStart
    <3> QED  BY <2>1, <3>1, SaveNowStarts DEF PageShape, launchVars
  <2> QED  BY <2>2, <2>3
<1>4. CASE ClickImport
  BY <1>4 DEF ClickImport, PageShape, fileVars, launchVars, jobVars
<1>5. CASE ClickReturn
  <2>1. UNCHANGED <<fileVars, stage, recipe, main, alive, launch, clearing>> /\ timer' = FALSE
    BY <1>5 DEF ClickReturn
  <2>2. CASE SaveNowResolved
    BY <1>5, <2>1, <2>2 DEF ClickReturn, PageShape, fileVars
  <2>3. CASE ~SaveNowResolved
    <3>1. SaveNow /\ (saving # None \/ CanStart)
      BY <1>5, <2>3 DEF ClickReturn, SaveNowResolved, CanStart
    <3> QED  BY <2>1, <3>1, SaveNowStarts DEF PageShape, fileVars
  <2> QED  BY <2>2, <2>3
<1>6. ASSUME NEW r \in Recipes, LaunchStart(r) PROVE PageShape'
  BY <1>6, SavesAssumption DEF LaunchStart, PageShape, fileVars, jobVars
<1>7. CASE LoadSaves
  BY <1>7 DEF LoadSaves, PageShape, fileVars, jobVars
<1>8. CASE PrepareFails
  BY <1>8 DEF PrepareFails, PageShape, fileVars, jobVars
<1>9. CASE PrepareAndStart
  <2>1. recipe \in Recipes /\ recipe # None /\ ~main
    BY <1>9 DEF PrepareAndStart, PageShape, Types
  <2>2. /\ \A r \in Recipes \ {recipe} : fs'[r] = fs[r]
        /\ dirs' = dirs \cup {recipe} /\ launch' = recipe /\ UNCHANGED <<timer, saving, clearing, returning>>
        /\ \/ main' = TRUE /\ alive' = TRUE /\ stage' = "booting"
           \/ stage' = "idle" /\ UNCHANGED <<main, alive>>
    BY <1>9, <2>1 DEF PrepareAndStart, Types, jobVars
  <2> QED  BY <2>1, <2>2 DEF PageShape
<1>10. CASE Boots \/ BootFails \/ StartTimer \/ EngineFails
  BY <1>10 DEF Boots, BootFails, StartTimer, EngineFails, PageShape, fileVars, jobVars
<1>11. ASSUME NEW s \in Slots, GameSaves(s) PROVE PageShape'
  <2>1. launch \in dirs /\ launch \in Recipes
    BY <1>11 DEF GameSaves, PageShape, Types
  <2>2. \A r \in Recipes \ {launch} : fs'[r] = fs[r]
    BY <1>11, <2>1 DEF GameSaves, Types
  <2>3. UNCHANGED <<dirs, launchVars, jobVars>>
    BY <1>11 DEF GameSaves
  <2> QED  BY <2>1, <2>2, <2>3 DEF PageShape, launchVars, jobVars
<1>12. CASE Commit
  <2>1. queue # << >> /\ UNCHANGED <<dirs, launchVars>>
    BY <1>12 DEF Commit
  <2>2. CASE First.by = "job"
    <3>1. saving' = None /\ GoOn(Tail(queue))
      BY <1>12, <2>2 DEF Commit, Settled
    <3>2. /\ clearing' = FALSE /\ returning' # "saving"
          /\ (fs' = fs /\ restored' = restored) \/ \E r \in Recipes : Unlink(r)
      BY <2>1, <3>1, Settling
    <3>3. \A q \in Recipes, s \in Slots : fs'[q][s] # 0 => fs[q][s] # 0
      BY <3>2, UnlinkEmpties
    <3> QED  BY <2>1, <3>1, <3>2, <3>3 DEF PageShape, launchVars
  <2>3. CASE First.by # "job"
    BY <1>12, <2>1, <2>3 DEF Commit, PageShape, launchVars, jobVars
  <2> QED  BY <2>2, <2>3
<1>13. CASE Loads
  <2>1. queue # << >> /\ First.by = "load" /\ stage' = "loaded"
        /\ UNCHANGED <<fileVars, recipe, main, alive, launch, timer, jobVars>>
    BY <1>13 DEF Loads
  <2>2. First = queue[1] /\ 1 \in Waiting
    BY <2>1, TailAt DEF Types, First, Waiting
  <2>3. stage = "loading"
    BY <2>1, <2>2 DEF QueueShape
  <2> QED  BY <2>1, <2>3 DEF PageShape, fileVars, jobVars
<1>14. CASE Leaves
  BY <1>14, Nothing DEF Leaves, PageShape
<1>15. CASE Aborts
  <2>1. UNCHANGED <<fileVars, main, alive, launch, timer>>
    BY <1>15 DEF Aborts
  <2>2. \/ saving' = None /\ clearing' = FALSE /\ returning' # "saving"
        \/ saving' = saving /\ clearing' = clearing /\ returning' \in {returning, "no"}
    BY <1>15 DEF Aborts, Fails, jobVars
  <2>3. stage' = "idle" \/ UNCHANGED <<stage, recipe>>
    BY <1>15 DEF Aborts
  <2> QED  BY <2>1, <2>2, <2>3 DEF PageShape, fileVars
<1>16. CASE UNCHANGED vars
  BY <1>16 DEF vars, fileVars, launchVars, jobVars, PageShape
<1> QED
  BY <1>1, <1>2, <1>3, <1>4, <1>5, <1>6, <1>7, <1>8, <1>9, <1>10, <1>11, <1>12, <1>13, <1>14,
     <1>15, <1>16 DEF Next, Page, Database, Reload, Crash

-----------------------------------------------------------------------------
(* What waits in the queue.                                                *)

\* A button's transaction, e.
ButtonAdds(e) ==
    /\ Len(queue) < MaxQueue /\ queue' = Append(queue, e)
    /\ e \in Transaction /\ e.by # "job"
    /\ e.by # "workspace" => e.to \in Recipes
    /\ e.by # "clear" => e.upTo = 0
    /\ \/ e.by # "load" /\ UNCHANGED <<stage, recipe>>
       \/ e.by = "load" /\ stage = "attempted" /\ stage' = "loading"
          /\ e.to = recipe /\ recipe' = recipe

LEMMA ButtonKeepsQueueShape ==
    ASSUME Types, QueueShape, NEW e, ButtonAdds(e), saving' = saving
    PROVE  QueueShape'
<1>1. /\ queue' \in Seq(Transaction) /\ Len(queue) \in Nat /\ Len(queue') = Len(queue) + 1
      /\ \A i \in 1..Len(queue) : queue'[i] = queue[i]
      /\ queue'[Len(queue) + 1] = e
      /\ 1..Len(queue') = 1..Len(queue) \cup {Len(queue) + 1}
  BY AppendAt DEF Types, ButtonAdds
<1>2. Len(queue') <= MaxQueue
  BY <1>1, SavesAssumption DEF ButtonAdds
<1>3. HasPut' <=> HasPut
  BY DEF HasPut
<1>4. HasPut' => \E j \in Waiting' : JobAt(j)'
  <2>1. SUFFICES ASSUME HasPut, NEW j \in Waiting, JobAt(j) PROVE j \in Waiting' /\ JobAt(j)'
    BY <1>3 DEF QueueShape
  <2> QED  BY <1>1, <1>2, <2>1 DEF JobAt, Waiting, ButtonAdds
<1>5. ~HasPut' => /\ Len(queue') <= MaxQueue + 1
                  /\ \A i \in Waiting' : queue'[i].by # "job"
  BY <1>1, <1>2, <1>3, SavesAssumption DEF QueueShape, Waiting, ButtonAdds
<1>6. \A i \in Waiting' :
        /\ queue'[i].by # "workspace" => queue'[i].to \in Recipes
        /\ queue'[i].by # "clear" => queue'[i].upTo = 0
        /\ queue'[i].by = "load" => stage' = "loading" /\ queue'[i].to = recipe'
  BY <1>1 DEF QueueShape, Waiting, ButtonAdds
<1>7. \A i, j \in Waiting' : queue'[i].by = "load" /\ queue'[j].by = "load" => i = j
  <2>1. e.by = "load" => \A i \in Waiting : queue[i].by # "load"
    BY DEF ButtonAdds, QueueShape
  <2> QED  BY <1>1, <2>1 DEF QueueShape, Waiting
<1> QED  BY <1>1, <1>2, <1>4, <1>5, <1>6, <1>7, SavesAssumption DEF QueueShape

\* A job goes on: it has nothing in the queue yet, and perhaps puts.
JobGoesOn ==
    /\ ~HasPut /\ saving' \in Job /\ saving'.of \in Recipes
    /\ \/ queue' = queue /\ ~saving'.put
       \/ queue' = Append(queue, Put("job", saving'.of, saving'.got)) /\ saving'.put
    /\ UNCHANGED <<stage, recipe>>

LEMMA JobKeepsQueueShape ==
    ASSUME Types, QueueShape, JobGoesOn PROVE QueueShape'
<1>1. CASE queue' = queue /\ ~saving'.put
  <2>1. ~HasPut'
    BY <1>1 DEF HasPut
  <2>2. UNCHANGED <<stage, recipe>>
    BY DEF JobGoesOn
  <2> QED  BY <1>1, <2>1, <2>2 DEF JobGoesOn, QueueShape, Waiting
<1>2. CASE queue' = Append(queue, Put("job", saving'.of, saving'.got)) /\ saving'.put
  <2> DEFINE e == Put("job", saving'.of, saving'.got)
  <2>0. PICK n \in Nat : n = Len(queue) + 1
    BY DEF Types
  <2>1. /\ e \in Transaction /\ e.by = "job" /\ e.to = saving'.of /\ e.saves = saving'.got
        /\ e.upTo = 0 /\ e.to \in Recipes
    <3>1. e \in Transaction
      BY Putting DEF JobGoesOn, Job
    <3> QED  BY <3>1 DEF Put, JobGoesOn
  <2> HIDE DEF e
  <2>2. queue' = Append(queue, e)
    BY <1>2 DEF e
  <2>3. /\ queue' \in Seq(Transaction) /\ Len(queue) \in Nat /\ Len(queue') = n
        /\ \A i \in 1..Len(queue) : queue'[i] = queue[i]
        /\ queue'[n] = e /\ 1..Len(queue') = 1..Len(queue) \cup {n}
    BY <2>0, <2>1, <2>2, AppendAt DEF Types
  <2>4. Len(queue) <= MaxQueue + 1 /\ \A i \in Waiting : queue[i].by # "job"
    BY DEF QueueShape, JobGoesOn
  <2>5. JobAt(n)' /\ n \in Waiting'
    <3>1. n \in Waiting' /\ n = Len(queue')
      BY <2>3 DEF Waiting
    <3>2. queue'[n].by = "job" /\ queue'[n].to = saving'.of /\ queue'[n].saves = saving'.got
      BY <2>1, <2>3
    <3>3. \A i \in Waiting' : queue'[i].by = "job" => i = n
      BY <2>3, <2>4 DEF Waiting
    <3> QED  BY <3>1, <3>2, <3>3 DEF JobAt
  <2>6. HasPut'
    BY <1>2, JobAssumption DEF HasPut, JobGoesOn
  <2>7. Len(queue') <= MaxQueue + 2
    BY <2>0, <2>3, <2>4, SavesAssumption
  <2>8. UNCHANGED <<stage, recipe>>
    BY DEF JobGoesOn
  <2>9. \A i \in Waiting' :
         /\ queue'[i].by # "workspace" => queue'[i].to \in Recipes
         /\ queue'[i].by # "clear" => queue'[i].upTo = 0
         /\ queue'[i].by = "load" => stage' = "loading" /\ queue'[i].to = recipe'
    BY <2>1, <2>3, <2>8 DEF QueueShape, Waiting
  <2>10. \A i, j \in Waiting' : queue'[i].by = "load" /\ queue'[j].by = "load" => i = j
    BY <2>1, <2>3 DEF QueueShape, Waiting
  <2>11. \E j \in Waiting' : JobAt(j)'
    BY <2>5
  <2> QED  BY <2>6, <2>7, <2>9, <2>10, <2>11 DEF QueueShape
<1> QED  BY <1>1, <1>2 DEF JobGoesOn

\* The first transaction has run.
LEMMA ShiftKeepsLoads ==
    ASSUME Types, QueueShape, queue # << >>, Shifts,
           \/ UNCHANGED <<stage, recipe>>
           \/ queue[1].by = "load"
    PROVE  /\ \A i \in Waiting' :
                /\ queue'[i].by # "workspace" => queue'[i].to \in Recipes
                /\ queue'[i].by # "clear" => queue'[i].upTo = 0
                /\ queue'[i].by = "load" => stage' = "loading" /\ queue'[i].to = recipe'
           /\ \A i, j \in Waiting' : queue'[i].by = "load" /\ queue'[j].by = "load" => i = j
           /\ \A i \in Waiting' : queue'[i].by = "job" => i + 1 \in Waiting /\ queue'[i] = queue[i + 1]
<1>1. Len(queue) \in Nat \ {0} /\ Len(queue') \in Nat /\ 1 \in Waiting
  BY DEF Types, Shifts, Waiting
<1>2. \A i \in Waiting' : Kept(i) => i + 1 \in Waiting /\ i + 1 # 1 /\ queue'[i] = queue[i + 1]
  BY <1>1 DEF Kept, Waiting
<1>3. \A i \in Waiting' : Added(i) =>
        /\ queue'[i].by \notin {"load", "job"}
        /\ queue'[i].by # "workspace" => queue'[i].to \in Recipes
        /\ queue'[i].by # "clear" => queue'[i].upTo = 0
  BY Clearing, Working DEF Added
<1>4. \A i \in Waiting' : Kept(i) \/ Added(i)
  BY DEF Shifts, Waiting
<1>5. queue[1].by = "load" => \A i \in Waiting : i # 1 => queue[i].by # "load"
  BY <1>1 DEF QueueShape
<1>6. ASSUME NEW i \in Waiting'
      PROVE  /\ queue'[i].by # "workspace" => queue'[i].to \in Recipes
             /\ queue'[i].by # "clear" => queue'[i].upTo = 0
             /\ queue'[i].by = "load" => stage' = "loading" /\ queue'[i].to = recipe'
             /\ queue'[i].by = "load" => Kept(i)
             /\ queue'[i].by = "job" => Kept(i)
  BY <1>2, <1>3, <1>4, <1>5 DEF QueueShape
<1>7. ASSUME NEW i \in Waiting', NEW j \in Waiting', queue'[i].by = "load", queue'[j].by = "load"
      PROVE  i = j
  <2>1. i + 1 = j + 1
    BY <1>2, <1>6, <1>7 DEF QueueShape
  <2>2. i \in Int /\ j \in Int
    BY <1>1 DEF Waiting
  <2> QED  BY <2>1, <2>2
<1> QED  BY <1>2, <1>6, <1>7

LEMMA JobFirst ==
    ASSUME Types, QueueShape, queue # << >>, queue[1].by = "job"
    PROVE  HasPut /\ JobAt(1) /\ Len(queue) <= MaxQueue
<1>1. Len(queue) \in Nat \ {0} /\ 1 \in Waiting
  BY DEF Types, Waiting
<1>2. HasPut /\ \E j \in Waiting : JobAt(j)
  BY <1>1 DEF QueueShape
<1>3. JobAt(1)
  BY <1>1, <1>2 DEF JobAt
<1> QED  BY <1>1, <1>2, <1>3, SavesAssumption DEF JobAt

LEMMA JobGone ==
    ASSUME Types, QueueShape, queue # << >>, Shifts, queue[1].by = "job", saving' = None,
           UNCHANGED <<stage, recipe>>
    PROVE  QueueShape'
<1>1. HasPut /\ JobAt(1) /\ Len(queue) <= MaxQueue
  BY JobFirst
<1>2. Len(queue) \in Nat \ {0} /\ Len(queue') \in Nat /\ Len(queue') <= MaxQueue + 1
  BY <1>1, SavesAssumption DEF Types, Shifts
<1>3. \A i \in Waiting' : queue'[i].by # "job"
  <2>1. \A i \in Waiting' : i + 1 # 1
    BY <1>2 DEF Waiting
  <2> QED  BY <1>1, <2>1, ShiftKeepsLoads DEF JobAt
<1>4. ~HasPut'
  BY DEF HasPut
<1> QED  BY <1>2, <1>3, <1>4, ShiftKeepsLoads, SavesAssumption DEF QueueShape

LEMMA OtherGone ==
    ASSUME Types, QueueShape, queue # << >>, queue' = Tail(queue), queue[1].by # "job",
           saving' = saving, UNCHANGED <<stage, recipe>> \/ queue[1].by = "load"
    PROVE  QueueShape'
<1>1. /\ Shifts /\ Len(queue') = Len(queue) - 1 /\ \A i \in 1..Len(queue') : Kept(i)
      /\ Len(queue) \in Nat \ {0}
  BY Dropping DEF Types
<1>2. HasPut' <=> HasPut
  BY DEF HasPut
<1>3. ASSUME HasPut, NEW j \in Waiting, JobAt(j) PROVE j - 1 \in Waiting' /\ JobAt(j - 1)'
  <2>1. j \in 2..Len(queue)
    <3>1. j # 1
      BY <1>3 DEF JobAt
    <3> QED  BY <1>1, <3>1 DEF Waiting
  <2>2. j - 1 \in Waiting' /\ queue'[j - 1] = queue[j]
    BY <1>1, <2>1 DEF Waiting, Kept
  <2>3. \A i \in Waiting' : queue'[i].by = "job" => i = j - 1
    <3>1. ASSUME NEW i \in Waiting', queue'[i].by = "job" PROVE i = j - 1
      <4>1. i + 1 = j
        BY <1>1, <1>3, <3>1, ShiftKeepsLoads DEF JobAt
      <4> QED  BY <1>1, <4>1 DEF Waiting
    <3> QED  BY <3>1
  <2>4. j - 1 = Len(queue') \/ Len(queue') <= MaxQueue
    BY <1>1, <1>3, SavesAssumption DEF JobAt, Waiting
  <2> QED  BY <1>3, <2>2, <2>3, <2>4 DEF JobAt
<1>4. ASSUME ~HasPut PROVE Len(queue') <= MaxQueue + 1 /\ \A i \in Waiting' : queue'[i].by # "job"
  <2>1. Len(queue) <= MaxQueue + 1 /\ \A i \in Waiting : queue[i].by # "job"
    BY <1>4 DEF QueueShape
  <2>2. \A i \in Waiting' : queue'[i].by # "job"
    BY <1>1, <2>1, ShiftKeepsLoads
  <2>3. Len(queue') <= MaxQueue + 1
    BY <1>1, <2>1, SavesAssumption
  <2> QED  BY <2>2, <2>3
<1>5. Len(queue') <= MaxQueue + 2
  BY <1>1, SavesAssumption DEF QueueShape
<1> QED  BY <1>1, <1>2, <1>3, <1>4, <1>5, ShiftKeepsLoads DEF QueueShape

\* Steps that leave the queue and the job alone, and load no saves.
Calm ==
    /\ UNCHANGED <<disk, queue, fs, dirs, saving, made, cleared, restored, main>>
    /\ \/ UNCHANGED <<stage, recipe, loaded>>
       \/ /\ stage # "loading" /\ stage' \notin {"loading", "loaded"}
          /\ loaded' \in {loaded, NoSaves}

\* saveNow begins a job.
Begins ==
    /\ StartJob /\ saving = None /\ launch # None
    /\ UNCHANGED <<disk, fs, dirs, made, cleared, restored, main, stage, recipe, loaded>>

\* Clear, or Return, with no job to wait for.
ClearsNow ==
    /\ \E r \in Recipes : Unlink(r) /\ ButtonAdds(Clear(r))
    /\ launch = None /\ saving = None
    /\ UNCHANGED <<disk, dirs, saving, made, cleared, main, stage, recipe, loaded>>
ReturnsNow ==
    /\ ButtonAdds(Workspace)
    /\ UNCHANGED <<disk, fs, dirs, saving, made, cleared, restored, main, stage, recipe, loaded>>
Imports ==
    /\ made < MaxMade /\ made' = made + 1
    /\ \E r \in Recipes, saves \in [Slots -> {0, made + 1}] :
         ButtonAdds(Put("import", r, saves)) /\ restored' = restored \cup {r}
    /\ UNCHANGED <<disk, fs, dirs, saving, cleared, main, stage, recipe, loaded>>
Asks ==
    /\ ButtonAdds(Put("load", recipe, NoSaves)) /\ recipe # None /\ stage' = "loading"
    /\ UNCHANGED <<disk, fs, dirs, saving, made, cleared, restored, main, loaded, recipe>>

LEMMA Kinds ==
    Types /\ QueueShape /\ PageShape /\ [Next]_vars =>
        \/ Calm \/ Begins \/ JobReads \/ ClearsNow \/ ReturnsNow \/ Imports \/ Asks
        \/ PrepareAndStart \/ \E s \in Slots : GameSaves(s)
        \/ Commit \/ Loads \/ Leaves \/ Aborts
<1> SUFFICES ASSUME Types, QueueShape, PageShape, [Next]_vars
             PROVE  \/ Calm \/ Begins \/ JobReads \/ ClearsNow \/ ReturnsNow \/ Imports \/ Asks
                    \/ PrepareAndStart \/ \E s \in Slots : GameSaves(s)
                    \/ Commit \/ Loads \/ Leaves \/ Aborts
  OBVIOUS
<1>1. ASSUME SaveNow,
             UNCHANGED <<disk, fs, dirs, made, cleared, restored, main, stage, recipe, loaded>>
      PROVE  Calm \/ Begins
  BY <1>1, SaveNowStarts DEF Calm, Begins
<1>2. CASE TimerSaves \/ HiddenSaves
  BY <1>1, <1>2 DEF TimerSaves, HiddenSaves, fileVars, launchVars, ghosts
<1>3. CASE ClickClear
  <2>1. UNCHANGED <<disk, dirs, launchVars, made, cleared>> /\ Len(queue) < MaxQueue
    BY <1>3 DEF ClickClear
  <2>2. CASE SaveNowResolved
    <3>1. PICK r \in Recipes : Unlink(r) /\ queue' = Append(queue, Clear(r)) /\ UNCHANGED saving
      BY <1>3, <2>2 DEF ClickClear
    <3>2. ButtonAdds(Clear(r))
      BY <2>1, <3>1, Clearing DEF ButtonAdds, launchVars
    <3> QED  BY <2>1, <2>2, <3>1, <3>2 DEF ClearsNow, SaveNowResolved, launchVars
  <2>3. CASE ~SaveNowResolved
    <3>1. SaveNow /\ UNCHANGED <<fs, restored>>
      BY <1>3, <2>3 DEF ClickClear
    <3> QED  BY <1>1, <2>1, <3>1 DEF launchVars
  <2> QED  BY <2>2, <2>3
<1>4. CASE ClickImport
  <2>1. /\ Len(queue) < MaxQueue /\ made < MaxMade /\ made' = made + 1
        /\ UNCHANGED <<disk, fileVars, launchVars, jobVars, cleared>>
    BY <1>4 DEF ClickImport
  <2>2. PICK r \in Recipes, saves \in [Slots -> {0, made + 1}] :
          queue' = Append(queue, Put("import", r, saves)) /\ restored' = restored \cup {r}
    BY <1>4 DEF ClickImport
  <2>3. saves \in Saves
    BY <2>1, SavesAssumption DEF Saves, Types
  <2>4. Put("import", r, saves) \in Transaction
    BY <2>3, Putting
  <2>5. ButtonAdds(Put("import", r, saves))
    BY <2>1, <2>2, <2>4 DEF ButtonAdds, Put, launchVars
  <2> QED  BY <2>1, <2>2, <2>5 DEF Imports, fileVars, launchVars, jobVars
<1>5. CASE ClickReturn
  <2>1. UNCHANGED <<disk, fileVars, stage, recipe, loaded, main, made, ghosts>>
        /\ Len(queue) < MaxQueue
    BY <1>5 DEF ClickReturn
  <2>2. CASE SaveNowResolved
    <3>1. queue' = Append(queue, Workspace) /\ UNCHANGED saving
      BY <1>5, <2>2 DEF ClickReturn
    <3>2. ButtonAdds(Workspace)
      BY <2>1, <3>1, Working DEF ButtonAdds
    <3> QED  BY <2>1, <3>1, <3>2 DEF ReturnsNow, fileVars, ghosts
  <2>3. CASE ~SaveNowResolved
    BY <1>1, <1>5, <2>1, <2>3 DEF ClickReturn, fileVars, ghosts
  <2> QED  BY <2>2, <2>3
<1>6. CASE LoadSaves
  <2>1. recipe \in Recipes /\ recipe # None /\ Put("load", recipe, NoSaves) \in Transaction
    BY <1>6, Putting, Nothing DEF LoadSaves, PageShape, Types
  <2>2. ButtonAdds(Put("load", recipe, NoSaves))
    BY <1>6, <2>1 DEF LoadSaves, ButtonAdds, Put
  <2> QED  BY <1>6, <2>1, <2>2 DEF LoadSaves, Asks, fileVars, jobVars, ghosts
<1>7. ASSUME NEW r \in Recipes, LaunchStart(r) PROVE Calm
  BY <1>7 DEF LaunchStart, Calm, fileVars, jobVars, ghosts
<1>8. CASE PrepareFails
  BY <1>8 DEF PrepareFails, Calm, fileVars, jobVars, ghosts
<1>9. CASE Boots \/ BootFails \/ StartTimer \/ EngineFails
  BY <1>9 DEF Boots, BootFails, StartTimer, EngineFails, Calm, fileVars, jobVars, ghosts
<1>10. CASE UNCHANGED vars
  BY <1>10 DEF vars, Calm, fileVars, launchVars, jobVars, ghosts
<1> QED
  BY <1>2, <1>3, <1>4, <1>5, <1>6, <1>7, <1>8, <1>9, <1>10 DEF Next, Page, Database, Reload, Crash

LEMMA NextKeepsQueueShape == Types /\ QueueShape /\ PageShape /\ [Next]_vars => QueueShape'
<1> SUFFICES ASSUME Types, QueueShape, PageShape, [Next]_vars PROVE QueueShape'
  OBVIOUS
<1>1. CASE Calm
  <2>1. UNCHANGED <<queue, saving>> /\ (UNCHANGED <<stage, recipe>> \/ stage # "loading")
    BY <1>1 DEF Calm
  <2> QED  BY <2>1 DEF QueueShape, Waiting, HasPut, JobAt
<1>2. CASE Begins
  <2>1. ~HasPut /\ launch \in Recipes
    BY <1>2 DEF Begins, HasPut, Types
  <2>2. JobGoesOn
    BY <1>2, <2>1, Starting DEF Begins, JobGoesOn
  <2> QED  BY <2>2, JobKeepsQueueShape
<1>3. CASE JobReads
  <2>1. UNCHANGED <<stage, recipe>>
    BY <1>3 DEF JobReads, launchVars
  <2>2. JobGoesOn
    BY <1>3, <2>1, Reading DEF JobGoesOn, HasPut, Job
  <2> QED  BY <2>2, JobKeepsQueueShape
<1>4. CASE ClearsNow \/ ReturnsNow \/ Imports \/ Asks
  BY <1>4, ButtonKeepsQueueShape DEF ClearsNow, ReturnsNow, Imports, Asks
<1>5. ASSUME PrepareAndStart \/ \E s \in Slots : GameSaves(s) PROVE QueueShape'
  <2>1. UNCHANGED <<queue, saving>> /\ (stage # "loading" \/ UNCHANGED <<stage, recipe>>)
    BY <1>5 DEF PrepareAndStart, GameSaves, jobVars, launchVars
  <2> QED  BY <2>1 DEF QueueShape, Waiting, HasPut, JobAt
<1>6. ASSUME queue # << >> PROVE First = queue[1]
  BY <1>6, TailAt DEF Types, First
<1>7. CASE Commit
  <2>1. queue # << >> /\ UNCHANGED <<stage, recipe>>
    BY <1>7 DEF Commit, launchVars
  <2>2. CASE First.by = "job"
    <3>1. saving' = None /\ GoOn(Tail(queue))
      BY <1>7, <2>2 DEF Commit, Settled
    <3> QED  BY <1>6, <2>1, <2>2, <3>1, Settling, JobGone
  <2>3. CASE First.by # "job"
    BY <1>6, <1>7, <2>1, <2>3, OtherGone DEF Commit, jobVars
  <2> QED  BY <2>2, <2>3
<1>8. CASE Loads
  BY <1>6, <1>8, OtherGone DEF Loads, jobVars
<1>9. CASE Leaves
  BY <1>9, SavesAssumption DEF Leaves, QueueShape, Waiting, HasPut
<1>10. CASE Aborts
  <2>1. queue # << >> /\ queue' = Tail(queue)
    BY <1>10 DEF Aborts
  <2>2. CASE First.by = "job"
    <3>1. saving' = None /\ UNCHANGED <<stage, recipe>>
      BY <1>10, <2>2 DEF Aborts, Fails
    <3> QED  BY <1>6, <2>1, <2>2, <3>1, Dropping, JobGone
  <2>3. CASE First.by # "job"
    <3>1. saving' = saving /\ (UNCHANGED <<stage, recipe>> \/ First.by = "load")
      BY <1>10, <2>3 DEF Aborts, jobVars
    <3> QED  BY <1>6, <2>1, <2>3, <3>1, OtherGone
  <2> QED  BY <2>2, <2>3
<1> QED  BY <1>1, <1>2, <1>3, <1>4, <1>5, <1>7, <1>8, <1>9, <1>10, Kinds

-----------------------------------------------------------------------------
(* Nothing is newer than the newest version.                               *)

LEMMA Numbers ==
    ASSUME Types
    PROVE  /\ made \in Nat
           /\ \A r \in Recipes : cleared[r] \in Nat
           /\ \A r \in Recipes, s \in Slots : disk[r][s] \in Nat /\ fs[r][s] \in Nat
           /\ \A s \in Slots : loaded[s] \in Nat
           /\ saving # None => \A s \in Slots : saving.got[s] \in Nat
           /\ \A i \in Waiting : queue[i].upTo \in Nat
           /\ \A i \in Waiting, s \in Slots : queue[i].saves[s] \in Nat
<1>1. 0..MaxMade \subseteq Nat
  BY SavesAssumption
<1>2. \A v \in Saves, s \in Slots : v[s] \in Nat
  BY <1>1 DEF Saves
<1>3. \A i \in Waiting : queue[i] \in Transaction
  BY DEF Types, Waiting
<1>4. \A i \in Waiting : queue[i].upTo \in Nat /\ queue[i].saves \in Saves
  BY <1>1, <1>3 DEF Transaction
<1>5. saving # None => saving.got \in Saves
  BY DEF Types, Job
<1> QED  BY <1>1, <1>2, <1>4, <1>5 DEF Types

LEMMA AppendAges ==
    ASSUME Types, QueueAges, NEW e \in Transaction, queue' = Append(queue, e),
           made' \in Nat, made <= made', e.upTo <= made', \A s \in Slots : e.saves[s] <= made'
    PROVE  QueueAges'
<1>1. /\ Len(queue) \in Nat /\ Len(queue') = Len(queue) + 1
      /\ \A i \in 1..Len(queue) : queue'[i] = queue[i]
      /\ queue'[Len(queue) + 1] = e /\ 1..Len(queue') = 1..Len(queue) \cup {Len(queue) + 1}
  BY AppendAt DEF Types
<1> QED  BY <1>1, Numbers DEF QueueAges, Waiting

LEMMA ShiftAges ==
    ASSUME Types, QueueAges, queue # << >>, Shifts, made' = made
    PROVE  QueueAges'
<1> SUFFICES ASSUME NEW i \in Waiting'
             PROVE  queue'[i].upTo <= made /\ \A s \in Slots : queue'[i].saves[s] <= made
  BY DEF QueueAges
<1>0. Kept(i) \/ Added(i)
  BY DEF Shifts, Waiting
<1>1. CASE Kept(i)
  <2>1. i + 1 \in Waiting
    BY <1>1 DEF Kept, Waiting, Types
  <2> QED  BY <1>1, <2>1 DEF Kept, QueueAges
<1>2. CASE queue'[i] = Workspace
  BY <1>2, Working, Nothing, Numbers
<1>3. ASSUME NEW r \in Recipes, queue'[i] = Clear(r)
      PROVE  queue'[i].upTo <= made /\ \A s \in Slots : queue'[i].saves[s] <= made
  BY <1>3, Clearing, Nothing, Numbers
<1> QED  BY <1>0, <1>1, <1>2, <1>3 DEF Added

LEMMA NextKeepsAges == Types /\ QueueShape /\ PageShape /\ Ages /\ [Next]_vars => Ages'
<1> SUFFICES ASSUME Types, QueueShape, PageShape, Ages, [Next]_vars PROVE Ages'
  OBVIOUS
<1>0. QueueAges
  BY DEF Ages
<1>a. \A s \in Slots : NoSaves[s] <= made
  BY Nothing, Numbers
<1>1. CASE Calm
  <2>1. UNCHANGED <<disk, queue, fs, saving, made, cleared>> /\ loaded' \in {loaded, NoSaves}
    BY <1>1 DEF Calm
  <2> QED  BY <1>a, <2>1 DEF Ages, QueueAges, Waiting
<1>2. ASSUME UNCHANGED <<disk, fs, made, cleared, loaded>>,
             saving' \in Job, \A s \in Slots : saving'.got[s] <= made,
             \/ queue' = queue
             \/ queue' = Append(queue, Put("job", saving'.of, saving'.got))
      PROVE  Ages'
  <2>1. CASE queue' = queue
    BY <1>0, <1>2, <2>1 DEF Ages, QueueAges, Waiting
  <2>2. CASE queue' = Append(queue, Put("job", saving'.of, saving'.got))
    <3> DEFINE e == Put("job", saving'.of, saving'.got)
    <3>1. e \in Transaction /\ e.upTo = 0 /\ e.saves = saving'.got
      BY <1>2, Putting DEF Put, Job
    <3> HIDE DEF e
    <3>2. queue' = Append(queue, e)
      BY <2>2 DEF e
    <3>3. QueueAges'
      BY <1>0, <1>2, <3>1, <3>2, AppendAges, Numbers
    <3> QED  BY <1>2, <3>3 DEF Ages
  <2> QED  BY <1>2, <2>1, <2>2
<1>3. CASE Begins
  <2>1. \A s \in Slots : saving'.got[s] <= made
    <3>1. launch \in Recipes /\ \A s \in Slots : saving'.got[s] \in {0, fs[launch][s]}
      BY <1>3, Starting DEF Begins, Types
    <3> QED  BY <3>1, Numbers DEF Ages
  <2> QED  BY <1>2, <1>3, <2>1, Starting DEF Begins
<1>4. CASE JobReads
  <2>1. saving \in Job /\ saving # None /\ saving.of \in Recipes
        /\ \A s \in Slots : saving'.got[s] \in {saving.got[s], fs[saving.of][s]}
    BY <1>4, Reading DEF Job
  <2>2. \A s \in Slots : saving'.got[s] <= made
    BY <2>1 DEF Ages
  <2>3. UNCHANGED <<disk, fs, made, cleared, loaded>>
    BY <1>4 DEF JobReads, fileVars, launchVars, ghosts
  <2> QED  BY <1>2, <1>4, <2>2, <2>3, Reading
<1>5. ASSUME NEW r \in Recipes, Unlink(r) PROVE \A q \in Recipes, s \in Slots : fs'[q][s] <= made
  <2>1. \A q \in Recipes : fs'[q] \in {fs[q], NoSaves}
    BY <1>5, Unlinking
  <2> QED  BY <1>a, <2>1 DEF Ages
<1>6. CASE ClearsNow
  <2>1. PICK r \in Recipes : Unlink(r) /\ ButtonAdds(Clear(r))
    BY <1>6 DEF ClearsNow
  <2>2. QueueAges'
    BY <1>0, <1>6, <2>1, AppendAges, Clearing, Nothing, Numbers DEF ClearsNow, ButtonAdds
  <2> QED  BY <1>5, <1>6, <2>1, <2>2 DEF Ages, ClearsNow
<1>7. CASE ReturnsNow
  <2>1. QueueAges'
    BY <1>0, <1>7, AppendAges, Working, Nothing, Numbers DEF ReturnsNow, ButtonAdds
  <2> QED  BY <1>7, <2>1 DEF Ages, ReturnsNow
<1>8. CASE Imports
  <2>1. PICK r \in Recipes, saves \in [Slots -> {0, made + 1}] : ButtonAdds(Put("import", r, saves))
    BY <1>8 DEF Imports
  <2>2. made' = made + 1 /\ made \in Nat
    BY <1>8, Numbers DEF Imports
  <2>3. /\ Put("import", r, saves).upTo = 0 /\ Put("import", r, saves).saves = saves
        /\ \A s \in Slots : saves[s] \in {0, made + 1}
    BY DEF Put
  <2>4. QueueAges'
    BY <1>0, <2>1, <2>2, <2>3, AppendAges DEF ButtonAdds
  <2>5. UNCHANGED <<disk, fs, saving, cleared, loaded>>
    BY <1>8 DEF Imports
  <2> QED  BY <2>2, <2>4, <2>5, Numbers DEF Ages
<1>9. CASE Asks
  <2>1. Put("load", recipe, NoSaves).upTo = 0 /\ Put("load", recipe, NoSaves).saves = NoSaves
    BY DEF Put
  <2>2. QueueAges'
    BY <1>0, <1>9, <1>a, <2>1, AppendAges, Numbers DEF Asks, ButtonAdds
  <2> QED  BY <1>9, <2>2 DEF Ages, Asks
<1>10. CASE PrepareAndStart
  <2>1. /\ fs' = [fs EXCEPT ![recipe] = WithLoaded(@)] /\ loaded' = NoSaves
        /\ UNCHANGED <<disk, queue, saving, made, cleared>> /\ recipe \in Recipes
    BY <1>10 DEF PrepareAndStart, jobVars, ghosts, PageShape, Types
  <2>2. \A r \in Recipes, s \in Slots : fs'[r][s] \in {fs[r][s], loaded[s]}
    BY <2>1 DEF WithLoaded, Types
  <2> QED  BY <1>0, <1>a, <2>1, <2>2 DEF Ages, QueueAges, Waiting
<1>11. ASSUME NEW s \in Slots, GameSaves(s) PROVE Ages'
  <2>1. /\ made' = made + 1 /\ fs' = [fs EXCEPT ![launch][s] = made + 1]
        /\ UNCHANGED <<disk, queue, loaded, saving, cleared>> /\ made \in Nat
    BY <1>11, Numbers DEF GameSaves, launchVars, jobVars, ghosts
  <2>2. \A r \in Recipes, t \in Slots : fs'[r][t] \in {fs[r][t], made + 1}
    BY <2>1 DEF Types, Saves
  <2> QED  BY <1>0, <2>1, <2>2, Numbers DEF Ages, QueueAges, Waiting
<1>b. ASSUME queue # << >> PROVE First = queue[1] /\ 1 \in Waiting
  BY <1>b, TailAt DEF Types, First, Waiting
<1>12. CASE Commit
  <2>1. /\ queue # << >> /\ First.by # "workspace" /\ First.to \in Recipes
        /\ disk' = [disk EXCEPT ![First.to] = First.saves]
        /\ cleared' = [cleared EXCEPT ![First.to] = IF First.upTo > @ THEN First.upTo ELSE @]
        /\ UNCHANGED <<loaded, made>>
    BY <1>12, <1>b DEF Commit, launchVars, QueueShape
  <2>2. First.upTo <= made /\ \A s \in Slots : First.saves[s] <= made
    BY <1>0, <1>b, <2>1 DEF QueueAges
  <2>3. \A r \in Recipes : disk'[r] \in {disk[r], First.saves} /\ cleared'[r] \in {cleared[r], First.upTo}
    BY <2>1 DEF Types
  <2>4. CASE First.by = "job"
    <3>1. saving' = None /\ GoOn(Tail(queue))
      BY <1>12, <2>4 DEF Commit, Settled
    <3>2. Shifts /\ (fs' = fs \/ \E r \in Recipes : Unlink(r))
      BY <2>1, <3>1, Settling
    <3>3. \A q \in Recipes, s \in Slots : fs'[q][s] <= made
      BY <1>5, <3>2 DEF Ages
    <3>4. QueueAges'
      BY <1>0, <2>1, <3>2, ShiftAges
    <3> QED  BY <2>1, <2>2, <2>3, <3>1, <3>3, <3>4 DEF Ages
  <2>5. CASE First.by # "job"
    <3>1. queue' = Tail(queue) /\ UNCHANGED <<fs, saving>>
      BY <1>12, <2>5 DEF Commit, jobVars
    <3>2. QueueAges'
      BY <1>0, <2>1, <3>1, Dropping, ShiftAges
    <3> QED  BY <2>1, <2>2, <2>3, <3>1, <3>2 DEF Ages
  <2> QED  BY <2>4, <2>5
<1>13. CASE Loads
  <2>1. /\ queue # << >> /\ queue' = Tail(queue) /\ First.by = "load"
        /\ loaded' = disk[First.to] /\ UNCHANGED <<disk, fs, saving, made, cleared>>
    BY <1>13 DEF Loads, fileVars, jobVars, ghosts
  <2>2. First.to \in Recipes
    BY <1>b, <2>1 DEF QueueShape
  <2>3. QueueAges'
    BY <1>0, <2>1, Dropping, ShiftAges
  <2> QED  BY <2>1, <2>2, <2>3 DEF Ages
<1>14. CASE Leaves
  <2>1. /\ queue' = << >> /\ fs' = [r \in Recipes |-> NoSaves] /\ loaded' = NoSaves
        /\ saving' = None /\ UNCHANGED <<disk, made, cleared>>
    BY <1>14 DEF Leaves
  <2>2. QueueAges'
    BY <2>1 DEF QueueAges, Waiting
  <2> QED  BY <1>a, <2>1, <2>2 DEF Ages
<1>15. CASE Aborts
  <2>1. /\ queue # << >> /\ queue' = Tail(queue)
        /\ UNCHANGED <<disk, fs, loaded, made, cleared>> /\ saving' \in {saving, None}
    BY <1>15 DEF Aborts, Fails, jobVars, fileVars, ghosts
  <2>2. QueueAges'
    BY <1>0, <2>1, Dropping, ShiftAges
  <2> QED  BY <2>1, <2>2 DEF Ages
<1> QED
  BY <1>1, <1>3, <1>4, <1>6, <1>7, <1>8, <1>9, <1>10, <1>11, <1>12, <1>13, <1>14, <1>15, Kinds

-----------------------------------------------------------------------------
(* What Clear has removed does not come back.                              *)

\* The step raises no bar for r: each was there, or is nought.
OldBars(r) ==
    /\ \/ cleared'[r] = cleared[r]
       \/ \E k \in Waiting : queue[k].to = r /\ queue[k].upTo = cleared'[r]
    /\ \A i \in Waiting' : queue'[i].to = r =>
         \/ queue'[i].upTo = 0
         \/ \E k \in Waiting : queue[k].to = r /\ queue[k].upTo = queue'[i].upTo

LEMMA OldBarsKeep ==
    ASSUME NEW r \in Recipes, NEW v \in Nat, Above(r, v), OldBars(r)
    PROVE  Above(r, v)'
  BY DEF Above, OldBars

LEMMA NewJobPurged ==
    ASSUME Types, JobPurged, saving' = saving, UNCHANGED cleared, \A r \in Recipes : OldBars(r)
    PROVE  JobPurged'
<1> SUFFICES ASSUME saving # None, ~saving.put, NEW s \in Slots
             PROVE  Above(saving.of, saving.got[s])'
  BY DEF JobPurged
<1>1. PICK r \in Recipes : r = saving.of
  BY DEF Types, Job
<1>2. PICK v \in Nat : v = saving.got[s]
  BY Numbers
<1>3. Above(r, v)
  BY <1>1, <1>2 DEF JobPurged
<1>4. Above(r, v)'
  BY <1>3, OldBarsKeep
<1> QED  BY <1>1, <1>2, <1>4

LEMMA NoughtAbove == \A r \in Recipes : Above(r, 0) /\ Above(r, 0)'
  BY DEF Above

LEMMA ClearsKeepFiles ==
    ASSUME Types, PageShape, FilesPurged, \A q \in Recipes : fs'[q] \in {fs[q], NoSaves},
           \A q \in Recipes : OldBars(q) \/ (Unlink(q) /\ ~StillHeld(q))
    PROVE  FilesPurged'
<1> SUFFICES ASSUME NEW q \in Recipes, NEW s \in Slots PROVE Above(q, fs[q][s])'
  BY DEF FilesPurged
<1>1. PICK v \in Nat : v = fs[q][s]
  BY Numbers
<1>2. PICK w : w = fs'[q][s]
  OBVIOUS
<1>3. w = v \/ w = 0
  BY <1>1, <1>2, Nothing
<1>4. CASE OldBars(q)
  <2>1. Above(q, v)'
    BY <1>1, <1>4, OldBarsKeep DEF FilesPurged
  <2>2. Above(q, w)'
    BY <1>3, <2>1, NoughtAbove
  <2> QED  BY <1>2, <2>2 DEF Above
<1>5. CASE Unlink(q) /\ ~StillHeld(q)
  <2>1. fs'[q] = IF launch = q THEN NoSaves ELSE fs[q]
    BY <1>5, Unlinking
  <2>2. launch = q \/ q \notin dirs
    BY <1>5 DEF StillHeld
  <2>3. w = 0
    BY <1>1, <1>2, <2>1, <2>2, Nothing DEF PageShape
  <2> QED  BY <1>2, <2>3 DEF Above
<1> QED  BY <1>4, <1>5

LEMMA ClearsKeepLoaded ==
    ASSUME Types, PageShape, LoadedPurged, stage' = "loaded" => UNCHANGED <<stage, recipe, loaded>>,
           \A q \in Recipes : OldBars(q) \/ (Unlink(q) /\ ~StillHeld(q))
    PROVE  LoadedPurged'
<1> SUFFICES ASSUME stage' = "loaded", NEW s \in Slots PROVE Above(recipe, loaded[s])'
  BY DEF LoadedPurged
<1>1. UNCHANGED <<stage, recipe, loaded>> /\ stage = "loaded"
  OBVIOUS
<1>2. PICK r \in Recipes : r = recipe
  BY <1>1 DEF PageShape, Types
<1>3. PICK v \in Nat : v = loaded[s]
  BY Numbers
<1>4. OldBars(r)
  BY <1>1, <1>2 DEF StillHeld
<1>5. Above(r, v)
  BY <1>1, <1>2, <1>3 DEF LoadedPurged
<1>6. Above(r, v)'
  BY <1>4, <1>5, OldBarsKeep
<1> QED  BY <1>1, <1>2, <1>3, <1>6

\* A transaction is put whose saves are above all bars, and which raises none
\* for a recipe that a launch is about to read.
Fits(e) ==
    /\ e \in Transaction /\ queue' = Append(queue, e) /\ cleared' = cleared
    /\ \A s \in Slots : e.saves[s] # 0 => Above(e.to, e.saves[s]) /\ e.upTo = 0
    /\ e.upTo # 0 => \A i \in Waiting : queue[i].by = "load" => queue[i].to # e.to

LEMMA AppendPurged ==
    ASSUME Types, QueuePurged, NEW e, Fits(e) PROVE QueuePurged'
<1>1. PICK n \in Nat : n = Len(queue) + 1
  BY DEF Types
<1>2. /\ Len(queue) \in Nat /\ Len(queue') = n
      /\ \A i \in Waiting : queue'[i] = queue[i]
      /\ queue'[n] = e /\ Waiting' = Waiting \cup {n}
      /\ \A i \in Waiting : i # n
  BY <1>1, AppendAt DEF Types, Fits, Waiting
<1>3. ASSUME NEW j \in Waiting', queue'[j].to \in Recipes, NEW s \in Slots, queue'[j].saves[s] # 0
      PROVE  /\ queue'[j].saves[s] > cleared'[queue'[j].to]
             /\ \A i \in 1..j : queue'[i].to = queue'[j].to => queue'[j].saves[s] > queue'[i].upTo
  <2>1. CASE j \in Waiting
    <3>1. \A i \in 1..j : i \in Waiting
      BY <1>2, <2>1 DEF Waiting
    <3> QED  BY <1>2, <1>3, <2>1, <3>1 DEF QueuePurged, Fits
  <2>2. CASE j = n
    <3>1. queue'[j] = e /\ Above(e.to, e.saves[s]) /\ e.upTo = 0
      BY <1>2, <1>3, <2>2 DEF Fits
    <3>2. e.saves[s] \in Nat \ {0}
      BY <1>3, <3>1, SavesAssumption DEF Fits, Transaction, Saves
    <3>3. \A i \in 1..j : i \in Waiting \/ i = n
      BY <1>1, <1>2, <2>2 DEF Waiting
    <3>4. /\ e.saves[s] > cleared[e.to]
          /\ \A i \in Waiting : queue[i].to = e.to => e.saves[s] > queue[i].upTo
      BY <3>1, <3>2 DEF Above
    <3>5. e.saves[s] > e.upTo /\ cleared' = cleared
      BY <3>1, <3>2 DEF Fits
    <3> QED  BY <1>2, <3>1, <3>3, <3>4, <3>5
  <2> QED  BY <1>2, <2>1, <2>2
<1>4. ASSUME NEW j \in Waiting', queue'[j].by = "load"
      PROVE  \A i \in j + 1..Len(queue') : queue'[i].to = queue'[j].to => queue'[i].upTo = 0
  <2>1. CASE j \in Waiting
    <3>1. \A i \in j + 1..Len(queue') : (i \in j + 1..Len(queue) /\ i \in Waiting) \/ i = n
      BY <1>1, <1>2, <2>1 DEF Waiting
    <3> QED  BY <1>2, <1>4, <2>1, <3>1 DEF QueuePurged, Fits
  <2>2. CASE j = n
    BY <1>1, <1>2, <2>2
  <2> QED  BY <1>2, <2>1, <2>2
<1> QED  BY <1>3, <1>4 DEF QueuePurged

LEMMA AppendBars ==
    ASSUME Types, NEW e, Fits(e), NEW q \in Recipes, e.upTo # 0 => e.to # q
    PROVE  OldBars(q)
<1>1. /\ \A i \in Waiting : queue'[i] = queue[i]
      /\ queue'[Len(queue) + 1] = e /\ Waiting' = Waiting \cup {Len(queue) + 1}
  BY AppendAt DEF Types, Fits, Waiting
<1> QED  BY <1>1 DEF OldBars, Fits

\* What has run leaves its bar behind in cleared.
Lowers ==
    /\ Shifts /\ queue # << >>
    /\ \A q \in Recipes : \/ cleared'[q] = cleared[q]
                          \/ queue[1].to = q /\ cleared'[q] = queue[1].upTo

LEMMA ShiftBars ==
    ASSUME Types, Lowers, NEW q \in Recipes
    PROVE  OldBars(q) \/ (Unlink(q) /\ ~StillHeld(q))
<1>1. Len(queue) \in Nat \ {0} /\ 1 \in Waiting
  BY DEF Types, Lowers, Waiting
<1>2. ASSUME ~(Unlink(q) /\ ~StillHeld(q)), NEW i \in Waiting', queue'[i].to = q
      PROVE  \/ queue'[i].upTo = 0
             \/ \E k \in Waiting : queue[k].to = q /\ queue[k].upTo = queue'[i].upTo
  <2>1. Kept(i) \/ Added(i)
    BY DEF Lowers, Shifts, Waiting
  <2>2. CASE Kept(i)
    <3>1. i + 1 \in Waiting
      BY <1>1, <2>2 DEF Kept, Waiting
    <3> QED  BY <1>2, <2>2, <3>1 DEF Kept
  <2>3. CASE queue'[i] = Workspace
    BY <2>3, Working
  <2>4. ASSUME NEW r \in Recipes, Unlink(r), queue'[i] = Clear(r) PROVE queue'[i].upTo = 0
    BY <1>2, <2>4, Clearing
  <2> QED  BY <2>1, <2>2, <2>3, <2>4 DEF Added
<1> QED  BY <1>1, <1>2 DEF OldBars, Lowers

LEMMA ShiftPurged ==
    ASSUME Types, QueueShape, QueuePurged, Lowers PROVE QueuePurged'
<1>1. Len(queue) \in Nat \ {0} /\ 1 \in Waiting /\ Len(queue') \in Nat
  BY DEF Types, Lowers, Shifts, Waiting
<1>2. \A i \in Waiting' : Kept(i) \/ Added(i)
  BY DEF Lowers, Shifts, Waiting
<1>3. ASSUME NEW i \in Waiting', Added(i)
      PROVE  /\ queue'[i].by # "load" /\ i >= Len(queue)
             /\ \A s \in Slots : queue'[i].saves[s] = 0
             /\ \A j \in Waiting : queue[j].by = "load" =>
                                     (queue'[i].to = queue[j].to => queue'[i].upTo = 0)
  <2>1. CASE queue'[i] = Workspace
    BY <1>3, <2>1, Working, Nothing DEF Added
  <2>2. ASSUME NEW r \in Recipes, queue'[i] = Clear(r)
        PROVE  /\ queue'[i].by # "load" /\ \A s \in Slots : queue'[i].saves[s] = 0
               /\ \A j \in Waiting : queue[j].by = "load" =>
                                       (queue'[i].to = queue[j].to => queue'[i].upTo = 0)
    BY <2>2, Clearing, Nothing DEF StillHeld, QueueShape
  <2> QED  BY <1>3, <2>1, <2>2 DEF Added
<1>4. \A i \in Waiting' : Kept(i) => i + 1 \in Waiting /\ queue'[i] = queue[i + 1]
  BY <1>1 DEF Kept, Waiting
<1>5. ASSUME NEW j \in Waiting', queue'[j].to \in Recipes, NEW s \in Slots, queue'[j].saves[s] # 0
      PROVE  /\ queue'[j].saves[s] > cleared'[queue'[j].to]
             /\ \A i \in 1..j : queue'[i].to = queue'[j].to => queue'[j].saves[s] > queue'[i].upTo
  <2>1. Kept(j)
    BY <1>2, <1>3, <1>5
  <2>2. PICK k \in Waiting : k = j + 1 /\ queue'[j] = queue[k]
    BY <1>4, <2>1
  <2>3. /\ queue[k].saves[s] > cleared[queue[k].to]
        /\ \A i \in 1..k : queue[i].to = queue[k].to => queue[k].saves[s] > queue[i].upTo
    BY <1>5, <2>2 DEF QueuePurged
  <2>4. queue'[j].saves[s] > cleared'[queue'[j].to]
    <3>1. 1 \in 1..k
      BY <1>1 DEF Waiting
    <3> QED  BY <1>5, <2>2, <2>3, <3>1 DEF Lowers
  <2>5. ASSUME NEW i \in 1..j, queue'[i].to = queue'[j].to PROVE queue'[j].saves[s] > queue'[i].upTo
    <3>1. i \in Waiting' /\ i + 1 \in 1..k /\ ~(i >= Len(queue))
      BY <1>1, <2>1, <2>2 DEF Waiting, Kept
    <3>2. queue'[i] = queue[i + 1]
      BY <1>2, <1>3, <1>4, <3>1
    <3> QED  BY <2>2, <2>3, <2>5, <3>1, <3>2
  <2> QED  BY <2>4, <2>5
<1>6. ASSUME NEW j \in Waiting', queue'[j].by = "load", NEW i \in j + 1..Len(queue'),
             queue'[i].to = queue'[j].to
      PROVE  queue'[i].upTo = 0
  <2>1. Kept(j) /\ i \in Waiting'
    BY <1>1, <1>2, <1>3, <1>6 DEF Waiting
  <2>2. PICK k \in Waiting : k = j + 1 /\ queue'[j] = queue[k]
    BY <1>4, <2>1
  <2>3. CASE Kept(i)
    <3>1. i + 1 \in k + 1..Len(queue) /\ queue'[i] = queue[i + 1]
      BY <1>1, <1>4, <2>1, <2>2, <2>3 DEF Waiting
    <3> QED  BY <1>6, <2>2, <3>1 DEF QueuePurged
  <2>4. CASE Added(i)
    BY <1>3, <1>6, <2>1, <2>2, <2>4
  <2> QED  BY <1>2, <2>1, <2>3, <2>4
<1> QED  BY <1>5, <1>6 DEF QueuePurged

LEMMA FirstIs ==
    ASSUME Types, queue # << >>
    PROVE  First = queue[1] /\ 1 \in Waiting /\ queue[1] \in Transaction /\ Len(queue) \in Nat \ {0}
<1>1. Len(queue) \in Nat \ {0}
  BY DEF Types
<1> QED  BY <1>1, TailAt DEF Types, First, Waiting

LEMMA CalmKeepsAbove ==
    ASSUME NEW r, NEW v, UNCHANGED <<queue, cleared>>, Above(r, v) PROVE Above(r, v)'
  BY DEF Above, Waiting

LEMMA CalmKeepsQueuePurged ==
    ASSUME UNCHANGED <<queue, cleared>>, QueuePurged PROVE QueuePurged'
  BY DEF QueuePurged, Waiting

\* The job goes on with what is in the file system, or with what it had read.
LEMMA JobKeepsPurged ==
    ASSUME Types, PageShape, Purged, NEW r \in Recipes, saving' \in Job, saving'.of = r,
           UNCHANGED <<fs, cleared, stage, recipe, loaded>>,
           \A s \in Slots : Above(r, saving'.got[s]),
           \/ queue' = queue /\ ~saving'.put
           \/ queue' = Append(queue, Put("job", saving'.of, saving'.got)) /\ saving'.put
    PROVE  Purged'
<1>1. CASE queue' = queue
  <2>1. JobPurged'
    <3>1. PICK got : got = saving'.got
      OBVIOUS
    <3>2. \A s \in Slots : Above(r, got[s])
      BY <3>1
    <3>3. \A s \in Slots : Above(r, got[s])'
      BY <1>1, <3>2 DEF Above, Waiting
    <3> QED  BY <3>1, <3>3 DEF JobPurged, Above
  <2>2. FilesPurged' /\ LoadedPurged' /\ QueuePurged'
    BY <1>1, CalmKeepsQueuePurged DEF Purged, FilesPurged, LoadedPurged, Above, Waiting
  <2> QED  BY <2>1, <2>2 DEF Purged
<1>2. CASE queue' = Append(queue, Put("job", saving'.of, saving'.got)) /\ saving'.put
  <2>1. PICK e : e = Put("job", saving'.of, saving'.got)
    OBVIOUS
  <2>2. e \in Transaction /\ e.to = r /\ e.saves = saving'.got /\ e.upTo = 0
    BY <2>1, Putting DEF Put, Job
  <2>3. Fits(e)
    BY <1>2, <2>1, <2>2 DEF Fits
  <2>4. \A q \in Recipes : OldBars(q)
    BY <2>2, <2>3, AppendBars
  <2>5. FilesPurged'
    <3> SUFFICES ASSUME NEW q \in Recipes, NEW s \in Slots PROVE Above(q, fs[q][s])'
      BY DEF FilesPurged
    <3>1. PICK v \in Nat : v = fs[q][s]
      BY Numbers
    <3>2. Above(q, v)'
      BY <2>4, <3>1, OldBarsKeep DEF Purged, FilesPurged
    <3> QED  BY <3>1, <3>2
  <2>6. LoadedPurged'
    <3> SUFFICES ASSUME stage = "loaded", NEW s \in Slots PROVE Above(recipe, loaded[s])'
      BY DEF LoadedPurged
    <3>1. PICK v \in Nat : v = loaded[s]
      BY Numbers
    <3>2. PICK q \in Recipes : q = recipe
      BY DEF PageShape, Types
    <3>3. Above(q, v)
      BY <3>1, <3>2 DEF Purged, LoadedPurged
    <3> QED  BY <2>4, <3>1, <3>2, <3>3, OldBarsKeep
  <2>7. JobPurged' /\ QueuePurged'
    BY <1>2, <2>3, AppendPurged DEF JobPurged, Purged
  <2> QED  BY <2>5, <2>6, <2>7 DEF Purged
<1> QED  BY <1>1, <1>2

LEMMA NextKeepsPurged ==
    Types /\ QueueShape /\ PageShape /\ Ages /\ Purged /\ ClearedStaysCleared /\ [Next]_vars => Purged'
<1> SUFFICES ASSUME Types, QueueShape, PageShape, Ages, Purged, ClearedStaysCleared, [Next]_vars
             PROVE  Purged'
  OBVIOUS
<1>0. FilesPurged /\ LoadedPurged /\ JobPurged /\ QueuePurged
  BY DEF Purged
<1>1. CASE Calm
  <2>1. UNCHANGED <<queue, fs, saving, cleared>>
        /\ (UNCHANGED <<stage, recipe, loaded>> \/ stage' \notin {"loading", "loaded"})
    BY <1>1 DEF Calm
  <2>2. QueuePurged'
    BY <1>0, <2>1, CalmKeepsQueuePurged
  <2> QED
    BY <1>0, <2>1, <2>2 DEF Purged, FilesPurged, LoadedPurged, JobPurged, Above, Waiting
<1>2. CASE Begins
  <2>1. /\ launch \in Recipes /\ saving' \in Job /\ saving'.of = launch
        /\ \A s \in Slots : saving'.got[s] \in {0, fs[launch][s]}
        /\ \/ queue' = queue /\ ~saving'.put
           \/ queue' = Append(queue, Put("job", saving'.of, saving'.got)) /\ saving'.put
    BY <1>2, Starting DEF Begins, Types
  <2>2. \A s \in Slots : Above(launch, saving'.got[s])
    BY <1>0, <2>1 DEF FilesPurged, Above
  <2> QED  BY <1>2, <2>1, <2>2, JobKeepsPurged DEF Begins
<1>3. CASE JobReads
  <2>1. /\ saving' \in Job /\ saving \in Job /\ saving'.of = saving.of /\ saving.of \in Recipes
        /\ saving # None /\ ~saving.put
        /\ \A s \in Slots : saving'.got[s] \in {saving.got[s], fs[saving.of][s]}
        /\ \/ queue' = queue /\ ~saving'.put
           \/ queue' = Append(queue, Put("job", saving'.of, saving'.got)) /\ saving'.put
    BY <1>3, Reading DEF Job
  <2>2. \A s \in Slots : Above(saving.of, saving'.got[s])
    BY <1>0, <2>1 DEF FilesPurged, JobPurged, Above
  <2>3. UNCHANGED <<fs, cleared, stage, recipe, loaded>>
    BY <1>3 DEF JobReads, fileVars, launchVars, ghosts
  <2>4. PICK r \in Recipes : r = saving.of
    BY <2>1
  <2> QED  BY <2>1, <2>2, <2>3, <2>4, JobKeepsPurged
<1>4. ASSUME NEW e, Fits(e), saving' = saving,
             stage' = "loaded" => UNCHANGED <<stage, recipe, loaded>>,
             \A q \in Recipes : fs'[q] \in {fs[q], NoSaves},
             e.upTo # 0 => saving = None /\ Unlink(e.to) /\ ~StillHeld(e.to)
      PROVE  Purged'
  <2>1. \A q \in Recipes : OldBars(q) \/ (Unlink(q) /\ ~StillHeld(q))
    BY <1>4, AppendBars
  <2>2. FilesPurged' /\ LoadedPurged'
    BY <1>0, <1>4, <2>1, ClearsKeepFiles, ClearsKeepLoaded
  <2>3. QueuePurged'
    BY <1>0, <1>4, AppendPurged
  <2>4. JobPurged'
    <3>1. CASE e.upTo # 0
      BY <1>4, <3>1 DEF JobPurged
    <3>2. CASE e.upTo = 0
      <4>1. \A q \in Recipes : OldBars(q)
        BY <1>4, <3>2, AppendBars
      <4> QED  BY <1>0, <1>4, <4>1, NewJobPurged DEF Fits
    <3> QED  BY <3>1, <3>2
  <2> QED  BY <2>2, <2>3, <2>4 DEF Purged
<1>5. CASE ClearsNow
  <2>1. PICK r \in Recipes : Unlink(r) /\ ButtonAdds(Clear(r))
    BY <1>5 DEF ClearsNow
  <2>2. PICK e : e = Clear(r)
    OBVIOUS
  <2>3. /\ e \in Transaction /\ e.to = r /\ queue' = Append(queue, e)
        /\ \A s \in Slots : e.saves[s] = 0
        /\ e.upTo # 0 => ~StillHeld(r)
    BY <2>1, <2>2, Clearing, Nothing DEF ButtonAdds
  <2>4. UNCHANGED <<cleared, saving, stage, recipe, loaded>> /\ saving = None
    BY <1>5 DEF ClearsNow
  <2>5. e.upTo # 0 => \A i \in Waiting : queue[i].by = "load" => queue[i].to # e.to
    BY <2>3 DEF StillHeld, QueueShape
  <2>6. Fits(e)
    BY <2>3, <2>4, <2>5 DEF Fits
  <2>7. \A q \in Recipes : fs'[q] \in {fs[q], NoSaves}
    BY <2>1, Unlinking
  <2> QED  BY <1>4, <2>1, <2>3, <2>4, <2>6, <2>7
<1>6. CASE ReturnsNow
  <2>1. Fits(Workspace)
    BY <1>6, Working, Nothing DEF ReturnsNow, ButtonAdds, Fits
  <2> QED  BY <1>4, <1>6, <2>1, Working DEF ReturnsNow
<1>7. CASE Imports
  <2>1. PICK r \in Recipes, saves \in [Slots -> {0, made + 1}] : ButtonAdds(Put("import", r, saves))
    BY <1>7 DEF Imports
  <2>2. PICK e : e = Put("import", r, saves)
    OBVIOUS
  <2>3. /\ e \in Transaction /\ e.to = r /\ e.upTo = 0 /\ queue' = Append(queue, e)
        /\ \A s \in Slots : e.saves[s] \in {0, made + 1}
    BY <2>1, <2>2 DEF ButtonAdds, Put
  <2>4. Above(r, made + 1)
    BY <1>0, Numbers DEF Above, Ages, QueueAges
  <2>5. Fits(e)
    BY <1>7, <2>3, <2>4 DEF Imports, Fits
  <2> QED  BY <1>4, <1>7, <2>3, <2>5 DEF Imports
<1>8. CASE Asks
  <2>1. PICK e : e = Put("load", recipe, NoSaves)
    OBVIOUS
  <2>2. e.upTo = 0 /\ e.saves = NoSaves
    BY <2>1 DEF Put
  <2>3. Fits(e)
    BY <1>8, <2>1, <2>2, Nothing DEF Asks, ButtonAdds, Fits
  <2> QED  BY <1>4, <1>8, <2>2, <2>3 DEF Asks
<1>9. CASE PrepareAndStart
  <2>1. /\ fs' = [fs EXCEPT ![recipe] = WithLoaded(@)] /\ stage = "loaded" /\ stage' # "loaded"
        /\ UNCHANGED <<queue, saving, cleared>> /\ recipe \in Recipes
    BY <1>9 DEF PrepareAndStart, jobVars, ghosts, PageShape, Types
  <2>2. \A r \in Recipes, s \in Slots :
          \/ fs'[r][s] = fs[r][s]
          \/ r = recipe /\ fs'[r][s] = loaded[s]
    BY <2>1 DEF WithLoaded, Types
  <2>3. \A r \in Recipes, s \in Slots : Above(r, fs'[r][s])
    BY <1>0, <2>1, <2>2 DEF FilesPurged, LoadedPurged
  <2>4. FilesPurged'
    BY <2>1, <2>3 DEF FilesPurged, Above, Waiting
  <2>5. QueuePurged' /\ LoadedPurged'
    BY <1>0, <2>1, CalmKeepsQueuePurged DEF LoadedPurged
  <2>6. JobPurged'
    BY <1>0, <2>1 DEF JobPurged, Above, Waiting
  <2> QED  BY <2>4, <2>5, <2>6 DEF Purged
<1>10. ASSUME NEW s \in Slots, GameSaves(s) PROVE Purged'
  <2>1. /\ fs' = [fs EXCEPT ![launch][s] = made + 1]
        /\ UNCHANGED <<queue, saving, cleared, stage, recipe, loaded>>
    BY <1>10 DEF GameSaves, launchVars, jobVars, ghosts
  <2>2. \A r \in Recipes, t \in Slots : fs'[r][t] \in {fs[r][t], made + 1}
    BY <2>1 DEF Types, Saves
  <2>3. \A r \in Recipes : Above(r, made + 1)
    BY <1>0, Numbers DEF Above, Ages, QueueAges
  <2>4. \A r \in Recipes, t \in Slots : Above(r, fs'[r][t])
    BY <1>0, <2>2, <2>3 DEF FilesPurged
  <2>5. FilesPurged'
    BY <2>1, <2>4 DEF FilesPurged, Above, Waiting
  <2>6. QueuePurged' /\ LoadedPurged' /\ JobPurged'
    BY <1>0, <2>1, CalmKeepsQueuePurged DEF LoadedPurged, JobPurged, Above, Waiting
  <2> QED  BY <2>5, <2>6 DEF Purged
<1>11. CASE Commit
  <2>1. /\ queue # << >> /\ First.to \in Recipes /\ UNCHANGED <<stage, recipe, loaded>>
        /\ cleared' = [cleared EXCEPT ![First.to] = IF First.upTo > @ THEN First.upTo ELSE @]
    BY <1>11, FirstIs DEF Commit, launchVars, QueueShape
  <2>2. \A q \in Recipes : \/ cleared'[q] = cleared[q]
                           \/ queue[1].to = q /\ cleared'[q] = queue[1].upTo
    BY <2>1, FirstIs DEF Types
  <2>3. CASE First.by = "job"
    <3>1. saving' = None /\ GoOn(Tail(queue))
      BY <1>11, <2>3 DEF Commit, Settled
    <3>2. Shifts /\ (fs' = fs \/ \E r \in Recipes : Unlink(r))
      BY <2>1, <3>1, Settling
    <3>3. \A q \in Recipes : fs'[q] \in {fs[q], NoSaves}
      BY <3>2, Unlinking
    <3>4. Lowers
      BY <2>1, <2>2, <3>2 DEF Lowers
    <3>5. FilesPurged' /\ LoadedPurged'
      BY <1>0, <2>1, <3>3, <3>4, ShiftBars, ClearsKeepFiles, ClearsKeepLoaded
    <3> QED  BY <1>0, <3>1, <3>4, <3>5, ShiftPurged DEF Purged, JobPurged
  <2>4. CASE First.by # "job"
    <3>1. queue' = Tail(queue) /\ UNCHANGED <<fs, restored, saving>>
      BY <1>11, <2>4 DEF Commit, jobVars
    <3>2. Lowers /\ \A i \in Waiting' : Kept(i)
      BY <2>1, <2>2, <3>1, Dropping DEF Lowers, Waiting
    <3>3. \A q \in Recipes : OldBars(q)
      BY <2>2, <3>2, FirstIs, <2>1 DEF OldBars, Kept, Waiting
    <3>4. FilesPurged' /\ LoadedPurged'
      BY <1>0, <2>1, <3>1, <3>3, ClearsKeepFiles, ClearsKeepLoaded
    <3>5. JobPurged'
      <4> SUFFICES ASSUME saving # None, ~saving.put, NEW s \in Slots
                   PROVE  Above(saving.of, saving.got[s])'
        BY <3>1 DEF JobPurged
      <4>1. PICK r \in Recipes : r = saving.of
        BY DEF Types, Job
      <4>2. PICK v \in Nat : v = saving.got[s]
        BY Numbers
      <4>3. Above(r, v)'
        BY <1>0, <3>3, <4>1, <4>2, OldBarsKeep DEF JobPurged
      <4> QED  BY <3>1, <4>1, <4>2, <4>3
    <3> QED  BY <1>0, <3>2, <3>4, <3>5, ShiftPurged DEF Purged
  <2> QED  BY <2>3, <2>4
<1>12. ASSUME queue # << >>, queue' = Tail(queue), UNCHANGED <<fs, cleared>>,
              saving' \in {saving, None}
       PROVE  FilesPurged' /\ JobPurged' /\ QueuePurged' /\ \A q \in Recipes : OldBars(q)
  <2>1. Lowers /\ \A i \in Waiting' : Kept(i)
    BY <1>12, Dropping DEF Lowers, Waiting
  <2>2. \A q \in Recipes : OldBars(q)
    BY <1>12, <2>1, FirstIs DEF OldBars, Kept, Waiting
  <2>3. FilesPurged'
    BY <1>0, <1>12, <2>2, ClearsKeepFiles
  <2>4. JobPurged'
    <3>1. CASE saving' = saving
      BY <1>0, <1>12, <2>2, <3>1, NewJobPurged
    <3>2. CASE saving' = None
      BY <3>2 DEF JobPurged
    <3> QED  BY <1>12, <3>1, <3>2
  <2> QED  BY <1>0, <2>1, <2>2, <2>3, <2>4, ShiftPurged
<1>13. CASE Loads
  <2>1. /\ queue # << >> /\ queue' = Tail(queue) /\ First.by = "load"
        /\ loaded' = disk[First.to] /\ stage' = "loaded"
        /\ UNCHANGED <<disk, fs, recipe, saving, cleared>>
    BY <1>13 DEF Loads, fileVars, jobVars, ghosts
  <2>2. First = queue[1] /\ 1 \in Waiting /\ First.to = recipe /\ recipe \in Recipes
        /\ Len(queue) \in Nat \ {0}
    BY <2>1, FirstIs DEF QueueShape
  <2>3. \A i \in Waiting' : queue'[i].to = recipe => queue'[i].upTo = 0
    <3>1. \A i \in Waiting' : i \in 1..Len(queue) - 1 /\ queue'[i] = queue[i + 1]
      BY <2>1, Dropping DEF Kept, Waiting
    <3>2. \A i \in 2..Len(queue) : queue[i].to = recipe => queue[i].upTo = 0
      BY <1>0, <2>1, <2>2 DEF QueuePurged
    <3>3. \A i \in Waiting' : i + 1 \in 2..Len(queue)
      BY <2>2, <3>1
    <3> QED  BY <3>1, <3>2, <3>3
  <2>4. LoadedPurged'
    <3> SUFFICES ASSUME NEW s \in Slots PROVE Above(recipe, loaded[s])'
      BY DEF LoadedPurged
    <3>1. PICK v \in Nat : v = disk[recipe][s]
      BY <2>2, Numbers
    <3>2. v # 0 => v > cleared[recipe]
      BY <2>2, <3>1 DEF ClearedStaysCleared
    <3>3. loaded'[s] = v /\ recipe' = recipe /\ cleared' = cleared
      BY <2>1, <2>2, <3>1
    <3>4. v # 0 => \A i \in Waiting' : queue'[i].to = recipe => v > queue'[i].upTo
      BY <2>3
    <3> QED  BY <3>2, <3>3, <3>4 DEF Above
  <2> QED  BY <1>12, <2>1, <2>4 DEF Purged
<1>14. CASE Leaves
  <2>1. /\ queue' = << >> /\ fs' = [r \in Recipes |-> NoSaves] /\ stage' = "idle"
        /\ saving' = None
    BY <1>14 DEF Leaves
  <2> QED  BY <2>1, Nothing
           DEF Purged, FilesPurged, LoadedPurged, JobPurged, QueuePurged, Above, Waiting
<1>15. CASE Aborts
  <2>1. /\ queue # << >> /\ queue' = Tail(queue)
        /\ UNCHANGED <<fs, loaded, cleared>> /\ saving' \in {saving, None}
        /\ stage' = "loaded" => UNCHANGED <<stage, recipe>>
    BY <1>15 DEF Aborts, Fails, jobVars, fileVars, ghosts
  <2>2. LoadedPurged'
    BY <1>0, <1>12, <2>1, ClearsKeepLoaded
  <2> QED  BY <1>12, <2>1, <2>2 DEF Purged
<1> QED
  BY <1>1, <1>2, <1>3, <1>5, <1>6, <1>7, <1>8, <1>9, <1>10, <1>11, <1>13, <1>14, <1>15, Kinds

LEMMA NextKeepsCleared ==
    Types /\ QueueShape /\ PageShape /\ Purged /\ ClearedStaysCleared /\ [Next]_vars
      => ClearedStaysCleared'
<1> SUFFICES ASSUME Types, QueueShape, PageShape, Purged, ClearedStaysCleared, [Next]_vars
             PROVE  ClearedStaysCleared'
  OBVIOUS
<1>1. CASE UNCHANGED <<disk, cleared>>
  BY <1>1 DEF ClearedStaysCleared
<1>2. CASE Commit
  <2>1. /\ queue # << >> /\ First.to \in Recipes
        /\ disk' = [disk EXCEPT ![First.to] = First.saves]
        /\ cleared' = [cleared EXCEPT ![First.to] = IF First.upTo > @ THEN First.upTo ELSE @]
    BY <1>2, FirstIs DEF Commit, QueueShape
  <2>2. \A s \in Slots : First.saves[s] # 0 =>
          First.saves[s] > cleared[First.to] /\ First.saves[s] > First.upTo
    <3>1. First = queue[1] /\ 1 \in Waiting /\ 1 \in 1..1
      BY <2>1, FirstIs
    <3> QED  BY <2>1, <3>1 DEF Purged, QueuePurged
  <2>3. ASSUME NEW r \in Recipes, NEW s \in Slots PROVE disk'[r][s] = 0 \/ disk'[r][s] > cleared'[r]
    <3>1. CASE r = First.to
      <4>1. disk'[r] = First.saves /\ cleared'[r] \in {cleared[r], First.upTo}
        BY <2>1, <3>1 DEF Types
      <4> QED  BY <2>2, <3>1, <4>1
    <3>2. CASE r # First.to
      <4>1. disk'[r] = disk[r] /\ cleared'[r] = cleared[r]
        BY <2>1, <3>2 DEF Types
      <4> QED  BY <4>1 DEF ClearedStaysCleared
    <3> QED  BY <3>1, <3>2
  <2> QED  BY <2>3 DEF ClearedStaysCleared
<1>3. ASSUME ~Commit PROVE UNCHANGED <<disk, cleared>>
  <2>1. CASE Calm \/ Begins \/ ClearsNow \/ ReturnsNow \/ Imports \/ Asks
    BY <2>1 DEF Calm, Begins, ClearsNow, ReturnsNow, Imports, Asks
  <2>2. CASE JobReads \/ PrepareAndStart \/ \E s \in Slots : GameSaves(s)
    BY <2>2 DEF JobReads, PrepareAndStart, GameSaves, ghosts
  <2>3. CASE Loads \/ Leaves \/ Aborts
    BY <2>3 DEF Loads, Leaves, Aborts, ghosts
  <2> QED  BY <1>3, <2>1, <2>2, <2>3, Kinds
<1> QED  BY <1>1, <1>2, <1>3

-----------------------------------------------------------------------------
(* The database is no older than a job, and a job no older than the files. *)

LEMMA AppendOrdered ==
    ASSUME Types, QueueOrdered, NEW e \in Transaction, queue' = Append(queue, e),
           restored \subseteq restored', e.by \in {"clear", "import"} => e.to \in restored'
    PROVE  QueueOrdered'
<1>1. /\ \A i \in Waiting : queue'[i] = queue[i]
      /\ queue'[Len(queue) + 1] = e /\ Waiting' = Waiting \cup {Len(queue) + 1}
  BY AppendAt DEF Types, Waiting
<1> QED  BY <1>1 DEF QueueOrdered

LEMMA ShiftOrdered ==
    ASSUME Types, QueueOrdered, queue # << >>, Shifts, restored \subseteq restored'
    PROVE  QueueOrdered'
<1> SUFFICES ASSUME NEW i \in Waiting', queue'[i].by \in {"clear", "import"}
             PROVE  queue'[i].to \in restored'
  BY DEF QueueOrdered
<1>1. Kept(i) \/ Added(i)
  BY DEF Shifts, Waiting
<1>2. CASE Kept(i)
  <2>1. i + 1 \in Waiting
    BY <1>2, FirstIs DEF Kept, Waiting
  <2> QED  BY <1>2, <2>1 DEF Kept, QueueOrdered
<1>3. CASE queue'[i] = Workspace
  BY <1>3, Working
<1>4. ASSUME NEW r \in Recipes, Unlink(r), queue'[i] = Clear(r) PROVE queue'[i].to \in restored'
  BY <1>4, Clearing, Unlinking
<1> QED  BY <1>1, <1>2, <1>3, <1>4 DEF Added

\* A commit: the saves that are put are no older than the database, nor newer
\* than the files, unless the recipe was cleared or imported.
LEMMA CommitIs ==
    ASSUME Types, QueueShape, PageShape, Ordered, Commit
    PROVE  /\ queue # << >> /\ First.to \in Recipes /\ restored \subseteq restored'
           /\ disk' = [disk EXCEPT ![First.to] = First.saves]
           /\ \A q \in Recipes \ restored' : fs'[q] = fs[q]
           /\ First.to \notin restored' =>
                /\ First.to \in dirs
                /\ \A s \in Slots : /\ disk[First.to][s] <= First.saves[s]
                                    /\ First.saves[s] <= fs[First.to][s]
           /\ Shifts /\ saving' \in {saving, None}
<1>0. FilesOrdered /\ JobOrdered /\ LoadedOrdered /\ QueueOrdered
  BY DEF Ordered
<1>1. /\ queue # << >> /\ First.to \in Recipes /\ First = queue[1] /\ 1 \in Waiting
      /\ First.by \in {"job", "clear", "import"}
      /\ disk' = [disk EXCEPT ![First.to] = First.saves]
  BY FirstIs DEF Commit, QueueShape
<1>2. CASE First.by = "job"
  <2>1. saving' = None /\ GoOn(Tail(queue))
    BY <1>2 DEF Commit, Settled
  <2>2. Shifts /\ ((fs' = fs /\ restored' = restored) \/ \E r \in Recipes : Unlink(r))
    BY <1>1, <2>1, Settling
  <2>3. restored \subseteq restored' /\ \A q \in Recipes \ restored' : fs'[q] = fs[q]
    BY <2>2, Unlinking
  <2>4. HasPut /\ JobAt(1)
    BY <1>1, <1>2, JobFirst
  <2>5. /\ saving # None /\ saving.put /\ First.to = saving.of /\ First.saves = saving.got
        /\ saving.of \in dirs
    BY <1>1, <2>4 DEF HasPut, JobAt, PageShape
  <2>6. First.to \notin restored =>
          \A s \in Slots : /\ disk[First.to][s] <= First.saves[s]
                           /\ First.saves[s] <= fs[First.to][s]
    BY <1>0, <2>5 DEF JobOrdered
  <2> QED  BY <1>1, <2>1, <2>2, <2>3, <2>5, <2>6
<1>3. CASE First.by # "job"
  <2>1. queue' = Tail(queue) /\ UNCHANGED <<fs, restored, saving>>
    BY <1>3 DEF Commit, jobVars
  <2>2. First.to \in restored
    BY <1>0, <1>1, <1>3 DEF QueueOrdered
  <2>3. Shifts
    BY <1>1, <2>1, Dropping
  <2> QED  BY <1>1, <2>1, <2>2, <2>3
<1> QED  BY <1>2, <1>3

LEMMA NextKeepsOrdered ==
    Types /\ QueueShape /\ PageShape /\ Ages /\ Ordered /\ [Next]_vars => Ordered'
<1> SUFFICES ASSUME Types, QueueShape, PageShape, Ages, Ordered, [Next]_vars PROVE Ordered'
  OBVIOUS
<1>0. FilesOrdered /\ JobOrdered /\ LoadedOrdered /\ QueueOrdered
  BY DEF Ordered
<1>1. CASE Calm
  BY <1>0, <1>1 DEF Calm, Ordered, FilesOrdered, JobOrdered, LoadedOrdered, QueueOrdered, Waiting
<1>2. ASSUME UNCHANGED <<disk, fs, dirs, restored, main, stage, recipe, loaded>>, saving' \in Job,
             \/ queue' = queue
             \/ queue' = Append(queue, Put("job", saving'.of, saving'.got)),
             JobOrdered'
      PROVE  Ordered'
  <2>1. QueueOrdered'
    <3>1. PICK e : e = Put("job", saving'.of, saving'.got)
      OBVIOUS
    <3>2. e \in Transaction /\ e.by = "job"
      BY <1>2, <3>1, Putting DEF Put, Job
    <3> QED  BY <1>0, <1>2, <3>1, <3>2, AppendOrdered DEF QueueOrdered, Waiting
  <2> QED  BY <1>0, <1>2, <2>1 DEF Ordered, FilesOrdered, LoadedOrdered
<1>3. CASE Begins
  <2>1. /\ launch \in dirs /\ launch \in Recipes /\ saving' \in Job /\ saving'.of = launch
        /\ saving'.put => saving'.todo = {}
        /\ \A s \in Slots \ saving'.todo : saving'.got[s] = fs[launch][s]
        /\ \/ queue' = queue
           \/ queue' = Append(queue, Put("job", saving'.of, saving'.got))
    BY <1>3, Starting DEF Begins, PageShape, Types
  <2>2. launch \notin restored => \A s \in Slots : disk[launch][s] <= fs[launch][s]
    BY <1>0, <2>1 DEF FilesOrdered
  <2>3. \A s \in Slots : fs[launch][s] <= fs[launch][s]
    BY <2>1, Numbers
  <2>4. JobOrdered'
    BY <1>3, <2>1, <2>2, <2>3 DEF JobOrdered, Begins
  <2> QED  BY <1>2, <1>3, <2>1, <2>4 DEF Begins
<1>4. CASE JobReads
  <2>1. /\ saving' \in Job /\ saving \in Job /\ saving'.of = saving.of
        /\ saving # None /\ saving.of \in dirs /\ saving.of \in Recipes
        /\ saving'.put => saving'.todo = {}
        /\ \A s \in Slots \ saving'.todo :
             \/ s \notin saving.todo /\ saving'.got[s] = saving.got[s]
             \/ saving'.got[s] = fs[saving.of][s]
        /\ \/ queue' = queue
           \/ queue' = Append(queue, Put("job", saving'.of, saving'.got))
    BY <1>4, Reading DEF PageShape, Job
  <2>2. UNCHANGED <<disk, fs, dirs, restored, main, stage, recipe, loaded>>
    BY <1>4 DEF JobReads, fileVars, launchVars, ghosts
  <2>3. saving.of \notin restored => \A s \in Slots : disk[saving.of][s] <= fs[saving.of][s]
    BY <1>0, <2>1 DEF FilesOrdered
  <2>4. \A s \in Slots : fs[saving.of][s] <= fs[saving.of][s]
    BY <2>1, Numbers
  <2>5. JobOrdered'
    BY <1>0, <2>1, <2>2, <2>3, <2>4 DEF JobOrdered
  <2> QED  BY <1>2, <2>1, <2>2, <2>5
<1>5. ASSUME NEW e, ButtonAdds(e), UNCHANGED <<disk, dirs, main>>, saving' = saving,
             restored \subseteq restored', e.by \in {"clear", "import"} => e.to \in restored',
             \A q \in Recipes \ restored' : fs'[q] = fs[q],
             stage' = "loaded" => UNCHANGED <<stage, recipe, loaded>>
      PROVE  Ordered'
  <2>1. QueueOrdered'
    BY <1>0, <1>5, AppendOrdered DEF ButtonAdds
  <2>2. FilesOrdered' /\ LoadedOrdered'
    BY <1>0, <1>5 DEF FilesOrdered, LoadedOrdered, Types
  <2>3. JobOrdered'
    <3>1. saving # None => saving.of \in Recipes
      BY DEF Types, Job
    <3> QED  BY <1>0, <1>5, <3>1 DEF JobOrdered
  <2> QED  BY <2>1, <2>2, <2>3 DEF Ordered
<1>6. CASE ClearsNow
  <2>1. PICK r \in Recipes : Unlink(r) /\ ButtonAdds(Clear(r))
    BY <1>6 DEF ClearsNow
  <2>2. /\ Clear(r).to = r /\ restored' = restored \cup {r}
        /\ \A q \in Recipes \ restored' : fs'[q] = fs[q]
    BY <2>1, Clearing, Unlinking
  <2> QED  BY <1>5, <1>6, <2>1, <2>2 DEF ClearsNow
<1>7. CASE ReturnsNow
  BY <1>5, <1>7, Working DEF ReturnsNow
<1>8. CASE Imports
  <2>1. PICK r \in Recipes, saves \in [Slots -> {0, made + 1}] :
          ButtonAdds(Put("import", r, saves)) /\ restored' = restored \cup {r}
    BY <1>8 DEF Imports
  <2>2. Put("import", r, saves).to = r
    BY DEF Put
  <2> QED  BY <1>5, <1>8, <2>1, <2>2 DEF Imports
<1>9. CASE Asks
  <2>1. Put("load", recipe, NoSaves).by = "load"
    BY DEF Put
  <2> QED  BY <1>5, <1>9, <2>1 DEF Asks
<1>10. CASE PrepareAndStart
  <2>1. /\ stage = "loaded" /\ ~main /\ recipe \in Recipes
        /\ fs' = [fs EXCEPT ![recipe] = WithLoaded(@)] /\ dirs' = dirs \cup {recipe}
        /\ stage' # "loaded" /\ UNCHANGED <<disk, queue, saving, restored>>
    BY <1>10 DEF PrepareAndStart, jobVars, ghosts, PageShape, Types
  <2>2. /\ \A q \in Recipes : q # recipe => fs'[q] = fs[q]
        /\ \A s \in Slots : fs'[recipe][s] = IF loaded[s] # 0 THEN loaded[s] ELSE fs[recipe][s]
    BY <2>1 DEF WithLoaded, Types
  <2>3. \A s \in Slots : recipe \notin dirs => fs[recipe][s] = 0
    BY <2>1 DEF PageShape
  <2>4. recipe \notin restored => \A s \in Slots : fs'[recipe][s] = disk[recipe][s]
    BY <1>0, <2>1, <2>2, <2>3 DEF LoadedOrdered, FilesOrdered
  <2>5. \A q \in dirs \ restored, s \in Slots : fs'[q][s] = fs[q][s] /\ disk[q][s] = fs[q][s]
    BY <1>0, <2>1, <2>2, <2>4 DEF FilesOrdered, Types
  <2>6. FilesOrdered'
    BY <2>1, <2>4, <2>5, Numbers DEF FilesOrdered, Types
  <2>7. JobOrdered'
    BY <1>0, <2>1, <2>5 DEF JobOrdered, PageShape
  <2>8. LoadedOrdered' /\ QueueOrdered'
    BY <1>0, <2>1 DEF LoadedOrdered, QueueOrdered, Waiting
  <2> QED  BY <2>6, <2>7, <2>8 DEF Ordered
<1>11. ASSUME NEW s \in Slots, GameSaves(s) PROVE Ordered'
  <2>1. /\ alive /\ fs' = [fs EXCEPT ![launch][s] = made + 1]
        /\ UNCHANGED <<disk, queue, dirs, main, stage, recipe, loaded, saving, restored>>
    BY <1>11 DEF GameSaves, launchVars, jobVars, ghosts
  <2>2. main /\ launch \in Recipes
    BY <2>1 DEF PageShape, Types
  <2>3. \A q \in Recipes, t \in Slots : fs'[q][t] \in {fs[q][t], made + 1}
    BY <2>1 DEF Types, Saves
  <2>4. FilesOrdered'
    BY <1>0, <2>1, <2>2, <2>3, Numbers DEF FilesOrdered, Ages, Types
  <2>5. JobOrdered'
    <3>1. saving # None => saving.of \in Recipes
      BY DEF Types, Job
    <3> QED  BY <1>0, <2>1, <2>3, <3>1, Numbers DEF JobOrdered, Ages
  <2> QED  BY <1>0, <2>1, <2>4, <2>5 DEF Ordered, LoadedOrdered, QueueOrdered, Waiting
<1>12. CASE Commit
  <2>1. /\ queue # << >> /\ First.to \in Recipes /\ restored \subseteq restored'
        /\ disk' = [disk EXCEPT ![First.to] = First.saves]
        /\ \A q \in Recipes \ restored' : fs'[q] = fs[q]
        /\ First.to \notin restored' =>
             /\ First.to \in dirs
             /\ \A s \in Slots : /\ disk[First.to][s] <= First.saves[s]
                                 /\ First.saves[s] <= fs[First.to][s]
        /\ Shifts /\ saving' \in {saving, None}
    BY <1>12, CommitIs
  <2>2. UNCHANGED <<dirs, main, stage, recipe, loaded>>
    BY <1>12 DEF Commit, launchVars
  <2>3. QueueOrdered'
    BY <1>0, <2>1, ShiftOrdered
  <2>4. \A q \in Recipes : disk'[q] = IF q = First.to THEN First.saves ELSE disk[q]
    BY <2>1 DEF Types
  <2>5. FilesOrdered'
    <3> SUFFICES ASSUME NEW r \in dirs \ restored', NEW s \in Slots
                 PROVE  disk'[r][s] <= fs[r][s] /\ (~main => fs[r][s] = disk'[r][s])
      BY <2>1, <2>2 DEF FilesOrdered, Types
    <3>1. r \in Recipes /\ disk[r][s] <= fs[r][s] /\ (~main => fs[r][s] = disk[r][s])
      BY <1>0, <2>1 DEF FilesOrdered, Types
    <3>2. CASE r # First.to
      BY <2>4, <3>1, <3>2
    <3>3. CASE r = First.to
      <4>1. /\ disk'[r][s] = First.saves[s] /\ disk[r][s] <= First.saves[s]
            /\ First.saves[s] <= fs[r][s]
        BY <2>1, <2>4, <3>1, <3>3
      <4>2. First.saves[s] \in Nat /\ fs[r][s] \in Nat
        BY <2>1, <3>1, FirstIs, Numbers
      <4> QED  BY <3>1, <4>1, <4>2
    <3> QED  BY <3>2, <3>3
  <2>6. LoadedOrdered'
    <3> SUFFICES ASSUME stage = "loaded", recipe \notin restored', NEW s \in Slots
                 PROVE  loaded[s] = disk'[recipe][s]
      BY <2>2 DEF LoadedOrdered
    <3>1. recipe \in Recipes /\ ~main /\ loaded[s] = disk[recipe][s]
      BY <1>0, <2>1 DEF LoadedOrdered, PageShape, Types
    <3>2. CASE recipe # First.to
      BY <2>4, <3>1, <3>2
    <3>3. CASE recipe = First.to
      <4>1. disk[recipe][s] = fs[recipe][s]
        BY <1>0, <2>1, <3>1, <3>3 DEF FilesOrdered
      <4>2. First.saves[s] \in Nat /\ fs[recipe][s] \in Nat
        BY <2>1, <3>1, FirstIs, Numbers
      <4> QED  BY <2>1, <2>4, <3>1, <3>3, <4>1, <4>2
    <3> QED  BY <3>2, <3>3
  <2>7. JobOrdered'
    <3>1. CASE saving' = None
      BY <3>1 DEF JobOrdered
    <3>2. CASE saving' = saving /\ saving # None
      <4>1. First.by # "job"
        <5>1. First.by = "job" => saving' = None
          BY <1>12 DEF Commit, Settled
        <5> QED  BY <3>2, <5>1
      <4>2. First.to \in restored
        BY <1>0, <1>12, <2>1, <4>1, FirstIs DEF QueueOrdered, Commit
      <4>3. saving.of \in Recipes
        BY <3>2 DEF Types, Job
      <4> QED  BY <1>0, <2>1, <2>4, <3>2, <4>2, <4>3 DEF JobOrdered
    <3> QED  BY <2>1, <3>1, <3>2
  <2> QED  BY <2>3, <2>5, <2>6, <2>7 DEF Ordered
<1>13. CASE Loads
  <2>1. /\ queue # << >> /\ queue' = Tail(queue) /\ First.by = "load"
        /\ loaded' = disk[First.to]
        /\ UNCHANGED <<disk, fs, dirs, recipe, main, saving, restored>>
    BY <1>13 DEF Loads, fileVars, jobVars, ghosts
  <2>2. First.to = recipe
    BY <2>1, FirstIs DEF QueueShape
  <2>3. QueueOrdered'
    BY <1>0, <2>1, Dropping, ShiftOrdered
  <2> QED  BY <1>0, <2>1, <2>2, <2>3 DEF Ordered, FilesOrdered, JobOrdered, LoadedOrdered
<1>14. CASE Leaves
  BY <1>14 DEF Leaves, Ordered, FilesOrdered, JobOrdered, LoadedOrdered, QueueOrdered, Waiting
<1>15. CASE Aborts
  <2>1. /\ queue # << >> /\ queue' = Tail(queue)
        /\ UNCHANGED <<disk, fs, dirs, loaded, main, restored>> /\ saving' \in {saving, None}
        /\ stage' = "loaded" => UNCHANGED <<stage, recipe>>
    BY <1>15 DEF Aborts, Fails, jobVars, fileVars, ghosts
  <2>2. QueueOrdered'
    BY <1>0, <2>1, Dropping, ShiftOrdered
  <2> QED  BY <1>0, <2>1, <2>2 DEF Ordered, FilesOrdered, JobOrdered, LoadedOrdered
<1> QED
  BY <1>1, <1>3, <1>4, <1>6, <1>7, <1>8, <1>9, <1>10, <1>11, <1>12, <1>13, <1>14, <1>15, Kinds

-----------------------------------------------------------------------------
(* Theorems.                                                               *)

LEMMA InvInductive == Inv /\ [Next]_vars => Inv'
  BY NextKeepsTypes, NextKeepsQueueShape, NextKeepsPageShape, NextKeepsAges, NextKeepsPurged,
     NextKeepsCleared, NextKeepsOrdered DEF Inv

LEMMA InitInv == Init => Inv
<1> SUFFICES ASSUME Init PROVE Inv
  OBVIOUS
<1>1. Types
  BY InitTypes
<1>2. /\ queue = << >> /\ saving = None /\ stage = "idle" /\ dirs = {} /\ launch = None
      /\ fs = [r \in Recipes |-> NoSaves] /\ disk = [r \in Recipes |-> NoSaves]
      /\ loaded = NoSaves /\ made = 0 /\ cleared = [r \in Recipes |-> 0]
      /\ ~main /\ ~alive /\ ~timer /\ ~clearing /\ returning = "no"
  BY DEF Init
<1>3. QueueShape
  BY <1>2, SavesAssumption DEF QueueShape, HasPut, Waiting
<1>4. PageShape
  BY <1>2, Nothing DEF PageShape
<1>5. Ages
  BY <1>2, Nothing DEF Ages, QueueAges, Waiting
<1>6. Purged
  BY <1>2, Nothing DEF Purged, FilesPurged, LoadedPurged, JobPurged, QueuePurged, Above, Waiting
<1>7. ClearedStaysCleared
  BY <1>2, Nothing DEF ClearedStaysCleared
<1>8. Ordered
  BY <1>2 DEF Ordered, FilesOrdered, JobOrdered, LoadedOrdered, QueueOrdered, Waiting
<1> QED  BY <1>1, <1>3, <1>4, <1>5, <1>6, <1>7, <1>8 DEF Inv

\* The page and its database, whatever the buttons, the game and the storage
\* do (forge-app.js saveNow, clearing, importing, launch, returnToForge): the
\* parts of the invariant above hold in every state.
THEOREM SavesInvariant == Spec => []Inv
<1>1. Inv /\ UNCHANGED vars => Inv'
  BY InvInductive
<1> QED  BY InitInv, InvInductive, PTL DEF Spec

\* Every variable has its type, a job has one transaction under way once it has
\* put its saves and none before, and who waits for saveNow waits for a job.
THEOREM TypesHold == Spec => []TypeOK
<1>1. Inv => TypeOK
  <2> SUFFICES ASSUME Inv PROVE TypeOK
    OBVIOUS
  <2>1. Types /\ QueueShape /\ PageShape
    BY DEF Inv
  <2>2. CASE HasPut
    <3>1. PICK j \in Waiting : queue[j].by = "job" /\ \A i \in Waiting : queue[i].by = "job" => i = j
      BY <2>1, <2>2 DEF QueueShape, JobAt
    <3>2. j = CHOOSE i \in 1..Len(queue) : queue[i].by = "job"
      BY <3>1 DEF Waiting
    <3>3. {i \in 1..Len(queue) : queue[i].by = "job"} = {j}
      BY <3>1 DEF Waiting
    <3> QED  BY <2>1, <2>2, <3>2, <3>3 DEF TypeOK, Types, QueueShape, PageShape, HasPut
  <2>3. CASE ~HasPut
    <3>1. {i \in 1..Len(queue) : queue[i].by = "job"} = {}
      BY <2>1, <2>3 DEF QueueShape, Waiting
    <3> QED  BY <2>1, <2>3, <3>1 DEF TypeOK, Types, QueueShape, PageShape, HasPut
  <2> QED  BY <2>2, <2>3
<1> QED  BY <1>1, SavesInvariant, PTL

\* What Clear has removed stays removed: no job that read it before, no timer
\* and no later launch puts it into the database again (forge-app.js
\* saves-clear awaits saveNow, and unlinks and puts in one turn).
THEOREM ClearIsFinal == Spec => []ClearedStaysCleared
<1>1. Inv => ClearedStaysCleared
  BY DEF Inv
<1> QED  BY <1>1, SavesInvariant, PTL

\* A save in the database gives way to an older one, or to none, only for a
\* recipe that was cleared or imported on this page: saveNow stores nothing
\* older than what launch had loaded before it.
THEOREM SavesNeverOlder == Spec => NeverOlder
<1> DEFINE Newer == \A r \in Recipes, s \in Slots :
                      disk'[r][s] < disk[r][s] => r \in restored'
<1>1. Inv /\ [Next]_vars => [Newer]_vars
  <2> SUFFICES ASSUME Inv, [Next]_vars PROVE Newer
    OBVIOUS
  <2>0. Types /\ QueueShape /\ PageShape /\ Ordered
    BY DEF Inv
  <2>1. CASE Commit
    <3>1. /\ queue # << >> /\ First.to \in Recipes
          /\ disk' = [disk EXCEPT ![First.to] = First.saves]
          /\ First.to \notin restored' => \A s \in Slots : disk[First.to][s] <= First.saves[s]
      BY <2>0, <2>1, CommitIs
    <3>2. \A s \in Slots : First.saves[s] \in Nat
      BY <2>0, <3>1, FirstIs, Numbers
    <3>3. \A q \in Recipes : disk'[q] = IF q = First.to THEN First.saves ELSE disk[q]
      BY <2>0, <3>1 DEF Types
    <3> QED  BY <2>0, <3>1, <3>2, <3>3, Numbers
  <2>2. CASE UNCHANGED disk
    BY <2>0, <2>2, Numbers
  <2>3. ASSUME ~Commit PROVE UNCHANGED disk
    <3>1. CASE Calm \/ Begins \/ ClearsNow \/ ReturnsNow \/ Imports \/ Asks
      BY <3>1 DEF Calm, Begins, ClearsNow, ReturnsNow, Imports, Asks
    <3>2. CASE JobReads \/ PrepareAndStart \/ \E s \in Slots : GameSaves(s)
      BY <3>2 DEF JobReads, PrepareAndStart, GameSaves
    <3>3. CASE Loads \/ Leaves \/ Aborts
      BY <3>3 DEF Loads, Leaves, Aborts
    <3> QED  BY <2>0, <2>3, <3>1, <3>2, <3>3, Kinds
  <2> QED  BY <2>1, <2>2, <2>3
<1> QED  BY <1>1, SavesInvariant, PTL DEF Spec, NeverOlder
=============================================================================
