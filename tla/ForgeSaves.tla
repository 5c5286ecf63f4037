------------------------------ MODULE ForgeSaves ------------------------------
(***************************************************************************)
(* Saved games between the engine's file system, which dies with the page, *)
(* and the page's database: the launch that loads them (forge-app.js       *)
(* launch, player-bridge.js), the job that stores them (saveNow), and the  *)
(* buttons that restore them, clear them or leave the page while a job may *)
(* be under way.                                                           *)
(*                                                                         *)
(* A step is one turn of the page's event loop: what a handler does from   *)
(* one await that really waits to the next.  Transactions of the database  *)
(* run in the order in which they are made.  A save is a version number,   *)
(* newer saves have greater ones, 0 is no save.                            *)
(***************************************************************************)
EXTENDS Integers, Sequences

CONSTANTS
    Recipes,    \* save namespaces
    Slots,      \* names of save files
    None,
    MaxMade,    \* bound: saves made or imported
    MaxQueue    \* bound: transactions that wait when a button is pressed

ASSUME SavesAssumption ==
    None \notin Recipes /\ MaxMade \in Nat /\ MaxQueue \in Nat \ {0}

VARIABLES
    disk,       \* the records saves:<namespace>
    queue,      \* transactions that are made and have not run
    fs,         \* /persist/<namespace>
    dirs,       \* the directories of /persist
    stage,      \* how far launch() is
    recipe,     \* what it launches
    loaded,     \* what loadSaves returned
    main,       \* mainStarted
    alive,      \* the engine runs
    overlay,    \* the library: shown, hidden by the game, or shown with an error
    launch,     \* the namespace of state.launch
    timer,      \* saveTimer runs
    saving,     \* the job of saveNow: None, or what it has read
    clearing,   \* the Clear button waits for saveNow
    returning,  \* how far returnToForge is
    made,       \* the newest version
    owed,       \* the game's files when Return was pressed
    cleared,    \* newest version that Clear has removed for good
    restored    \* namespaces cleared or imported since the page was opened

launchVars == <<stage, recipe, loaded, main, alive, overlay, launch, timer>>
jobVars == <<saving, clearing, returning, owed>>
fileVars == <<fs, dirs>>
ghosts == <<cleared, restored>>
vars == <<disk, queue, fileVars, launchVars, jobVars, made, ghosts>>

NoSaves == [s \in Slots |-> 0]
Saves == [Slots -> 0..MaxMade]
Job == [of : Recipes, todo : SUBSET Slots, got : Saves, put : BOOLEAN]
ASSUME JobAssumption == None \notin Job
Transaction == [by : {"job", "clear", "import", "load", "workspace"},
                to : Recipes \cup {None}, saves : Saves, upTo : 0..MaxMade]
Stages == {"idle", "attempted", "loading", "loaded", "booting", "booted"}

Init ==
    /\ disk = [r \in Recipes |-> NoSaves] /\ queue = <<>>
    /\ fs = [r \in Recipes |-> NoSaves] /\ dirs = {}
    /\ stage = "idle" /\ recipe = None /\ loaded = NoSaves
    /\ main = FALSE /\ alive = FALSE /\ overlay = "library"
    /\ launch = None /\ timer = FALSE
    /\ saving = None /\ clearing = FALSE /\ returning = "no" /\ owed = NoSaves
    /\ made = 0 /\ cleared = [r \in Recipes |-> 0] /\ restored = {}

Put(by, r, saves) == [by |-> by, to |-> r, saves |-> saves, upTo |-> 0]
Workspace == Put("workspace", None, NoSaves)

-----------------------------------------------------------------------------
(* saveNow.                                                                *)

Files(r) == {s \in Slots : fs[r][s] # 0}

\* It lists the files and reads the first before it waits for the first time.
StartJob ==
    IF Files(launch) = {}
      THEN /\ saving' = [of |-> launch, todo |-> {}, got |-> NoSaves, put |-> TRUE]
           /\ queue' = Append(queue, Put("job", launch, NoSaves))
      ELSE \E s \in Files(launch) :
             /\ saving' = [of |-> launch, todo |-> Files(launch) \ {s}, put |-> FALSE,
                           got |-> [NoSaves EXCEPT ![s] = fs[launch][s]]]
             /\ UNCHANGED queue

CanStart == saving = None /\ launch # None
\* Mutant: a second job beside the first.
SaveNowAnew == IF launch # None THEN StartJob ELSE UNCHANGED <<saving, queue>>
\* Who calls while a job is under way joins it.
SaveNow == IF CanStart THEN StartJob ELSE UNCHANGED <<saving, queue>>
SaveNowResolved == saving = None /\ launch = None

\* The Clear button's continuation, for the recipe that is selected by now.
\* What it removes is gone for good, unless a launch has read it already or it
\* lies in the directory of an earlier launch of this page.
StillHeld(r) == (stage \in {"loading", "loaded"} /\ recipe = r) \/ (r \in dirs /\ launch # r)
Clear(r) ==
    [Put("clear", r, NoSaves) EXCEPT !.upTo = IF StillHeld(r) THEN 0 ELSE made]
Unlink(r) ==
    /\ fs' = IF launch = r THEN [fs EXCEPT ![r] = NoSaves] ELSE fs
    /\ restored' = restored \cup {r}

\* The job has ended well; who waited for it goes on in the same turn.
GoOn(rest) ==
    LET left == IF returning = "saving" THEN Append(rest, Workspace) ELSE rest
    IN  /\ returning' = IF returning = "saving" THEN "persisting" ELSE returning
        /\ clearing' = FALSE
        /\ IF clearing
             THEN \E r \in Recipes : Unlink(r) /\ queue' = Append(left, Clear(r))
             ELSE queue' = left /\ UNCHANGED <<fs, restored>>
        /\ UNCHANGED owed
\* Mutant: forgets that the job is over.
SettledForever == UNCHANGED saving /\ GoOn(Tail(queue))
Settled == saving' = None /\ GoOn(Tail(queue))

Fails ==
    /\ saving' = None /\ clearing' = FALSE
    /\ returning' = IF returning = "saving" THEN "no" ELSE returning
    /\ owed' = IF returning = "saving" THEN NoSaves ELSE owed

\* The hash of a file is there: the next file is read, or all of them are put.
\* Only Clear unlinks files, and it has waited for the job.
JobReads ==
    /\ saving # None /\ ~saving.put
    /\ IF saving.todo = {}
         THEN /\ saving' = [saving EXCEPT !.put = TRUE]
              /\ queue' = Append(queue, Put("job", saving.of, saving.got))
         ELSE /\ \E s \in saving.todo :
                   saving' = [saving EXCEPT !.todo = @ \ {s},
                                            !.got[s] = fs[saving.of][s]]
              /\ UNCHANGED queue
    /\ UNCHANGED <<disk, fileVars, launchVars, clearing, returning, owed, made, ghosts>>

\* The setInterval of launch; the page is hidden.
TimerSaves ==
    /\ timer /\ SaveNow
    /\ UNCHANGED <<disk, fileVars, launchVars, clearing, returning, owed, made, ghosts>>
HiddenSaves ==
    /\ SaveNow
    /\ UNCHANGED <<disk, fileVars, launchVars, clearing, returning, owed, made, ghosts>>

-----------------------------------------------------------------------------
(* The buttons.  The library's are in reach while it is shown.             *)

\* Mutant: does not wait for the job.
ClickClearAtOnce ==
    /\ overlay # "hidden" /\ ~clearing /\ Len(queue) < MaxQueue
    /\ \E r \in Recipes : Unlink(r) /\ queue' = Append(queue, Clear(r))
    /\ UNCHANGED <<disk, dirs, launchVars, saving, clearing, returning, owed, made, cleared>>
ClickClear ==
    /\ overlay # "hidden" /\ ~clearing /\ Len(queue) < MaxQueue
    /\ IF SaveNowResolved
         THEN \E r \in Recipes :
                /\ Unlink(r) /\ queue' = Append(queue, Clear(r))
                /\ UNCHANGED <<saving, clearing>>
         ELSE SaveNow /\ clearing' = TRUE /\ UNCHANGED <<fs, restored>>
    /\ UNCHANGED <<disk, dirs, launchVars, returning, owed, made, cleared>>

\* A backup is put without a look at the engine's files.
ClickImport ==
    /\ overlay # "hidden" /\ Len(queue) < MaxQueue /\ made < MaxMade
    /\ made' = made + 1
    /\ \E r \in Recipes, saves \in [Slots -> {0, made + 1}] :
         /\ queue' = Append(queue, Put("import", r, saves))
         /\ restored' = restored \cup {r}
    /\ UNCHANGED <<disk, fileVars, launchVars, jobVars, cleared>>

\* returnToForge, from the player's menu or after a failure.
ClickReturn ==
    /\ main \/ overlay = "failed"
    /\ returning = "no" /\ Len(queue) < MaxQueue
    /\ timer' = FALSE
    /\ IF SaveNowResolved
         THEN /\ returning' = "persisting" /\ queue' = Append(queue, Workspace)
              /\ UNCHANGED <<saving, owed>>
         ELSE /\ returning' = "saving" /\ SaveNow
              /\ owed' = IF launch = None THEN NoSaves ELSE fs[launch]
    /\ UNCHANGED <<disk, fileVars, stage, recipe, loaded, main, alive, overlay, launch,
                   clearing, made, ghosts>>

-----------------------------------------------------------------------------
(* launch, and prepareRecipe and startRecipe of the player.                *)

LaunchStart(r) ==
    /\ stage = "idle" /\ ~main
    /\ stage' = "attempted" /\ recipe' = r
    /\ UNCHANGED <<disk, queue, fileVars, loaded, main, alive, overlay, launch, timer,
                   jobVars, made, ghosts>>

LoadSaves ==
    /\ stage = "attempted" /\ Len(queue) < MaxQueue
    /\ stage' = "loading" /\ queue' = Append(queue, Put("load", recipe, NoSaves))
    /\ UNCHANGED <<disk, fileVars, recipe, loaded, main, alive, overlay, launch, timer,
                   jobVars, made, ghosts>>

\* The recipe is unsupported or a payload is missing; the player finds that it
\* does not match what was verified.
PrepareFails ==
    /\ \/ stage = "attempted" /\ UNCHANGED <<timer, overlay>>
       \/ stage = "loaded" /\ timer' = FALSE /\ overlay' = "failed"
    /\ stage' = "idle" /\ recipe' = None /\ loaded' = NoSaves
    /\ UNCHANGED <<disk, queue, fileVars, main, alive, launch, jobVars, made, ghosts>>

\* Mutant: does not restore the saves.
WithoutSaves(files) == files
WithLoaded(files) == [s \in Slots |-> IF loaded[s] # 0 THEN loaded[s] ELSE files[s]]
\* The saves that were loaded are written over what is there, and the engine
\* is started unless the renderer's configuration is rejected.
PrepareAndStart ==
    /\ stage = "loaded" /\ ~main
    /\ fs' = [fs EXCEPT ![recipe] = WithLoaded(@)] /\ dirs' = dirs \cup {recipe}
    /\ launch' = recipe /\ recipe' = None /\ loaded' = NoSaves
    /\ \/ main' = TRUE /\ alive' = TRUE /\ overlay' = "hidden" /\ stage' = "booting"
       \/ stage' = "idle" /\ UNCHANGED <<main, alive, overlay>>
    /\ UNCHANGED <<disk, queue, timer, jobVars, made, ghosts>>

\* waitForNativeBoot: a frame has been presented, or 15 seconds are over.
Boots ==
    /\ stage = "booting" /\ alive /\ stage' = "booted"
    /\ UNCHANGED <<disk, queue, fileVars, recipe, loaded, main, alive, overlay, launch, timer,
                   jobVars, made, ghosts>>
BootFails ==
    /\ stage = "booting" /\ stage' = "idle" /\ timer' = FALSE /\ overlay' = "failed"
    /\ UNCHANGED <<disk, queue, fileVars, recipe, loaded, main, alive, launch,
                   jobVars, made, ghosts>>

\* The launch has been recorded, whatever became of the engine meanwhile.
StartTimer ==
    /\ stage = "booted" /\ stage' = "idle" /\ timer' = TRUE
    /\ UNCHANGED <<disk, queue, fileVars, recipe, loaded, main, alive, overlay, launch,
                   jobVars, made, ghosts>>

GameSaves(s) ==
    /\ alive /\ made < MaxMade
    /\ made' = made + 1 /\ fs' = [fs EXCEPT ![launch][s] = made + 1]
    /\ UNCHANGED <<disk, queue, dirs, launchVars, jobVars, ghosts>>

EngineFails ==
    /\ alive /\ alive' = FALSE /\ timer' = FALSE /\ overlay' = "failed"
    /\ UNCHANGED <<disk, queue, fileVars, stage, recipe, loaded, main, launch,
                   jobVars, made, ghosts>>

-----------------------------------------------------------------------------
(* The database, and the end of the page.                                  *)

First == Head(queue)

Commit ==
    /\ queue # <<>> /\ First.by \in {"job", "clear", "import"}
    /\ disk' = [disk EXCEPT ![First.to] = First.saves]
    /\ cleared' = [cleared EXCEPT ![First.to] = IF First.upTo > @ THEN First.upTo ELSE @]
    /\ IF First.by = "job"
         THEN Settled
         ELSE queue' = Tail(queue) /\ UNCHANGED <<fs, restored, jobVars>>
    /\ UNCHANGED <<dirs, launchVars, made>>
Loads ==
    /\ queue # <<>> /\ First.by = "load"
    /\ loaded' = disk[First.to] /\ stage' = "loaded" /\ queue' = Tail(queue)
    /\ UNCHANGED <<disk, fileVars, recipe, main, alive, overlay, launch, timer,
                   jobVars, made, ghosts>>

\* The workspace is stored: the page is loaded again.
Leaves ==
    /\ queue' = <<>> /\ fs' = [r \in Recipes |-> NoSaves] /\ dirs' = {}
    /\ stage' = "idle" /\ recipe' = None /\ loaded' = NoSaves
    /\ main' = FALSE /\ alive' = FALSE /\ overlay' = "library"
    /\ launch' = None /\ timer' = FALSE
    /\ saving' = None /\ clearing' = FALSE /\ returning' = "no" /\ owed' = NoSaves
    /\ restored' = {} /\ UNCHANGED <<disk, made, cleared>>
Reload == queue # <<>> /\ First.by = "workspace" /\ Leaves
Crash == Leaves

\* The storage is full, or fails.
Aborts ==
    /\ queue # <<>> /\ queue' = Tail(queue)
    /\ CASE First.by = "job" -> Fails /\ UNCHANGED <<stage, recipe>>
         [] First.by = "load" ->
              stage' = "idle" /\ recipe' = None /\ UNCHANGED jobVars
         [] First.by = "workspace" ->
              /\ returning' = "no" /\ owed' = NoSaves
              /\ UNCHANGED <<saving, clearing, stage, recipe>>
         [] OTHER -> UNCHANGED <<jobVars, stage, recipe>>
    /\ UNCHANGED <<disk, fileVars, loaded, main, alive, overlay, launch, timer, made, ghosts>>

Page ==
    \/ JobReads \/ TimerSaves \/ HiddenSaves
    \/ ClickClear \/ ClickImport \/ ClickReturn
    \/ LoadSaves \/ PrepareFails \/ PrepareAndStart
    \/ Boots \/ BootFails \/ StartTimer
    \/ \E r \in Recipes : LaunchStart(r)
    \/ \E s \in Slots : GameSaves(s)
    \/ EngineFails
Database == Commit \/ Loads \/ Reload \/ Aborts
Next == Page \/ Database \/ Crash

Spec == Init /\ [][Next]_vars

\* The timer fires, promises settle, and the database is not broken for ever.
FairSpec ==
    /\ Spec
    /\ WF_vars(JobReads) /\ WF_vars(TimerSaves)
    /\ SF_vars(Commit) /\ WF_vars(Database)

-----------------------------------------------------------------------------
(* Properties.                                                             *)

\* Every variable has its type, a job that has put its saves has one
\* transaction under way and any other has none, the timer runs only for a
\* game that was started, and a button that waits for saveNow waits for a job.
TypeOK ==
    /\ disk \in [Recipes -> Saves] /\ fs \in [Recipes -> Saves] /\ dirs \subseteq Recipes
    /\ queue \in Seq(Transaction) /\ Len(queue) <= MaxQueue + 2
    /\ stage \in Stages /\ recipe \in Recipes \cup {None} /\ loaded \in Saves
    /\ main \in BOOLEAN /\ alive \in BOOLEAN /\ overlay \in {"library", "hidden", "failed"}
    /\ launch \in Recipes \cup {None} /\ timer \in BOOLEAN
    /\ saving \in Job \cup {None} /\ clearing \in BOOLEAN
    /\ returning \in {"no", "saving", "persisting"}
    /\ made \in 0..MaxMade /\ owed \in Saves
    /\ cleared \in [Recipes -> 0..MaxMade] /\ restored \subseteq Recipes
    /\ {i \in 1..Len(queue) : queue[i].by = "job"} =
         IF saving = None \/ ~saving.put THEN {} ELSE
         {CHOOSE i \in 1..Len(queue) : queue[i].by = "job"}
    /\ (alive \/ timer) => main
    /\ main => launch # None
    /\ (clearing \/ returning = "saving") => saving # None

\* Whatever is under way when the page dies, is hidden or launches again, a
\* save in the database gives way to an older one, or to none, only after Clear
\* or Import for that recipe on this page (launch loads before it stores).
NeverOlder ==
    [][\A r \in Recipes, s \in Slots :
         disk'[r][s] < disk[r][s] => r \in restored']_vars

\* What Clear has removed does not come back: no job that had read it, no timer
\* and no later launch puts it into the database again (saves-clear waits for
\* saveNow, then unlinks and puts in one turn).
ClearedStaysCleared ==
    \A r \in Recipes, s \in Slots : disk[r][s] = 0 \/ disk[r][s] > cleared[r]

\* While the timer runs, the files of the game that was started reach the
\* database, unless a failure or Return stops the timer first.
SavedEventually ==
    \A r \in Recipes, s \in Slots :
      (timer /\ launch = r /\ fs[r][s] # disk[r][s])
        ~> (fs[r][s] = disk[r][s] \/ ~timer)

\* docs/FORGE_WORKSTATION.md:28: "Return to Forge / games flushes saves and
\* normally returns through a page reload."  What the game had saved when the
\* button was pressed is in the database when the page is loaded again.
ReturnFlushes ==
    [][Reload => \A s \in Slots : owed[s] # 0 => disk[launch][s] >= owed[s]]_vars
=============================================================================
