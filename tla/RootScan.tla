------------------------------ MODULE RootScan ------------------------------
(***************************************************************************)
(* Refreshing the sound folders: src/src/app/commands/library.rs drives     *)
(* the scan, src/src/app/library_store.rs stages and publishes it.          *)
(*                                                                         *)
(* The library database is owned by one worker thread, so each store       *)
(* request below is one atomic step; a refresh is a command on a UI worker  *)
(* that issues many of them, and everything else (a second refresh, the     *)
(* user adding or removing a folder, a crash) happens between two requests.  *)
(*                                                                         *)
(* A refresh opens a new generation for every configured root, stages the   *)
(* files it walks under those generations in batches, and then makes each    *)
(* root's generation the active one.  A sound is listed when it is located   *)
(* in the active generation of some root.                                   *)
(*                                                                         *)
(* Left out: a sound's metadata, and, modelled by FolderTree for one root,   *)
(* the folder tree with its preferences, sounds that are also in a manual    *)
(* tab and sounds that were imported one by one.                            *)
(***************************************************************************)
EXTENDS Integers, Sequences, FiniteSets

CONSTANTS
    Roots,          \* folders the user may configure
    Sounds,         \* audio files, by path
    Refreshes,      \* UI worker threads that may be running a refresh
    RootsOf,        \* [Sounds -> Seq(Roots)]: the roots above a file, outermost first
    MaxRefreshes,   \* bound: refresh commands issued
    MaxChanges,     \* bound: changes on disk, folders added and folders removed
    CallsMayFail    \* can a store request fail (a full queue, an SQLite error)?

ASSUME RootScanAssumption ==
    /\ RootsOf \in [Sounds -> Seq(Roots)]
    /\ MaxRefreshes \in Nat
    /\ MaxChanges \in Nat
    /\ CallsMayFail \in BOOLEAN

VARIABLES
    disk,       \* the files that exist
    roots,      \* rows of table roots
    active,     \* roots.active_generation
    scanning,   \* meta row "active_scan:<root>"; 0 when there is none
    located,    \* rows <<sound, root, generation>> of table sound_locations
    binding,    \* [Sounds -> "none" | "active" | "needs_attention"]
    step,       \* [Refreshes -> where the command is]
    listed,     \* [Refreshes -> the roots it read at its start]
    generation, \* [Refreshes -> [Roots -> its generation of the root, 0 if none]]
    todo,       \* [Refreshes -> the roots its current loop has still to serve]
    unseen,     \* [Refreshes -> files its walk has still to reach]
    batch,      \* [Refreshes -> <<sound, root>> read and not yet sent to the store]
    found,      \* history: [Refreshes -> every <<sound, root>> its walk has read]
    published,  \* history: [Roots -> what the scan that was published last had read]
    started,    \* refresh commands issued
    changes     \* user and disk changes made

store == <<roots, active, scanning, located, binding>>
command == <<step, listed, generation, todo, unseen, batch, found>>
vars == <<disk, store, command, published, started, changes>>

Steps == {"idle", "begin", "walk", "cancel", "finish"}
NoGeneration == [r \in Roots |-> 0]

(***************************************************************************)
(* What the tables say.                                                    *)
(***************************************************************************)

\* The sounds located in root r's active generation, and the ones that any
\* root lists (LIVE_SOUND_FILTER).
Live(r) == {s \in Sounds : r \in roots /\ <<s, r, active[r]>> \in located}
Listed(s) == \E r \in Roots : s \in Live(r)

\* The generations a root has rows in, its active one included.
Generations(r) ==
    {active[r]} \cup {l[3] : l \in {k \in located : k[2] = r}}

\* verify_root_scan: is g the generation the root is being scanned into?
Verified(r, g) == g # 0 /\ scanning[r] = g

\* scan_roots: a file belongs to the outermost of the scanned roots above it
\* (no member when none of them is).
Owner(s, rs) ==
    {RootsOf[s][i] : i \in {j \in DOMAIN RootsOf[s] :
        RootsOf[s][j] \in rs /\ \A k \in 1 .. j - 1 : RootsOf[s][k] \notin rs}}

(***************************************************************************)
(* The command's own bookkeeping.                                          *)
(***************************************************************************)

\* The command returns and drops what it holds.
Idle(p) ==
    /\ step' = [step EXCEPT ![p] = "idle"]
    /\ listed' = [listed EXCEPT ![p] = {}]
    /\ generation' = [generation EXCEPT ![p] = NoGeneration]
    /\ todo' = [todo EXCEPT ![p] = {}]
    /\ unseen' = [unseen EXCEPT ![p] = {}]
    /\ batch' = [batch EXCEPT ![p] = {}]
    /\ found' = [found EXCEPT ![p] = {}]

Begun(p) == {r \in Roots : generation[p][r] # 0}

\* Give up: every generation that was opened is cancelled, then the error is
\* returned.
GiveUp(p) ==
    /\ step' = [step EXCEPT ![p] = "cancel"]
    /\ todo' = [todo EXCEPT ![p] = Begun(p)]
    /\ batch' = [batch EXCEPT ![p] = {}]
    /\ UNCHANGED <<listed, generation, unseen, found>>

Init ==
    /\ disk \in SUBSET Sounds
    /\ roots \in SUBSET Roots
    /\ active = NoGeneration
    /\ scanning = NoGeneration
    /\ located = {}
    /\ binding = [s \in Sounds |-> "none"]
    /\ step = [p \in Refreshes |-> "idle"]
    /\ listed = [p \in Refreshes |-> {}]
    /\ generation = [p \in Refreshes |-> NoGeneration]
    /\ todo = [p \in Refreshes |-> {}]
    /\ unseen = [p \in Refreshes |-> {}]
    /\ batch = [p \in Refreshes |-> {}]
    /\ found = [p \in Refreshes |-> {}]
    /\ published = [r \in Roots |-> {}]
    /\ started = 0
    /\ changes = 0

(***************************************************************************)
(* The refresh command, one store request or one walked file per step.      *)
(***************************************************************************)

\* The command reads the list of configured roots.
Start(p) ==
    /\ step[p] = "idle"
    /\ started < MaxRefreshes
    /\ roots # {}
    /\ started' = started + 1
    /\ step' = [step EXCEPT ![p] = "begin"]
    /\ listed' = [listed EXCEPT ![p] = roots]
    /\ todo' = [todo EXCEPT ![p] = roots]
    /\ UNCHANGED <<disk, store, generation, unseen, batch, found, published, changes>>

\* A faulty variant: only the active generation counts.
NextAfterActive(r) == {active[r] + 1}

\* begin_root_scan's generation (the only member): one above every generation
\* the root has rows in, the ones a crash left behind included.
NextGeneration(r) ==
    {g \in {h + 1 : h \in Generations(r)} : \A h \in Generations(r) : h < g}

\* begin_root_scan: the root's row is written again if it is missing, and its
\* new generation is the one being scanned from now on.
BeginRoot(p) ==
    /\ step[p] = "begin"
    /\ \E r \in todo[p] : \E g \in NextGeneration(r) :
        /\ roots' = roots \cup {r}
        /\ scanning' = [scanning EXCEPT ![r] = g]
        /\ generation' = [generation EXCEPT ![p][r] = g]
        /\ todo' = [todo EXCEPT ![p] = @ \ {r}]
        /\ IF todo[p] = {r}
           THEN /\ step' = [step EXCEPT ![p] = "walk"]
                /\ unseen' = [unseen EXCEPT ![p] = Sounds]
           ELSE UNCHANGED <<step, unseen>>
    /\ UNCHANGED <<disk, active, located, binding, listed, batch, found,
                   published, started, changes>>

\* The walk reaches the path of file s; the batch is sent first when the file
\* belongs to another root than the batch does.
Visit(p) ==
    /\ step[p] = "walk"
    /\ \E s \in unseen[p] :
        /\ unseen' = [unseen EXCEPT ![p] = @ \ {s}]
        /\ \/ \E r \in Owner(s, listed[p]) :
                /\ s \in disk
                /\ \A b \in batch[p] : b[2] = r
                /\ batch' = [batch EXCEPT ![p] = @ \cup {<<s, r>>}]
                /\ found' = [found EXCEPT ![p] = @ \cup {<<s, r>>}]
           \/ /\ s \notin disk \/ Owner(s, listed[p]) = {}
              /\ UNCHANGED <<batch, found>>
    /\ UNCHANGED <<disk, store, step, listed, generation, todo, published, started, changes>>

\* apply_root_scan_batch: the rows are staged if the generation is still the
\* one the root is being scanned into; otherwise the walk fails.
Flush(p) ==
    /\ step[p] = "walk"
    /\ \E r \in {b[2] : b \in batch[p]} :
        LET g == generation[p][r] IN
        IF Verified(r, g)
        THEN /\ located' = located \cup {<<b[1], r, g>> : b \in batch[p]}
             /\ batch' = [batch EXCEPT ![p] = {}]
             /\ UNCHANGED <<step, listed, generation, todo, unseen, found>>
        ELSE /\ GiveUp(p)
             /\ UNCHANGED located
    /\ UNCHANGED <<disk, roots, active, scanning, binding, published, started, changes>>

\* The walk is over and the last batch is in.
WalkEnds(p) ==
    /\ step[p] = "walk"
    /\ unseen[p] = {}
    /\ batch[p] = {}
    /\ step' = [step EXCEPT ![p] = "finish"]
    /\ todo' = [todo EXCEPT ![p] = Begun(p)]
    /\ UNCHANGED <<disk, store, listed, generation, unseen, batch, found,
                   published, started, changes>>

\* The user cancels the walk, or the scanner or a store request of the first
\* two loops fails.
Abandon(p) ==
    /\ \/ step[p] = "walk"
       \/ step[p] = "begin" /\ CallsMayFail
    /\ GiveUp(p)
    /\ UNCHANGED <<disk, store, published, started, changes>>

\* A faulty variant: every row of the root goes, the listed ones too.
CancelAllRows(r, g) ==
    IF Verified(r, g)
    THEN /\ located' = {l \in located : l[2] # r}
         /\ scanning' = [scanning EXCEPT ![r] = 0]
    ELSE UNCHANGED <<located, scanning>>

\* cancel_root_scan: what was staged under the generation is deleted.
CancelStaged(r, g) ==
    IF Verified(r, g)
    THEN /\ located' = {l \in located : l[2] # r \/ l[3] # g}
         /\ scanning' = [scanning EXCEPT ![r] = 0]
    ELSE UNCHANGED <<located, scanning>>

\* The command ignores the answer, so a cancellation that fails leaves the
\* rows staged and the scan open.
CancelRoot(p) ==
    /\ step[p] = "cancel"
    /\ \E r \in todo[p] :
        /\ todo' = [todo EXCEPT ![p] = @ \ {r}]
        /\ \/ CancelStaged(r, generation[p][r])
           \/ CallsMayFail /\ UNCHANGED <<located, scanning>>
    /\ UNCHANGED <<disk, roots, active, binding, step, listed, generation, unseen,
                   batch, found, published, started, changes>>

\* A faulty variant: only listed sounds count, not the staged ones.
FlagUnlisted(loc) ==
    binding' = [s \in Sounds |->
        IF binding[s] = "active" /\ ~(\E l \in loc : l[1] = s /\ active'[l[2]] = l[3])
        THEN "needs_attention"
        ELSE binding[s]]

\* A faulty variant: nothing is flagged.
FlagNothing(loc) == UNCHANGED binding

\* finish_root_scan's last update: a binding of a sound that is not listed any
\* more, and that no root has staged, needs the user's attention. (A listed
\* sound has a location, so the second test implies the first.)
FlagLost(loc) ==
    binding' = [s \in Sounds |->
        IF binding[s] = "active" /\ ~(\E l \in loc : l[1] = s)
        THEN "needs_attention"
        ELSE binding[s]]

\* What is left of the table when root r is published under generation g.
Kept(r, g) == {l \in located : l[2] # r \/ l[3] = g}

\* A faulty variant: the scan is left open.
PublishLeftOpen(p, r) ==
    LET g == generation[p][r] IN
    /\ active' = [active EXCEPT ![r] = g]
    /\ located' = Kept(r, g)
    /\ FlagLost(Kept(r, g))
    /\ published' = [published EXCEPT ![r] = {f[1] : f \in {h \in found[p] : h[2] = r}}]
    /\ UNCHANGED scanning

\* finish_root_scan: the generation becomes the active one, the root's other
\* rows are deleted, and the scan is closed.
Publish(p, r) ==
    LET g == generation[p][r] IN
    /\ active' = [active EXCEPT ![r] = g]
    /\ located' = Kept(r, g)
    /\ FlagLost(Kept(r, g))
    /\ scanning' = [scanning EXCEPT ![r] = 0]
    /\ published' = [published EXCEPT ![r] = {f[1] : f \in {h \in found[p] : h[2] = r}}]

\* A root whose generation was replaced, or whose request fails, ends the
\* command there with an error: the roots after it are neither finished nor
\* cancelled.
FinishRoot(p) ==
    /\ step[p] = "finish"
    /\ \E r \in todo[p] :
        \/ /\ Verified(r, generation[p][r])
           /\ Publish(p, r)
           /\ todo' = [todo EXCEPT ![p] = @ \ {r}]
           /\ UNCHANGED <<roots, step, listed, generation, unseen, batch, found>>
        \/ /\ CallsMayFail \/ ~Verified(r, generation[p][r])
           /\ Idle(p)
           /\ UNCHANGED <<store, published>>
    /\ UNCHANGED <<disk, started, changes>>

\* Every root was served: after a finished scan the hotkeys are reconciled
\* (module ProjectionGate) and the command returns.
Return(p) ==
    /\ step[p] \in {"cancel", "finish"}
    /\ todo[p] = {}
    /\ Idle(p)
    /\ UNCHANGED <<disk, store, published, started, changes>>

(***************************************************************************)
(* Everything else.                                                        *)
(***************************************************************************)

\* apply_batch(Roots): the user adds a folder.
AddFolder(r) ==
    /\ r \notin roots
    /\ changes < MaxChanges
    /\ roots' = roots \cup {r}
    /\ changes' = changes + 1
    /\ UNCHANGED <<disk, active, scanning, located, binding, command, published, started>>

\* remove_root: the root, its rows and its open scan go, and so do the sounds
\* that are left without a location, with their bindings.
RemoveFolder(r) ==
    LET kept == {l \in located : l[2] # r} IN
    /\ r \in roots
    /\ changes < MaxChanges
    /\ roots' = roots \ {r}
    /\ active' = [active EXCEPT ![r] = 0]
    /\ scanning' = [scanning EXCEPT ![r] = 0]
    /\ located' = kept
    /\ binding' = [s \in Sounds |-> IF \E l \in kept : l[1] = s THEN binding[s] ELSE "none"]
    /\ published' = [published EXCEPT ![r] = {}]
    /\ changes' = changes + 1
    /\ UNCHANGED <<disk, command, started>>

\* The user gives a listed sound a hotkey.
Bind(s) ==
    /\ Listed(s)
    /\ binding[s] # "active"
    /\ binding' = [binding EXCEPT ![s] = "active"]
    /\ UNCHANGED <<disk, roots, active, scanning, located, command, published, started, changes>>

\* Files come and go on disk.
DiskChanges ==
    /\ changes < MaxChanges
    /\ changes' = changes + 1
    /\ \E d \in SUBSET Sounds : d # disk /\ disk' = d
    /\ UNCHANGED <<store, command, published, started>>

\* The program stops, or is killed, while commands run; the database keeps
\* what was committed.
Crash ==
    /\ \E p \in Refreshes : step[p] # "idle"
    /\ step' = [p \in Refreshes |-> "idle"]
    /\ listed' = [p \in Refreshes |-> {}]
    /\ generation' = [p \in Refreshes |-> NoGeneration]
    /\ todo' = [p \in Refreshes |-> {}]
    /\ unseen' = [p \in Refreshes |-> {}]
    /\ batch' = [p \in Refreshes |-> {}]
    /\ found' = [p \in Refreshes |-> {}]
    /\ UNCHANGED <<disk, store, published, started, changes>>

Command(p) ==
    \/ Start(p)
    \/ BeginRoot(p)
    \/ Visit(p)
    \/ Flush(p)
    \/ WalkEnds(p)
    \/ Abandon(p)
    \/ CancelRoot(p)
    \/ FinishRoot(p)
    \/ Return(p)

Next ==
    \/ \E p \in Refreshes : Command(p)
    \/ \E r \in Roots : AddFolder(r) \/ RemoveFolder(r)
    \/ \E s \in Sounds : Bind(s)
    \/ DiskChanges
    \/ Crash

Spec == Init /\ [][Next]_vars

(***************************************************************************)
(* Properties.                                                             *)
(***************************************************************************)

\* The tables' own constraints: a row refers to a configured root (ON DELETE
\* CASCADE), only a configured root has an open scan, and the generation that
\* is being filled is above the one that is listed.
TablesOK ==
    /\ \A l \in located : l[2] \in roots
    /\ \A r \in Roots :
        /\ r \notin roots => active[r] = 0 /\ scanning[r] = 0
        /\ scanning[r] # 0 => scanning[r] > active[r]

\* Type invariant: the tables, their constraints and the commands' variables.
TypeOK ==
    /\ TablesOK
    /\ disk \in SUBSET Sounds
    /\ roots \in SUBSET Roots
    /\ active \in [Roots -> Nat]
    /\ scanning \in [Roots -> Nat]
    /\ located \in SUBSET (Sounds \X Roots \X Nat)
    /\ binding \in [Sounds -> {"none", "active", "needs_attention"}]
    /\ step \in [Refreshes -> Steps]
    /\ listed \in [Refreshes -> SUBSET Roots]
    /\ generation \in [Refreshes -> [Roots -> Nat]]
    /\ todo \in [Refreshes -> SUBSET Roots]
    /\ unseen \in [Refreshes -> SUBSET Sounds]
    /\ batch \in [Refreshes -> SUBSET (Sounds \X Roots)]
    /\ found \in [Refreshes -> SUBSET (Sounds \X Roots)]
    /\ published \in [Roots -> SUBSET Sounds]
    /\ started \in 0 .. MaxRefreshes
    /\ changes \in 0 .. MaxChanges

\* A root lists exactly the files that one whole walk read: never a part of a
\* walk, a mix of two, or the leftovers of one that was cancelled, superseded
\* or cut short by a crash (finish_root_scan and the generations).
RefreshIsAtomic == \A r \in Roots : Live(r) = published[r]

\* The inductive form, for one refresh at a time: until the command gives up,
\* its open generation holds exactly what the walk has read and sent.
Staged(p, r) == {s \in Sounds : <<s, r, generation[p][r]>> \in located}
Sent(p, r) == {s \in Sounds : <<s, r>> \in found[p] \ batch[p]}
WalkOK(p) ==
    /\ step[p] = "idle" => generation[p] = NoGeneration
    /\ step[p] \in {"idle", "begin"} => found[p] = {} /\ batch[p] = {}
    /\ step[p] = "finish" => batch[p] = {}
    /\ batch[p] \subseteq found[p]
    /\ \A b, c \in batch[p] : b[2] = c[2]
    /\ \A f \in found[p] : f[1] \notin unseen[p]
StagedIsSent ==
    \A p \in Refreshes :
        /\ WalkOK(p)
        /\ \A r \in Roots :
            step[p] # "cancel" /\ Verified(r, generation[p][r]) => Staged(p, r) = Sent(p, r)

\* What a root lists changes only when its open scan is closed with its own
\* generation, or when the folder is removed: beginning, staging and
\* cancelling a scan are invisible, whatever else is running.
StagingIsInvisible ==
    [][\A r \in Roots :
        Live(r)' # Live(r) =>
            \/ r \notin roots'
            \/ /\ scanning[r] # 0
               /\ active'[r] = scanning[r]
               /\ scanning'[r] = 0]_vars

\* The refresh's scan of the root still stands: it is open, or was published.
Stands(p, r) == generation[p][r] # 0 /\ generation[p][r] \in {scanning[r], active[r]}

\* A refresh takes a hotkey away only from a sound whose file none of its
\* standing scans has found: a file that merely moves from one root to another
\* keeps its hotkey while the roots are finished one by one
\* (finish_root_scan's staged_location test).
FoundSoundsKeepHotkeys ==
    [][\A s \in Sounds, p \in Refreshes :
        /\ step[p] = "finish"
        /\ binding[s] = "active"
        /\ binding'[s] = "needs_attention"
        => \A r \in Roots : Stands(p, r) => <<s, r>> \notin found[p]]_vars

\* When a refresh has finished all its roots and is about to reconcile the
\* hotkeys, every sound that holds an active hotkey is listed.
ReconciledHotkeysAreListed ==
    \A p \in Refreshes :
        step[p] = "finish" /\ todo[p] = {} =>
            \A s \in Sounds : binding[s] = "active" => Listed(s)
=============================================================================
