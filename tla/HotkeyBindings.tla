--------------------------- MODULE HotkeyBindings ---------------------------
(***************************************************************************)
(* Hotkeys from the command to the backend: commands/hotkeys.rs, the       *)
(* hotkey part of library_store.rs, hotkeys/projection.rs page by page,    *)
(* and the staging of hotkeys/manager_runtime.rs and its backends.         *)
(*                                                                         *)
(* A command looks its binding up, checks that the key is free, commits,   *)
(* and reconciles: three requests of the store's queue and a projection,   *)
(* between which other commands run.  A projection reads the bindings page *)
(* by page, stages them in the backend and commits what it staged.         *)
(* ProjectionGate takes all of that for one step and one outcome; the      *)
(* instance Gate below says that this module implements it.                *)
(***************************************************************************)
EXTENDS Naturals, FiniteSets, Functions

CONSTANTS
  HkThreads,   \* threads that run commands
  HkSounds,
  HkKeys,      \* canonical accelerators
  HkTab,       \* a tab that sound hotkeys may be limited to
  HkNone,      \* no key, no scope
  HkPageSize,  \* PAGE_SIZE
  HkMaxEdits   \* bound: commits, commands on their way to one, and when else a
               \* folder may be hidden or shown again, and anything fail

ASSUME HotkeyAssumption ==
  /\ HkPageSize \in Nat \ {0} /\ HkMaxEdits \in Nat
  /\ HkNone \notin HkKeys \cup {HkTab}
  /\ IsFiniteSet(HkSounds)

VARIABLES
  table,      \* hotkey_bindings
  unlisted,   \* sounds that no visible folder or tab lists
  registered, \* what the backend answers to: key -> binding id
  backend,    \* HotkeyManager.backend is there
  staged,     \* the backend's candidate, key -> binding id
  gate,       \* ProjectionGateState
  call,       \* the local variables of each thread's command
  edits,      \* commits of the commands so far
  drifted,    \* history: sounds came or went since a projection began to read
  overlooked, \* history: a key was taken after the check of a command, or by a
              \* sound that is listed again
  hkEvents    \* hidden folders and failures so far

hkVars == <<table, unlisted, registered, backend, staged, gate, call, edits,
            drifted, overlooked, hkEvents>>

\* Binding ids, in the order of their strings. A control hotkey and a tab
\* hotkey have a fixed one, each binding of a sound a new UUID, which may sort
\* before or after them.
ControlId == 2
TabId     == 4
SoundIds  == {1, 3}
HkIds     == SoundIds \cup {ControlId, TabId}
HkOwners  == HkSounds \cup {"control", "tab"}

NoCommand == [owner |-> "control", key |-> HkNone, scope |-> HkNone, share |-> FALSE]
Nothing   == [k \in {} |-> 0]
HkOutcome(ok, version) == [ok |-> ok, version |-> version]
IdleCall ==
  [pc |-> "idle", command |-> NoCommand, id |-> 0, mine |-> 0, generation |-> 0,
   target |-> 0, seen |-> 0, result |-> HkOutcome(TRUE, 0), after |-> 0, error |-> FALSE]

HkInit ==
  /\ table = {[id |-> ControlId, owner |-> "control", scope |-> HkNone,
               key |-> CHOOSE k \in HkKeys : TRUE]}
  /\ unlisted = {}
  /\ registered = Nothing /\ staged = Nothing /\ backend = FALSE
  /\ gate = [requested |-> 0, completed |-> 0, running |-> FALSE,
             last |-> HkOutcome(TRUE, 0), notified |-> {}]
  /\ call = [t \in HkThreads |-> IdleCall]
  /\ edits = 0
  /\ drifted = TRUE /\ overlooked = FALSE
  /\ hkEvents = 0

-----------------------------------------------------------------------------
(* The table. *)

\* A binding counts when its sound is listed.
LiveBinding(b) == b.owner \notin HkSounds \/ b.owner \notin unlisted
LiveBindings == {b \in table : LiveBinding(b)}

Rank(b) == CASE b.owner = "control" -> 0 [] b.owner = "tab" -> 1 [] OTHER -> 2

\* Fault: also a binding that is not listed stands for its key.
RepresentsUnlisted(b) ==
  \A c \in table \ {b} :
    c.key = b.key => Rank(b) < Rank(c) \/ (Rank(b) = Rank(c) /\ b.id < c.id)

\* The one binding of its key that the backend is told of: of the live ones
\* first a control's, then a tab's, then the one that sorts first.
Represents(b) ==
  /\ LiveBinding(b)
  /\ \A c \in LiveBindings \ {b} :
       c.key = b.key => Rank(b) < Rank(c) \/ (Rank(b) = Rank(c) /\ b.id < c.id)
Wanted == {b \in table : Represents(b)}

\* load_hotkey_bindings_after: the first of those that sort after this id.
PageAfter(after) ==
  LET rows == {b \in Wanted : b.id > after}
  IN  {b \in rows : Cardinality({a \in rows : a.id < b.id}) < HkPageSize}
LastOf(page) == CHOOSE b \in page : \A a \in page : a.id <= b.id

\* Fault: who may share a key may share it with anyone.
ConflictUnlessSharing(id, c) ==
  \E b \in LiveBindings :
    /\ b.key = c.key /\ b.id # id
    /\ ~c.share
    /\ b.scope = HkNone \/ c.scope = HkNone \/ b.scope = c.scope

\* load_hotkey_conflict: the key is taken by another live binding, unless
\* both are of sounds that may share it, or of different tabs.
Conflict(id, c) ==
  \E b \in LiveBindings :
    /\ b.key = c.key /\ b.id # id
    /\ ~(c.share /\ b.owner \in HkSounds)
    /\ b.scope = HkNone \/ c.scope = HkNone \/ b.scope = c.scope

\* set_hotkey_binding replaces the binding with this id and the owner's
\* binding of the same scope; delete_hotkey_binding goes by the id.
Committed(id, c) ==
  IF c.key = HkNone THEN {b \in table : b.id # id}
  ELSE {b \in table : b.id # id /\ ~(b.owner = c.owner /\ b.scope = c.scope)}
         \cup {[id |-> id, owner |-> c.owner, scope |-> c.scope, key |-> c.key]}

-----------------------------------------------------------------------------
(* Commands: set_hotkey, set_control_hotkey, set_tab_hotkey. *)

HkAt(t, pc) == call[t].pc = pc
Step(t, new) == call' = [call EXCEPT ![t] = new]

HkHappens == edits + hkEvents < HkMaxEdits /\ hkEvents' = hkEvents + 1

\* A call without what its command no longer needs.
Forget(c) == [c EXCEPT !.command = NoCommand, !.id = 0]

FixedId(owner) == IF owner = "control" THEN ControlId ELSE TabId

Uncommitted == {t \in HkThreads : call[t].pc \in {"lookup", "check", "commit"}}

HkBegin(t) ==
  /\ HkAt(t, "idle") /\ edits + hkEvents + Cardinality(Uncommitted) < HkMaxEdits
  /\ \E o \in HkOwners, k \in HkKeys \cup {HkNone}, share \in BOOLEAN :
      \E scope \in IF o \in HkSounds THEN {HkNone, HkTab} ELSE {HkNone} :
        /\ o \notin HkSounds => ~share
        /\ k = HkNone => ~share
        /\ Step(t, [call[t] EXCEPT
                      !.pc = IF o \in HkSounds THEN "lookup" ELSE "check",
                      !.id = IF o \in HkSounds THEN 0 ELSE FixedId(o),
                      !.command = [owner |-> o, key |-> k, scope |-> scope, share |-> share]])
  /\ UNCHANGED <<table, unlisted, registered, backend, staged, gate, edits,
                 drifted, overlooked, hkEvents>>

\* hotkey_bindings_for_sound: the id of the binding to replace, or a new one.
HkLookup(t) ==
  LET c == call[t].command
      existing == {b \in table : b.owner = c.owner /\ b.scope = c.scope}
      taken == {b.id : b \in table} \cup {call[u].id : u \in HkThreads} \cup Range(registered)
  IN  /\ HkAt(t, "lookup")
      /\ \E id \in IF existing # {} THEN {b.id : b \in existing} ELSE SoundIds \ taken :
           Step(t, [call[t] EXCEPT !.pc = "check", !.id = id])
      /\ UNCHANGED <<table, unlisted, registered, backend, staged, gate, edits,
                     drifted, overlooked, hkEvents>>

\* ensure_store_hotkey_available. A command that clears checks nothing; one
\* whose key is taken ends here.
HkCheck(t) ==
  LET c == call[t].command
  IN  /\ HkAt(t, "check")
      /\ Step(t, IF c.key # HkNone /\ Conflict(call[t].id, c)
                 THEN [Forget(call[t]) EXCEPT !.pc = "idle"]
                 ELSE [call[t] EXCEPT !.pc = "commit"])
      /\ UNCHANGED <<table, unlisted, registered, backend, staged, gate, edits,
                     drifted, overlooked, hkEvents>>

\* commit_hotkey_binding's request.
HkCommit(t) ==
  /\ HkAt(t, "commit")
  /\ edits < HkMaxEdits
  /\ edits' = edits + 1
  /\ table' = Committed(call[t].id, call[t].command)
  /\ overlooked' = (overlooked \/ \E u \in HkThreads \ {t} : HkAt(u, "commit"))
  /\ Step(t, [Forget(call[t]) EXCEPT !.pc = "call", !.mine = edits'])
  /\ UNCHANGED <<unlisted, registered, backend, staged, gate, drifted, hkEvents>>

-----------------------------------------------------------------------------
(* ProjectionGate::reconcile. *)

HkEnter(t) ==
  /\ HkAt(t, "call")
  /\ gate' = [gate EXCEPT !.requested = @ + 1, !.running = TRUE]
  /\ Step(t, IF gate.running
             THEN [call[t] EXCEPT !.pc = "wait", !.generation = gate'.requested]
             ELSE [call[t] EXCEPT !.pc = "project", !.generation = gate'.requested,
                                  !.target = gate'.requested])
  /\ UNCHANGED <<table, unlisted, registered, backend, staged, edits, drifted,
                 overlooked, hkEvents>>

HkWake(t) ==
  /\ HkAt(t, "wait") /\ t \in gate.notified
  /\ gate' = [gate EXCEPT !.notified = @ \ {t}]
  /\ IF gate.completed < call[t].generation
       THEN UNCHANGED call
       ELSE Step(t, [call[t] EXCEPT !.pc = "done", !.result = gate.last])
  /\ UNCHANGED <<table, unlisted, registered, backend, staged, edits, drifted,
                 overlooked, hkEvents>>

\* Fault: a projection answers everyone who waits by now.
PublishToAll(t) ==
  LET last == HkOutcome(~call[t].error, call[t].seen)
  IN  /\ HkAt(t, "publish")
      /\ gate' = [gate EXCEPT !.completed = gate.requested, !.running = FALSE, !.last = last,
                              !.notified = {u \in HkThreads : HkAt(u, "wait")}]
      /\ Step(t, [call[t] EXCEPT !.pc = "done", !.result = last])
      /\ UNCHANGED <<table, unlisted, registered, backend, staged, edits, drifted,
                     overlooked, hkEvents>>

\* After a projection: finish, or project again for who came meanwhile.
HkPublish(t) ==
  LET target == call[t].target
      last == HkOutcome(~call[t].error, call[t].seen)
  IN  /\ HkAt(t, "publish")
      /\ IF gate.requested = target
         THEN /\ gate' = [gate EXCEPT !.completed = target, !.running = FALSE, !.last = last,
                                      !.notified = {u \in HkThreads : HkAt(u, "wait")}]
              /\ Step(t, [call[t] EXCEPT !.pc = "done", !.result = last])
         ELSE /\ gate' = [gate EXCEPT !.completed = target, !.last = last]
              /\ Step(t, [call[t] EXCEPT !.pc = "project", !.target = gate.requested])
      /\ UNCHANGED <<table, unlisted, registered, backend, staged, edits, drifted,
                     overlooked, hkEvents>>

HkReturn(t) ==
  /\ HkAt(t, "done")
  /\ Step(t, [call[t] EXCEPT !.pc = "idle"])
  /\ UNCHANGED <<table, unlisted, registered, backend, staged, gate, edits,
                 drifted, overlooked, hkEvents>>

-----------------------------------------------------------------------------
(* project_current_bindings with project_hotkey_pages_blocking. *)

\* stage_many. X11 stops at the first binding whose key another one has in the
\* candidate, and leaves the rest of the page out. (Two of one page have
\* different keys.)
Stage(candidate, page) ==
  LET clashes(b) == b.key \in DOMAIN candidate /\ candidate[b.key] # b.id
      taken == {b \in page : \A a \in page : clashes(a) => b.id < a.id}
  IN  [staged |-> [k \in DOMAIN candidate \cup {b.key : b \in taken} |->
                     IF k \in DOMAIN candidate THEN candidate[k]
                     ELSE (CHOOSE b \in taken : b.key = k).id],
       error |-> taken # page]

Finished(page) == Cardinality(page) < HkPageSize

\* The next page is read and staged; the last one is not full. The backend is
\* started for the first page with a binding. Starting it or reading a page may
\* fail, which aborts the projection.
HkReadPage(t) ==
  LET first == HkAt(t, "project")
      page  == PageAfter(IF first THEN 0 ELSE call[t].after)
      read  == Stage(IF first THEN Nothing ELSE staged, page)
      seen  == IF first THEN edits ELSE call[t].seen
      error == read.error \/ (~first /\ call[t].error)
      last  == Finished(page)
  IN  /\ first \/ HkAt(t, "page")
      /\ drifted' = (drifted /\ ~first)
      /\ \/ /\ backend' = (backend \/ page # {})
            /\ staged' = read.staged
            /\ Step(t, [call[t] EXCEPT !.pc = IF last THEN "stage" ELSE "page", !.seen = seen,
                                       !.error = error,
                                       !.after = IF last THEN 0 ELSE LastOf(page).id])
            /\ UNCHANGED hkEvents
         \/ /\ HkHappens
            /\ staged' = Nothing
            /\ Step(t, [call[t] EXCEPT !.pc = "publish", !.seen = seen, !.error = TRUE, !.after = 0])
            /\ UNCHANGED backend
      /\ UNCHANGED <<table, unlisted, registered, gate, edits, overlooked>>

\* commit_staged. X11 takes the candidate; swhkd writes it, reloads, and keeps
\* the last good configuration when that fails.
HkCommitStaged(t) ==
  /\ HkAt(t, "stage")
  /\ \/ /\ registered' = IF backend THEN staged ELSE registered
        /\ Step(t, [call[t] EXCEPT !.pc = "publish"])
        /\ UNCHANGED hkEvents
     \/ /\ backend /\ HkHappens
        /\ Step(t, [call[t] EXCEPT !.pc = "publish", !.error = TRUE])
        /\ UNCHANGED registered
  /\ staged' = Nothing
  /\ UNCHANGED <<table, unlisted, backend, gate, edits, drifted, overlooked>>

\* A folder is hidden or shown again in the sidebar, or a tab loses a sound:
\* nothing projects the hotkeys then.
HkHide ==
  /\ HkHappens
  /\ \E s \in HkSounds :
       unlisted' = IF s \in unlisted THEN unlisted \ {s} ELSE unlisted \cup {s}
  /\ drifted' = TRUE
  /\ overlooked' = (overlooked \/ ~(unlisted \subseteq unlisted'))
  /\ UNCHANGED <<table, registered, backend, staged, gate, call, edits>>

HkNext ==
  \/ HkHide
  \/ \E t \in HkThreads :
       \/ HkBegin(t) \/ HkLookup(t) \/ HkCheck(t) \/ HkCommit(t) \/ HkEnter(t)
       \/ HkReadPage(t) \/ HkCommitStaged(t) \/ HkPublish(t) \/ HkWake(t) \/ HkReturn(t)

HkSpec == HkInit /\ [][HkNext]_hkVars

-----------------------------------------------------------------------------
(* Properties. *)

HkCall ==
  [pc : {"idle", "lookup", "check", "commit", "call", "wait", "project", "page",
         "stage", "publish", "done"},
   command : [owner : HkOwners, key : HkKeys \cup {HkNone}, scope : {HkNone, HkTab},
              share : BOOLEAN],
   id : HkIds \cup {0}, mine : 0 .. HkMaxEdits, generation : Nat, target : Nat,
   seen : 0 .. HkMaxEdits, result : [ok : BOOLEAN, version : 0 .. HkMaxEdits],
   after : HkIds \cup {0}, error : BOOLEAN]

HotkeyTypeOK ==
  /\ table \subseteq [id : HkIds, owner : HkOwners, scope : {HkNone, HkTab}, key : HkKeys]
  /\ \A a, b \in table : a.id = b.id \/ (a.owner = b.owner /\ a.scope = b.scope) => a = b
  /\ unlisted \subseteq HkSounds
  /\ \A f \in {registered, staged} : DOMAIN f \subseteq HkKeys /\ Range(f) \subseteq HkIds
  /\ call \in [HkThreads -> HkCall]

\* A key of a control or a tab belongs to nobody else, unless two commands
\* overlapped between their checks and their commits, or a folder was shown
\* again: neither the table nor the commit looks at other keys.
ControlKeysAreTheirOwn ==
  overlooked \/ \A a, b \in LiveBindings :
    a.key = b.key /\ a # b => {a.owner, b.owner} \subseteq HkSounds

\* When the commands have answered, the backend answers to the keys of the
\* live bindings and to no others, with a control's binding where there is
\* one: no page of a projection that other commands changed in between is
\* left standing.
BackendFollowsTheTable ==
  (\A t \in HkThreads : call[t].pc \in {"idle", "lookup", "check", "commit"})
    /\ gate.last.ok /\ ~drifted =>
  /\ DOMAIN registered = {b.key : b \in LiveBindings}
  /\ \A k \in DOMAIN registered : \E b \in LiveBindings :
       /\ b.id = registered[k] /\ b.key = k
       /\ (\E c \in LiveBindings : c.key = k /\ c.owner = "control") => b.owner = "control"

\* A projection of many pages, staging and commit is one step of the gate
\* with one outcome: the pages are read after the step that counts.
Gate == INSTANCE ProjectionGate WITH
  Threads <- HkThreads, MaxEdits <- HkMaxEdits, version <- edits,
  requested <- gate.requested, completed <- gate.completed, running <- gate.running,
  last <- gate.last, notified <- gate.notified,
  pc <- [t \in HkThreads |->
          CASE call[t].pc \in {"lookup", "check", "commit"} -> "idle"
            [] call[t].pc \in {"page", "stage"} -> "publish"
            [] OTHER -> call[t].pc],
  mine <- [t \in HkThreads |-> call[t].mine],
  generation <- [t \in HkThreads |-> call[t].generation],
  target <- [t \in HkThreads |-> call[t].target],
  seen <- [t \in HkThreads |-> call[t].seen],
  result <- [t \in HkThreads |-> call[t].result]

\* commands/hotkeys.rs and the paged projection implement the gate, so what
\* is proved of the gate (every answer covers the caller's own edit, no two
\* projections overlap) holds of them.  This is Gate!Spec; a step that leaves
\* all variables alone is recognised as one without a look at the gate.
ImplementsGate == Gate!Init /\ [][UNCHANGED hkVars \/ [Gate!Next]_(Gate!vars)]_hkVars
=============================================================================
