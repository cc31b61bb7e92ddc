--------------------------- MODULE ProjectionGate ---------------------------
(***************************************************************************)
(* The single-flight gate of the hotkey projection (hotkeys/projection.rs).*)
(*                                                                         *)
(* Commands edit the persisted hotkey bindings and then call reconcile,    *)
(* which writes all bindings to the hotkey backend.  A projection is slow, *)
(* so one thread leads and runs it, the others wait on a condition         *)
(* variable; the leader runs again when requests came in meanwhile.        *)
(* "version" counts the edits: it stands for the bindings a projection     *)
(* read, which is what a caller needs to be recent enough.                 *)
(***************************************************************************)
EXTENDS Naturals, FiniteSets

CONSTANTS
  Threads,  \* threads that edit hotkeys
  MaxEdits  \* bound on the edits, and so on the requests

ASSUME EditsAssumption == MaxEdits \in Nat

VARIABLES
  version,   \* edits of the persisted bindings
  requested, \* ProjectionGateState.requested
  completed, \* ProjectionGateState.completed
  running,   \* ProjectionGateState.running
  last,      \* ProjectionGateState.error, with the version of its projection
  notified,  \* waiters that notify_all has released and that have not run yet
  pc,        \* where each thread is in its call
  mine,      \* the version a thread's own edit produced
  generation,\* reconcile's local variable
  target,    \* reconcile's local variable, of the leader
  seen,      \* the version the leader's running projection has read
  result     \* what reconcile returned to the thread

gateVars == <<requested, completed, running, last, notified>>
localVars == <<generation, target, seen, result>>
vars == <<version, gateVars, pc, mine, localVars>>

Versions == 0 .. MaxEdits
Outcome == [ok : BOOLEAN, version : Versions]
NoOutcome == [ok |-> TRUE, version |-> 0]

TypeOK ==
  /\ version \in Versions
  /\ requested \in Nat
  /\ completed \in 0 .. requested
  /\ running \in BOOLEAN
  /\ last \in Outcome
  /\ notified \subseteq Threads
  /\ pc \in [Threads -> {"idle", "call", "wait", "project", "publish", "done"}]
  /\ mine \in [Threads -> Versions]
  /\ generation \in [Threads -> 0 .. requested]
  /\ target \in [Threads -> 0 .. requested]
  /\ seen \in [Threads -> Versions]
  /\ result \in [Threads -> Outcome]

Init ==
  /\ version = 0
  /\ requested = 0
  /\ completed = 0
  /\ running = FALSE
  /\ last = NoOutcome
  /\ notified = {}
  /\ pc = [t \in Threads |-> "idle"]
  /\ mine = [t \in Threads |-> 0]
  /\ generation = [t \in Threads |-> 0]
  /\ target = [t \in Threads |-> 0]
  /\ seen = [t \in Threads |-> 0]
  /\ result = [t \in Threads |-> NoOutcome]

At(t, place) == pc[t] = place
Goto(t, place) == pc' = [pc EXCEPT ![t] = place]

\* A command commits its edit of the bindings before it reconciles.
Edit(t) ==
  /\ At(t, "idle") /\ Goto(t, "call")
  /\ version < MaxEdits
  /\ version' = version + 1
  /\ mine' = [mine EXCEPT ![t] = version']
  /\ UNCHANGED <<gateVars, localVars>>

\* The first critical section: join the running projection, or lead.
Enter(t) ==
  /\ At(t, "call")
  /\ requested' = requested + 1
  /\ generation' = [generation EXCEPT ![t] = requested']
  /\ \/ /\ running
        /\ Goto(t, "wait")
        /\ UNCHANGED <<running, target>>
     \/ /\ ~running
        /\ running' = TRUE
        /\ target' = [target EXCEPT ![t] = requested']
        /\ Goto(t, "project")
  /\ UNCHANGED <<version, completed, last, notified, mine, seen, result>>

\* project() reads the bindings, outside the lock and page by page. An edit
\* committed before the first page is in what was read; one that comes between
\* two pages may be or not, so "seen" is the version at the first page.
Project(t) ==
  /\ At(t, "project") /\ Goto(t, "publish")
  /\ seen' = [seen EXCEPT ![t] = version]
  /\ UNCHANGED <<version, gateVars, mine, generation, target, result>>

\* The leader ends its call and leaves "woken" to run.
Finish(t, woken) ==
  /\ running' = FALSE
  /\ notified' = woken
  /\ result' = [result EXCEPT ![t] = last']
  /\ Goto(t, "done")
  /\ UNCHANGED target

\* The leader projects again, for the requests that came in meanwhile.
RunAgain(t) ==
  /\ target' = [target EXCEPT ![t] = requested]
  /\ Goto(t, "project")
  /\ UNCHANGED <<running, notified, result>>

Waiters == {w \in Threads : At(w, "wait")}

PublishOutcome(t) ==
  /\ At(t, "publish")
  /\ \E ok \in BOOLEAN : last' = [ok |-> ok, version |-> seen[t]]
  /\ UNCHANGED <<version, requested, mine, generation, seen>>

\* Fault: a projection counts for every request that has been made.
PublishForEveryone(t) ==
  /\ PublishOutcome(t)
  /\ completed' = requested
  /\ Finish(t, Waiters)

\* Fault: the requests that came in are left to the next leader.
PublishOnce(t) ==
  /\ PublishOutcome(t)
  /\ completed' = target[t]
  /\ Finish(t, Waiters)

\* The leader's critical section after a projection that succeeded or failed:
\* finish and wake everyone, or run again.
Publish(t) ==
  /\ PublishOutcome(t)
  /\ completed' = target[t]
  /\ IF requested = target[t] THEN Finish(t, Waiters) ELSE RunAgain(t)

\* A released waiter takes the lock again and tests its condition.
Wake(t) ==
  /\ At(t, "wait") /\ t \in notified
  /\ notified' = notified \ {t}
  /\ IF completed < generation[t]
       THEN UNCHANGED <<pc, result>>
       ELSE /\ result' = [result EXCEPT ![t] = last]
            /\ Goto(t, "done")
  /\ UNCHANGED <<version, requested, completed, running, last, mine,
                 generation, target, seen>>

\* The command has its answer; the thread may run another one later.
Return(t) ==
  /\ At(t, "done") /\ Goto(t, "idle")
  /\ UNCHANGED <<version, gateVars, mine, localVars>>

Next ==
  \E t \in Threads :
    Edit(t) \/ Enter(t) \/ Project(t) \/ Publish(t) \/ Wake(t) \/ Return(t)

Spec == Init /\ [][Next]_vars

\* Threads inside reconcile are scheduled, and a projection comes to an end.
\* No thread has to edit anything.
Fairness ==
  \A t \in Threads :
    WF_vars(Enter(t)) /\ WF_vars(Project(t)) /\ WF_vars(Publish(t)) /\ WF_vars(Wake(t))

FairSpec == Spec /\ Fairness

-----------------------------------------------------------------------------
(* Properties. *)

Leading(t) == pc[t] \in {"project", "publish"}

\* Projections never overlap: two of them writing the hotkey backend at once
\* would interleave two generations of bindings.
OneProjection ==
  /\ \A t, u \in Threads : Leading(t) /\ Leading(u) => t = u
  /\ running <=> \E t \in Threads : Leading(t)

\* Whatever reconcile returns, success or error, is the outcome of a
\* projection that read the bindings after the caller's own edit, also for a
\* caller that joined a projection which had already read older bindings.
ReturnIsCovered ==
  \A t \in Threads : At(t, "done") => mine[t] <= result[t].version

\* A thread that waits and has not been notified still has a leader that
\* will notify it: no wakeup is lost between the last projection of a leader
\* and a request that arrives during it.
NoLostWakeup ==
  \A t \in Threads : At(t, "wait") /\ t \notin notified => running

\* Every caller that joined gets its answer.
WaitersReturn ==
  \A t \in Threads : At(t, "wait") ~> At(t, "done")
=============================================================================
