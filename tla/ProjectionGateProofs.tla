------------------------ MODULE ProjectionGateProofs ------------------------
(***************************************************************************)
(* Proofs about the projection gate, for any number of threads and edits.  *)
(* The inductive invariant ties a request's number to the bindings read:   *)
(* a projection with target n covers the edit behind every request up to   *)
(* n, because requests are numbered after their edit is committed and the  *)
(* target is chosen before the projection reads.                           *)
(***************************************************************************)
EXTENDS ProjectionGate, TLAPS

Inside(t) == pc[t] \in {"wait", "project", "publish"}

\* A target is a request that came in, at or after the leader's own.
TargetInv ==
  \A l \in Threads : Leading(l) => completed <= target[l] /\ generation[l] <= target[l]

\* Only waiters are notified, and only once their request is completed.
NotifiedInv ==
  \A t \in notified : At(t, "wait") /\ generation[t] <= completed

VersionInv == \A t \in Threads : mine[t] <= version

\* What a completed request's caller will find.
CompletedInv ==
  \A t \in Threads : At(t, "wait") /\ generation[t] <= completed => mine[t] <= last.version

\* What the running projection has read is enough for its requests.
SeenInv ==
  \A l, t \in Threads :
    At(l, "publish") /\ Inside(t) /\ generation[t] <= target[l] => mine[t] <= seen[l]

IInv ==
  /\ TypeOK
  /\ OneProjection
  /\ TargetInv
  /\ NotifiedInv
  /\ VersionInv
  /\ CompletedInv
  /\ SeenInv
  /\ ReturnIsCovered
  /\ NoLostWakeup

-----------------------------------------------------------------------------
\* The initial state is well typed.
LEMMA InitType == Init => TypeOK
<1> SUFFICES ASSUME Init PROVE TypeOK
  OBVIOUS
<1>1. 0 \in Versions /\ NoOutcome \in Outcome
  BY EditsAssumption DEF Versions, Outcome, NoOutcome
<1>2. requested = 0 /\ 0 \in 0 .. 0
  BY DEF Init
<1>3. /\ generation \in [Threads -> 0 .. requested]
      /\ target \in [Threads -> 0 .. requested]
  BY <1>2 DEF Init
<1>4. /\ mine \in [Threads -> Versions]
      /\ seen \in [Threads -> Versions]
      /\ result \in [Threads -> Outcome]
      /\ pc \in [Threads -> {"idle", "call", "wait", "project", "publish", "done"}]
  BY <1>1 DEF Init
<1>5. version \in Versions /\ last \in Outcome /\ completed \in 0 .. requested
  BY <1>1, <1>2 DEF Init
<1>6. requested \in Nat /\ running \in BOOLEAN /\ notified \subseteq Threads
  BY DEF Init
<1> QED BY <1>3, <1>4, <1>5, <1>6 DEF TypeOK

\* The model has the types TypeOK says: in particular no request is counted as
\* completed before it was made.
THEOREM TypeInvariant == Spec => []TypeOK
<1> USE EditsAssumption
<1>1. Init => TypeOK
  BY InitType
<1>2. TypeOK /\ [Next]_vars => TypeOK'
  <2> SUFFICES ASSUME TypeOK, [Next]_vars PROVE TypeOK'
    OBVIOUS
  <2> USE DEF TypeOK, Versions, At, Goto
  <2>1. ASSUME NEW t \in Threads, Edit(t) PROVE TypeOK'
    BY <2>1 DEF Edit, gateVars, localVars
  <2>2. ASSUME NEW t \in Threads, Enter(t) PROVE TypeOK'
    <3>1. requested \in Nat /\ requested' = requested + 1
      BY <2>2 DEF Enter
    <3>2. 0 .. requested \subseteq 0 .. requested' /\ requested' \in 0 .. requested'
      BY <3>1
    <3>3. generation' \in [Threads -> 0 .. requested']
      <4>1. generation \in [Threads -> 0 .. requested']
        BY <3>2
      <4> QED BY <2>2, <3>2, <4>1 DEF Enter
    <3>4. target' \in [Threads -> 0 .. requested']
      <4>1. target \in [Threads -> 0 .. requested']
        BY <3>2
      <4>2. target' = target \/ target' = [target EXCEPT ![t] = requested']
        BY <2>2 DEF Enter
      <4> QED BY <3>2, <4>1, <4>2
    <3>5. pc' \in [Threads -> {"idle", "call", "wait", "project", "publish", "done"}]
      BY <2>2 DEF Enter
    <3>6. completed' \in 0 .. requested'
      BY <2>2, <3>2 DEF Enter
    <3>7. /\ version' \in Versions /\ last' \in Outcome /\ notified' \subseteq Threads
          /\ running' \in BOOLEAN /\ mine' \in [Threads -> Versions]
          /\ seen' \in [Threads -> Versions] /\ result' \in [Threads -> Outcome]
      BY <2>2 DEF Enter
    <3> QED BY <3>1, <3>3, <3>4, <3>5, <3>6, <3>7
  <2>3. ASSUME NEW t \in Threads, Project(t) PROVE TypeOK'
    BY <2>3 DEF Project, gateVars
  <2>4. ASSUME NEW t \in Threads, Publish(t) PROVE TypeOK'
    <3>1. last' \in Outcome
      BY <2>4 DEF Publish, PublishOutcome, Outcome
    <3>2. requested' = requested /\ completed' \in 0 .. requested
      BY <2>4 DEF Publish, PublishOutcome
    <3>3. CASE requested = target[t]
      BY <2>4, <3>1, <3>2, <3>3 DEF Publish, PublishOutcome, Finish, Waiters
    <3>4. CASE requested # target[t]
      BY <2>4, <3>1, <3>2, <3>4 DEF Publish, PublishOutcome, RunAgain
    <3> QED BY <3>3, <3>4
  <2>5. ASSUME NEW t \in Threads, Wake(t) PROVE TypeOK'
    BY <2>5 DEF Wake
  <2>6. ASSUME NEW t \in Threads, Return(t) PROVE TypeOK'
    BY <2>6 DEF Return, gateVars, localVars
  <2>7. CASE UNCHANGED vars
    BY <2>7 DEF vars, gateVars, localVars
  <2> QED BY <2>1, <2>2, <2>3, <2>4, <2>5, <2>6, <2>7 DEF Next
<1> QED BY <1>1, <1>2, PTL DEF Spec

\* Nobody is inside the gate initially, so the strengthening holds.
LEMMA InitInv == Init => IInv
  BY InitType
  DEF Init, IInv, TypeOK, OneProjection, Leading, At, Inside, TargetInv, NotifiedInv,
      VersionInv, CompletedInv, SeenInv, ReturnIsCovered, NoLostWakeup

\* Every step keeps the strengthening, whatever thread takes it.
LEMMA NextInv == IInv /\ TypeOK' /\ [Next]_vars => IInv'
<1> SUFFICES ASSUME IInv, TypeOK', [Next]_vars PROVE IInv'
  OBVIOUS
<1> USE EditsAssumption DEF IInv, At, Goto, Leading, Inside
<1>1. ASSUME NEW t \in Threads, Edit(t) PROVE IInv'
  <2> USE <1>1 DEF Edit, gateVars, localVars
  <2>1. \A u \in Threads \ {t} : pc'[u] = pc[u] /\ mine'[u] = mine[u]
    BY DEF TypeOK
  <2>2. pc'[t] = "call" /\ mine'[t] = version + 1 /\ pc[t] = "idle"
    BY DEF TypeOK
  <2>3. OneProjection'
    BY <2>1, <2>2 DEF OneProjection
  <2>4. TargetInv' /\ NotifiedInv' /\ NoLostWakeup'
    BY <2>1, <2>2 DEF TargetInv, NotifiedInv, NoLostWakeup, TypeOK
  <2>5. VersionInv'
    BY <2>1, <2>2 DEF VersionInv, TypeOK, Versions
  <2>6. CompletedInv'
    BY <2>1, <2>2 DEF CompletedInv
  <2>7. SeenInv'
    BY <2>1, <2>2 DEF SeenInv
  <2>8. ReturnIsCovered'
    BY <2>1, <2>2 DEF ReturnIsCovered
  <2> QED BY <2>3, <2>4, <2>5, <2>6, <2>7, <2>8
<1>2. ASSUME NEW t \in Threads, Enter(t) PROVE IInv'
  <2> USE <1>2 DEF Enter
  <2>1. \A u \in Threads \ {t} :
          pc'[u] = pc[u] /\ generation'[u] = generation[u] /\ target'[u] = target[u]
    BY DEF TypeOK
  <2>2. /\ pc[t] = "call"
        /\ generation'[t] = requested + 1
        /\ \/ running /\ running' /\ pc'[t] = "wait" /\ target'[t] = target[t]
           \/ ~running /\ running' /\ pc'[t] = "project" /\ target'[t] = requested + 1
    BY DEF TypeOK
  <2>3. OneProjection'
    BY <2>1, <2>2 DEF OneProjection
  <2>4. TargetInv'
    BY <2>1, <2>2 DEF TargetInv, TypeOK
  <2>5. NotifiedInv' /\ NoLostWakeup'
    BY <2>1, <2>2 DEF NotifiedInv, NoLostWakeup, TypeOK
  <2>6. CompletedInv'
    BY <2>1, <2>2 DEF CompletedInv, TypeOK
  <2>7. SeenInv'
    <3> SUFFICES ASSUME NEW l \in Threads, NEW u \in Threads, At(l, "publish")',
                        Inside(u)', generation'[u] <= target'[l]
                 PROVE  mine[u] <= seen[l]
      BY DEF SeenInv
    <3>1. l # t /\ pc[l] = "publish" /\ target'[l] = target[l] /\ target[l] \in 0 .. requested
      BY <2>1, <2>2 DEF TypeOK
    <3>2. u # t
      BY <2>2, <3>1 DEF TypeOK
    <3> QED BY <2>1, <3>1, <3>2 DEF SeenInv
  <2>8. ReturnIsCovered'
    BY <2>1, <2>2 DEF ReturnIsCovered
  <2> QED BY <2>3, <2>4, <2>5, <2>6, <2>7, <2>8 DEF VersionInv
<1>3. ASSUME NEW t \in Threads, Project(t) PROVE IInv'
  <2> USE <1>3 DEF Project, gateVars
  <2>1. \A u \in Threads \ {t} : pc'[u] = pc[u] /\ seen'[u] = seen[u]
    BY DEF TypeOK
  <2>2. pc[t] = "project" /\ pc'[t] = "publish" /\ seen'[t] = version
    BY DEF TypeOK
  <2>3. OneProjection'
    BY <2>1, <2>2 DEF OneProjection
  <2>4. TargetInv' /\ NotifiedInv' /\ NoLostWakeup'
    BY <2>1, <2>2 DEF TargetInv, NotifiedInv, NoLostWakeup, TypeOK
  <2>5. CompletedInv' /\ ReturnIsCovered'
    BY <2>1, <2>2 DEF CompletedInv, ReturnIsCovered
  <2>6. SeenInv'
    BY <2>1, <2>2 DEF SeenInv, VersionInv
  <2> QED BY <2>3, <2>4, <2>5, <2>6 DEF VersionInv
<1>4. ASSUME NEW t \in Threads, Publish(t) PROVE IInv'
  <2> USE <1>4 DEF Publish, PublishOutcome
  <2>1. /\ pc[t] = "publish" /\ last'.version = seen[t] /\ completed' = target[t]
        /\ Leading(t) /\ running
        /\ \A u \in Threads \ {t} : ~Leading(u)
    BY DEF OneProjection
  <2>2. \A u \in Threads : Inside(u) /\ generation[u] <= target[t] => mine[u] <= seen[t]
    BY <2>1 DEF SeenInv
  <2>3. mine[t] <= seen[t] /\ completed <= target[t] /\ generation[t] <= target[t]
    BY <2>1, <2>2 DEF TargetInv
  <2>4. CASE requested = target[t]
    <3> USE <2>4 DEF Finish, Waiters
    <3>1. \A u \in Threads \ {t} : pc'[u] = pc[u] /\ result'[u] = result[u]
      BY DEF TypeOK
    <3>2. pc'[t] = "done" /\ result'[t] = last' /\ ~running'
      BY DEF TypeOK
    <3>3. OneProjection' /\ TargetInv' /\ SeenInv'
      BY <2>1, <3>1, <3>2 DEF OneProjection, TargetInv, SeenInv
    <3>4. NotifiedInv'
      BY <2>1, <3>1 DEF NotifiedInv, TypeOK
    <3>5. CompletedInv'
      BY <2>1, <2>2, <3>1, <3>2 DEF CompletedInv
    <3>6. ReturnIsCovered'
      BY <2>1, <2>3, <3>1, <3>2 DEF ReturnIsCovered
    <3>7. NoLostWakeup'
      BY <3>1, <3>2 DEF NoLostWakeup
    <3> QED BY <3>3, <3>4, <3>5, <3>6, <3>7 DEF VersionInv
  <2>5. CASE requested # target[t]
    <3> USE <2>5 DEF RunAgain
    <3>1. \A u \in Threads \ {t} : pc'[u] = pc[u] /\ target'[u] = target[u]
      BY DEF TypeOK
    <3>2. pc'[t] = "project" /\ target'[t] = requested /\ running'
      BY <2>1 DEF TypeOK
    <3>3. OneProjection' /\ SeenInv'
      BY <2>1, <3>1, <3>2 DEF OneProjection, SeenInv
    <3>4. TargetInv'
      BY <2>1, <3>1, <3>2 DEF TargetInv, TypeOK
    <3>5. NotifiedInv'
      BY <2>1, <2>3, <3>1, <3>2 DEF NotifiedInv, TypeOK
    <3>6. CompletedInv'
      BY <2>1, <2>2, <3>1, <3>2 DEF CompletedInv
    <3>7. ReturnIsCovered' /\ NoLostWakeup'
      BY <3>1, <3>2 DEF ReturnIsCovered, NoLostWakeup
    <3> QED BY <3>3, <3>4, <3>5, <3>6, <3>7 DEF VersionInv
  <2> QED BY <2>4, <2>5
<1>5. ASSUME NEW t \in Threads, Wake(t) PROVE IInv'
  <2> USE <1>5 DEF Wake
  <2>1. generation[t] <= completed /\ ~(completed < generation[t])
    BY DEF NotifiedInv, TypeOK
  <2>2. \A u \in Threads \ {t} : pc'[u] = pc[u] /\ result'[u] = result[u]
    BY DEF TypeOK
  <2>3. pc[t] = "wait" /\ pc'[t] = "done" /\ result'[t] = last
    BY <2>1 DEF TypeOK
  <2>4. OneProjection' /\ TargetInv' /\ SeenInv'
    BY <2>2, <2>3 DEF OneProjection, TargetInv, SeenInv
  <2>5. NotifiedInv' /\ NoLostWakeup'
    BY <2>2, <2>3 DEF NotifiedInv, NoLostWakeup, TypeOK
  <2>6. CompletedInv'
    BY <2>2, <2>3 DEF CompletedInv
  <2>7. ReturnIsCovered'
    BY <2>1, <2>2, <2>3 DEF ReturnIsCovered, CompletedInv
  <2> QED BY <2>4, <2>5, <2>6, <2>7 DEF VersionInv
<1>6. ASSUME NEW t \in Threads, Return(t) PROVE IInv'
  <2> USE <1>6 DEF Return, gateVars, localVars
  <2>1. \A u \in Threads \ {t} : pc'[u] = pc[u]
    BY DEF TypeOK
  <2>2. pc[t] = "done" /\ pc'[t] = "idle"
    BY DEF TypeOK
  <2>3. OneProjection' /\ TargetInv' /\ SeenInv'
    BY <2>1, <2>2 DEF OneProjection, TargetInv, SeenInv
  <2>4. NotifiedInv' /\ NoLostWakeup'
    BY <2>1, <2>2 DEF NotifiedInv, NoLostWakeup, TypeOK
  <2>5. CompletedInv' /\ ReturnIsCovered'
    BY <2>1, <2>2 DEF CompletedInv, ReturnIsCovered
  <2> QED BY <2>3, <2>4, <2>5 DEF VersionInv
<1>7. CASE UNCHANGED vars
  BY <1>7 DEF vars, gateVars, localVars, OneProjection, TargetInv, NotifiedInv,
              VersionInv, CompletedInv, SeenInv, ReturnIsCovered, NoLostWakeup
<1> QED BY <1>1, <1>2, <1>3, <1>4, <1>5, <1>6, <1>7 DEF Next

\* The strengthening holds in every reachable state of the gate.
THEOREM InductiveInvariant == Spec => []IInv
  BY TypeInvariant, InitInv, NextInv, PTL DEF Spec

\* Projections never overlap.
THEOREM ProjectionsAreExclusive == Spec => []OneProjection
<1>1. IInv => OneProjection
  BY DEF IInv
<1> QED BY <1>1, InductiveInvariant, PTL

\* A caller's answer is the outcome of a projection that read its own edit.
THEOREM AnswersCoverTheEdit == Spec => []ReturnIsCovered
<1>1. IInv => ReturnIsCovered
  BY DEF IInv
<1> QED BY <1>1, InductiveInvariant, PTL

\* Nobody waits without a leader that will notify it.
THEOREM WakeupsAreNotLost == Spec => []NoLostWakeup
<1>1. IInv => NoLostWakeup
  BY DEF IInv
<1> QED BY <1>1, InductiveInvariant, PTL
=============================================================================
