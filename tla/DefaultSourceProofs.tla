------------------------- MODULE DefaultSourceProofs -------------------------
(***************************************************************************)
(* What holds of the default-source protocol for any set of microphones    *)
(* and any number of changes by the user and the system.                   *)
(***************************************************************************)
EXTENDS DefaultSource, FiniteSetTheorems, TLAPS

-----------------------------------------------------------------------------
(* Types. *)

\* Publishing a default keeps the value a name and the queue a sequence of
\* messages.
LEMMA PublishType ==
  ASSUME NEW n \in Names, NEW queue \in Seq(Message), PublishDefault(n, queue)
  PROVE  runtimeDefault' \in Names /\ inbox' \in Seq(Message)
<1>1. Property(n) \in Message
  BY DEF Property, Message
<1>2. Append(queue, Property(n)) \in Seq(Message)
  BY <1>1
<1>. QED
  BY <1>2 DEF PublishDefault

\* The same of asking WirePlumber for a source.
LEMMA ConfigureType ==
  ASSUME TypeOK, NEW n \in Sources, ConfigureDefault(n)
  PROVE  configured' \in Names /\ runtimeDefault' \in Names /\ inbox' \in Seq(Message)
<1>1. n \in Names
  BY DEF Names
<1>2. CASE configured = n
  BY <1>2 DEF ConfigureDefault, TypeOK
<1>3. CASE configured # n
  BY <1>1, <1>3, PublishType DEF ConfigureDefault, TypeOK
<1>. QED
  BY <1>2, <1>3

\* A command of wpctl or pactl for a source keeps the types.
LEMMA CommandType ==
  ASSUME TypeOK, NEW n \in Sources, Command(n)
  PROVE  configured' \in Names /\ runtimeDefault' \in Names /\ inbox' \in Seq(Message)
<1>1. CASE ConfigureDefault(n)
  BY <1>1, ConfigureType
<1>2. CASE UNCHANGED <<configured, runtimeDefault, inbox>>
  BY <1>2 DEF TypeOK
<1>. QED
  BY <1>1, <1>2 DEF Command

\* Starting a worker keeps its flag and its job well typed.
LEMMA SpawnType ==
  ASSUME TypeOK, NEW target \in Sources, Spawn(target)
  PROVE  inFlight' \in BOOLEAN /\ workers' \subseteq Job
<1>1. [target |-> target, step |-> "wpctl"] \in Job
  BY DEF Job
<1>. QED
  BY <1>1 DEF Spawn, TypeOK, workerVars

\* Claiming keeps the belief and the worker well typed.
LEMMA ClaimType ==
  ASSUME TypeOK, NEW m, NEW known, NEW name \in Names, NEW prev \in Names,
         NEW held \in BOOLEAN, Claim(m, known, name, prev, held)
  PROVE  /\ previous' \in Names /\ claimed' \in BOOLEAN
         /\ inFlight' \in BOOLEAN /\ workers' \subseteq Job
<1>1. Virtual \in Sources
  BY DEF Sources
<1>2. CASE Spawn(Virtual) /\ claimed' = TRUE /\ previous' = Remember(prev, name)
  BY <1>1, <1>2, SpawnType DEF Remember
<1>3. CASE previous' = prev /\ claimed' = held /\ UNCHANGED workerVars
  BY <1>3 DEF workerVars, TypeOK
<1>. QED
  BY <1>2, <1>3 DEF Claim

\* A message at the head of the queue, and what is behind it, are messages.
LEMMA HeadType ==
  ASSUME TypeOK, NEW kind, Receive(kind)
  PROVE  /\ Head(inbox) \in Message
         /\ Tail(inbox) \in Seq(Message)
         /\ kind = "property" => Head(inbox).name \in Names
         /\ kind \in {"added", "removed"} => Head(inbox).name \in Sources
<1>1. Head(inbox) \in Message /\ Tail(inbox) \in Seq(Message)
  BY DEF TypeOK, Receive
<1>. QED
  BY <1>1 DEF Receive, Message

USE NamesAssumption

\* Every step keeps the types.
LEMMA TypeStep == TypeOK /\ [Next]_vars => TypeOK'
<1>. SUFFICES ASSUME TypeOK, [Next]_vars PROVE TypeOK'
  OBVIOUS
<1>. USE DEF TypeOK, systemVars, workerVars, beliefVars, shutdownVars
<1>1. ASSUME NEW n \in Sources, UserPicks(n) PROVE TypeOK'
  BY <1>1, ConfigureType DEF UserPicks, Budget
<1>2. ASSUME NEW n \in Sources, NodeAppears(n) PROVE TypeOK'
  <2>1. PICK d \in IF live /\ configured = n
                     THEN {n} \cup ({NoName} \cap {runtimeDefault})
                     ELSE {runtimeDefault} :
             PublishDefault(d, Append(inbox, [kind |-> "added", name |-> n]))
    BY <1>2 DEF NodeAppears
  <2>2. d \in Names
    BY <2>1 DEF Names
  <2>3. Append(inbox, [kind |-> "added", name |-> n]) \in Seq(Message)
    BY DEF Message
  <2>4. runtimeDefault' \in Names /\ inbox' \in Seq(Message)
    BY <2>1, <2>2, <2>3, PublishType
  <2>. QED
    BY <1>2, <2>4 DEF NodeAppears
<1>3. ASSUME NEW n \in Sources, NodeVanishes(n) PROVE TypeOK'
  <2>1. PICK d \in IF runtimeDefault = n
                     THEN {NoName} \cup ((graph \cap Mics) \ {n})
                     ELSE {runtimeDefault} :
             PublishDefault(d, Append(inbox, [kind |-> "removed", name |-> n]))
    BY <1>3 DEF NodeVanishes
  <2>2. d \in Names
    BY <2>1 DEF Names, Sources
  <2>3. Append(inbox, [kind |-> "removed", name |-> n]) \in Seq(Message)
    BY DEF Message
  <2>4. runtimeDefault' \in Names /\ inbox' \in Seq(Message)
    BY <2>1, <2>2, <2>3, PublishType
  <2>. QED
    BY <1>3, <2>4 DEF NodeVanishes, Budget
<1>4. ASSUME MetadataAppears PROVE TypeOK'
  <2>1. Append(inbox, [kind |-> "bound"]) \in Seq(Message)
    BY DEF Message
  <2>. QED
    BY <1>4, <2>1 DEF MetadataAppears, Names
<1>5. ASSUME MetadataGone PROVE TypeOK'
  <2>1. Append(inbox, [kind |-> "gone"]) \in Seq(Message)
    BY DEF Message
  <2>2. NoName \in Names /\ changes' \in 0 .. MaxChanges
    BY <1>5 DEF MetadataGone, Budget, Names
  <2>3. live' = FALSE /\ subscribed' = FALSE
    BY <1>5 DEF MetadataGone
  <2>. QED
    BY <1>5, <2>1, <2>2, <2>3 DEF MetadataGone
<1>6. ASSUME NEW n \in Sources, DefaultChanged(n) PROVE TypeOK'
  <2>1. n \in Names
    BY DEF Names
  <2>2. inbox' \in Seq(Message)
    BY <1>6, HeadType DEF DefaultChanged
  <2>3. /\ previous' \in Names /\ claimed' \in BOOLEAN
        /\ inFlight' \in BOOLEAN /\ workers' \subseteq Job
    <3>1. CASE mode = "Manual" \/ n = Virtual
      BY <1>6, <3>1 DEF DefaultChanged
    <3>2. CASE ~ (mode = "Manual" \/ n = Virtual)
      <4>1. Claim(mode, sources, n, IF previous = NoName THEN n ELSE previous, claimed)
        BY <1>6, <3>2 DEF DefaultChanged
      <4>2. (IF previous = NoName THEN n ELSE previous) \in Names
        BY <2>1
      <4>. QED
        BY <4>1, <4>2, <2>1, ClaimType
    <3>. QED
      BY <3>1, <3>2
  <2>. QED
    BY <1>6, <2>1, <2>2, <2>3 DEF DefaultChanged
<1>7. ASSUME DefaultCleared PROVE TypeOK'
  <2>1. NoName \in Names /\ Virtual \in Names /\ Tail(inbox) \in Seq(Message)
    BY <1>7, HeadType DEF DefaultCleared, Names, Sources
  <2>2. CASE mode = "Manual"
    BY <1>7, <2>1, <2>2 DEF DefaultCleared
  <2>3. CASE mode # "Manual"
    <3>1. runtimeDefault' \in Names /\ inbox' \in Seq(Message)
      BY <1>7, <2>1, <2>3, PublishType DEF DefaultCleared, WriteRuntimeKey
    <3>2. /\ previous' \in Names /\ claimed' \in BOOLEAN
          /\ inFlight' \in BOOLEAN /\ workers' \subseteq Job
      <4>1. Claim(mode, sources, NoName, previous, claimed)
        BY <1>7, <2>3 DEF DefaultCleared
      <4>. QED
        BY <4>1, <2>1, ClaimType
    <3>. QED
      BY <1>7, <2>1, <3>1, <3>2 DEF DefaultCleared
  <2>. QED
    BY <2>2, <2>3
<1>8. ASSUME MetadataBound PROVE TypeOK'
  <2>1. NoName \in Names /\ Tail(inbox) \in Seq(Message)
    BY <1>8, HeadType DEF MetadataBound, Names
  <2>2. Property(runtimeDefault) \in Message
    BY DEF Property, Message
  <2>3. Append(Tail(inbox), Property(runtimeDefault)) \in Seq(Message)
    BY <2>1, <2>2
  <2>4. inbox' \in Seq(Message)
    BY <1>8, <2>1, <2>3 DEF MetadataBound
  <2>5. /\ previous' \in Names /\ claimed' \in BOOLEAN
        /\ inFlight' \in BOOLEAN /\ workers' \subseteq Job
    BY <1>8, <2>1, ClaimType DEF MetadataBound
  <2>6. subscribed' \in BOOLEAN
    BY <1>8 DEF MetadataBound
  <2>. QED
    BY <1>8, <2>1, <2>4, <2>5, <2>6 DEF MetadataBound
<1>9. ASSUME MetadataLost PROVE TypeOK'
  <2>1. NoName \in Names /\ Tail(inbox) \in Seq(Message)
    BY <1>9, HeadType DEF MetadataLost, Names
  <2>. QED
    BY <1>9, <2>1 DEF MetadataLost
<1>10. ASSUME SourceAdded PROVE TypeOK'
  <2>1. Head(inbox).name \in Sources /\ Tail(inbox) \in Seq(Message)
    BY <1>10, HeadType DEF SourceAdded
  <2>2. /\ previous' \in Names /\ claimed' \in BOOLEAN
        /\ inFlight' \in BOOLEAN /\ workers' \subseteq Job
    BY <1>10, ClaimType DEF SourceAdded
  <2>. QED
    BY <1>10, <2>1, <2>2 DEF SourceAdded
<1>11. ASSUME SourceRemoved PROVE TypeOK'
  BY <1>11, HeadType DEF SourceRemoved
<1>12. ASSUME RepairVirtualMic PROVE TypeOK'
  <2>1. Append(inbox, [kind |-> "added", name |-> Virtual]) \in Seq(Message)
    BY DEF Message, Sources
  <2>2. /\ previous' \in Names /\ claimed' \in BOOLEAN
        /\ inFlight' \in BOOLEAN /\ workers' \subseteq Job
    BY <1>12, ClaimType DEF RepairVirtualMic
  <2>. QED
    BY <1>12, <2>1, <2>2 DEF RepairVirtualMic, Sources
<1>13. ASSUME NEW m \in {"Default", "Manual"}, SetDefaultSourceMode(m) PROVE TypeOK'
  <2>1. /\ previous' \in Names /\ claimed' \in BOOLEAN
        /\ inFlight' \in BOOLEAN /\ workers' \subseteq Job
    <3>1. CASE Claim(m, sources, cached, previous, claimed)
      BY <3>1, ClaimType
    <3>2. CASE Restore /\ UNCHANGED previous
      <4>1. CASE Spawn(previous) /\ previous \in sources
        BY <3>2, <4>1, SpawnType DEF Restore
      <4>2. CASE UNCHANGED workerVars
        BY <3>2, <4>2 DEF Restore
      <4>. QED
        BY <3>2, <4>1, <4>2 DEF Restore
    <3>. QED
      BY <1>13, <3>1, <3>2 DEF SetDefaultSourceMode
  <2>. QED
    BY <1>13, <2>1 DEF SetDefaultSourceMode, Budget
<1>14. ASSUME NEW policy, Shutdown(policy) PROVE TypeOK'
  <2>1. RestoreTargets \subseteq Eligible
    BY DEF RestoreTargets
  <2>. QED
    BY <1>14, <2>1 DEF Shutdown
<1>15. ASSUME ShutdownWaited PROVE TypeOK'
  BY <1>15 DEF ShutdownWaited
<1>16. ASSUME ShutdownCommand PROVE TypeOK'
  <2>1. CASE restoring.target \in Sources
    BY <1>16, <2>1, CommandType DEF ShutdownCommand
  <2>2. CASE restoring.target \notin Sources
    <3>1. UNCHANGED <<configured, runtimeDefault, inbox>>
      BY <1>16, <2>2 DEF ShutdownCommand, Command
    <3>. QED
      BY <1>16, <3>1 DEF ShutdownCommand
  <2>. QED
    BY <2>1, <2>2
<1>17. ASSUME NEW job \in workers, WorkerCommand(job) PROVE TypeOK'
  <2>1. job.target \in Sources /\ job.step \in {"wpctl", "pactl"}
    BY <1>17 DEF WorkerCommand, Job
  <2>2. [job EXCEPT !.step = NextStep[job.step]] \in Job
    BY <2>1 DEF NextStep, Job
  <2>3. configured' \in Names /\ runtimeDefault' \in Names /\ inbox' \in Seq(Message)
    BY <1>17, <2>1, CommandType DEF WorkerCommand
  <2>. QED
    BY <1>17, <2>2, <2>3 DEF WorkerCommand
<1>18. ASSUME NEW job \in workers, WorkerDone(job) PROVE TypeOK'
  BY <1>18 DEF WorkerDone
<1>19. CASE UNCHANGED vars
  BY <1>19 DEF vars
<1>. QED
  BY <1>1, <1>2, <1>3, <1>4, <1>5, <1>6, <1>7, <1>8, <1>9, <1>10, <1>11, <1>12,
     <1>13, <1>14, <1>15, <1>16, <1>17, <1>18, <1>19
     DEF Next, Environment, LoopEvent, LoopCommand, ShutdownStep, Worker

\* The initial state is well typed.
LEMMA TypeInit == Init => TypeOK
<1>. SUFFICES ASSUME Init PROVE TypeOK
  OBVIOUS
<1>1. NoName \in Names /\ 0 \in 0 .. MaxChanges
  BY DEF Names
<1>2. [target |-> NoName, took |-> FALSE] \in [target : Eligible \cup {NoName}, took : BOOLEAN]
  OBVIOUS
<1>3. <<>> \in Seq(Message)
  OBVIOUS
<1>. QED
  BY <1>1, <1>2, <1>3 DEF Init, TypeOK

\* Type correctness for every set of microphones and every bound.
THEOREM TypeInvariant == Spec => []TypeOK
BY TypeInit, TypeStep, PTL DEF Spec

-----------------------------------------------------------------------------
(* The worker thread. *)

\* The flag and the threads agree, in a form that needs no cardinality.
WorkerInv ==
  /\ inFlight <=> workers # {}
  /\ \A j, k \in workers : j = k

\* The swap in a spawn function keeps flag and threads in agreement.
LEMMA SpawnKeepsWorkerInv ==
  ASSUME WorkerInv, NEW target, Spawn(target)
  PROVE  WorkerInv'
<1>1. CASE inFlight
  BY <1>1 DEF Spawn, WorkerInv, workerVars
<1>2. CASE ~inFlight
  <2>1. workers = {}
    BY <1>2 DEF WorkerInv
  <2>2. CASE UNCHANGED workerVars
    BY <2>2 DEF WorkerInv, workerVars
  <2>3. CASE inFlight' = TRUE /\ workers' = workers \cup {[target |-> target, step |-> "wpctl"]}
    BY <2>1, <2>3 DEF WorkerInv
  <2>. QED
    BY <1>2, <2>2, <2>3 DEF Spawn
<1>. QED
  BY <1>1, <1>2

\* A claim starts a thread only through that spawn.
LEMMA ClaimKeepsWorkerInv ==
  ASSUME WorkerInv, NEW m, NEW known, NEW name, NEW prev, NEW held,
         Claim(m, known, name, prev, held)
  PROVE  WorkerInv'
<1>1. CASE Spawn(Virtual)
  BY <1>1, SpawnKeepsWorkerInv
<1>2. CASE UNCHANGED workerVars
  BY <1>2 DEF WorkerInv, workerVars
<1>. QED
  BY <1>1, <1>2 DEF Claim

\* Every step keeps flag and threads in agreement.
LEMMA WorkerInvStep == WorkerInv /\ [Next]_vars => WorkerInv'
<1>. SUFFICES ASSUME WorkerInv, [Next]_vars PROVE WorkerInv'
  OBVIOUS
<1>1. CASE UNCHANGED workerVars
  BY <1>1 DEF WorkerInv, workerVars
<1>2. ASSUME NEW n \in Sources, DefaultChanged(n) PROVE WorkerInv'
  <2>1. CASE mode = "Manual" \/ n = Virtual
    BY <1>1, <1>2, <2>1 DEF DefaultChanged, workerVars
  <2>2. CASE ~ (mode = "Manual" \/ n = Virtual)
    <3>1. Claim(mode, sources, n, IF previous = NoName THEN n ELSE previous, claimed)
      BY <1>2, <2>2 DEF DefaultChanged
    <3>. QED
      BY <3>1, ClaimKeepsWorkerInv
  <2>. QED
    BY <2>1, <2>2
<1>3. ASSUME DefaultCleared PROVE WorkerInv'
  <2>1. CASE mode = "Manual"
    BY <1>1, <1>3, <2>1 DEF DefaultCleared, workerVars
  <2>2. CASE mode # "Manual"
    BY <1>3, <2>2, ClaimKeepsWorkerInv DEF DefaultCleared
  <2>. QED
    BY <2>1, <2>2
<1>4. ASSUME MetadataBound PROVE WorkerInv'
  BY <1>4, ClaimKeepsWorkerInv DEF MetadataBound
<1>5. ASSUME SourceAdded PROVE WorkerInv'
  BY <1>5, ClaimKeepsWorkerInv DEF SourceAdded
<1>6. ASSUME RepairVirtualMic PROVE WorkerInv'
  BY <1>6, ClaimKeepsWorkerInv DEF RepairVirtualMic
<1>7. ASSUME NEW m, SetDefaultSourceMode(m) PROVE WorkerInv'
  <2>1. CASE Claim(m, sources, cached, previous, claimed)
    BY <2>1, ClaimKeepsWorkerInv
  <2>2. CASE Restore
    BY <1>1, <2>2, SpawnKeepsWorkerInv DEF Restore
  <2>. QED
    BY <1>7, <2>1, <2>2 DEF SetDefaultSourceMode
<1>8. ASSUME NEW job \in workers, WorkerCommand(job) PROVE WorkerInv'
  <2>1. workers = {job} /\ inFlight
    BY DEF WorkerInv
  <2>2. workers' = {[job EXCEPT !.step = NextStep[job.step]]} /\ inFlight' = inFlight
    BY <1>8, <2>1 DEF WorkerCommand
  <2>. QED
    BY <2>1, <2>2 DEF WorkerInv
<1>9. ASSUME NEW job \in workers, WorkerDone(job) PROVE WorkerInv'
  <2>1. workers = {job}
    BY DEF WorkerInv
  <2>. QED
    BY <1>9, <2>1 DEF WorkerDone, WorkerInv
<1>10. ASSUME \/ Environment \/ MetadataLost \/ SourceRemoved \/ ShutdownStep
              \/ \E policy \in {"Transient", "Persistent"} : Shutdown(policy)
              \/ UNCHANGED vars
       PROVE  UNCHANGED workerVars
  BY <1>10 DEF Environment, UserPicks, NodeAppears, NodeVanishes, MetadataAppears,
     MetadataGone, MetadataLost, SourceRemoved, ShutdownStep, ShutdownWaited,
     ShutdownCommand, Shutdown, vars, workerVars
<1>. QED
  BY <1>1, <1>2, <1>3, <1>4, <1>5, <1>6, <1>7, <1>8, <1>9, <1>10
     DEF Next, LoopEvent, LoopCommand, Worker

\* wpctl and pactl commands are serialised: at most one thread runs them, and
\* the flag is up exactly while it does.
THEOREM OneWorker == Spec => []OneCommandWorker
<1>1. Init => WorkerInv
  BY DEF Init, WorkerInv
<1>2. WorkerInv => OneCommandWorker
  <2>. SUFFICES ASSUME WorkerInv PROVE Cardinality(workers) <= 1
    BY DEF OneCommandWorker, WorkerInv
  <2>1. CASE workers = {}
    BY <2>1, FS_EmptySet
  <2>2. CASE workers # {}
    <3>1. PICK j \in workers : workers = {j}
      BY <2>2 DEF WorkerInv
    <3>. QED
      BY <3>1, FS_Singleton
  <2>. QED
    BY <2>1, <2>2
<1>. QED
  BY <1>1, <1>2, WorkerInvStep, PTL DEF Spec

-----------------------------------------------------------------------------
(* What the engine believes and remembers. *)

BeliefInv == ClaimOnlyInDefault /\ previous # Virtual

\* A claim is made in Default mode, and remembers a foreign source only.
LEMMA ClaimKeepsBelief ==
  ASSUME NEW m, NEW known, NEW name, NEW prev, NEW held, prev # Virtual,
         held => m = "Default", Claim(m, known, name, prev, held)
  PROVE  (claimed' => m = "Default") /\ previous' # Virtual
BY DEF Claim, Remember

\* Every step keeps the belief in order.
LEMMA BeliefInvStep == BeliefInv /\ [Next]_vars => BeliefInv'
<1>. SUFFICES ASSUME BeliefInv, [Next]_vars PROVE BeliefInv'
  OBVIOUS
<1>. USE DEF BeliefInv, ClaimOnlyInDefault
<1>1. CASE UNCHANGED <<mode, previous, claimed>>
  BY <1>1
<1>2. ASSUME NEW n \in Sources, DefaultChanged(n) PROVE BeliefInv'
  <2>1. CASE mode = "Manual" \/ n = Virtual
    BY <1>1, <1>2, <2>1 DEF DefaultChanged
  <2>2. CASE ~ (mode = "Manual" \/ n = Virtual)
    <3>1. Claim(mode, sources, n, IF previous = NoName THEN n ELSE previous, claimed)
      BY <1>2, <2>2 DEF DefaultChanged
    <3>2. (IF previous = NoName THEN n ELSE previous) # Virtual /\ mode' = mode
      BY <1>2, <2>2 DEF DefaultChanged
    <3>. QED
      BY <3>1, <3>2, ClaimKeepsBelief
  <2>. QED
    BY <2>1, <2>2
<1>3. ASSUME DefaultCleared PROVE BeliefInv'
  <2>1. CASE mode = "Manual"
    BY <1>1, <1>3, <2>1 DEF DefaultCleared
  <2>2. CASE mode # "Manual"
    BY <1>3, <2>2, ClaimKeepsBelief DEF DefaultCleared
  <2>. QED
    BY <2>1, <2>2
<1>4. ASSUME MetadataBound PROVE BeliefInv'
  BY <1>4, ClaimKeepsBelief DEF MetadataBound
<1>5. ASSUME MetadataLost PROVE BeliefInv'
  BY <1>5 DEF MetadataLost
<1>6. ASSUME SourceAdded PROVE BeliefInv'
  BY <1>6, ClaimKeepsBelief DEF SourceAdded
<1>7. ASSUME RepairVirtualMic PROVE BeliefInv'
  BY <1>7, ClaimKeepsBelief DEF RepairVirtualMic
<1>8. ASSUME NEW m \in {"Default", "Manual"}, SetDefaultSourceMode(m) PROVE BeliefInv'
  <2>1. CASE m = "Default" /\ Claim(m, sources, cached, previous, claimed)
    BY <1>8, <2>1, ClaimKeepsBelief DEF SetDefaultSourceMode
  <2>2. CASE Restore /\ UNCHANGED previous
    BY <2>2 DEF Restore
  <2>. QED
    BY <1>8, <2>1, <2>2 DEF SetDefaultSourceMode
<1>9. ASSUME NEW policy, Shutdown(policy) PROVE BeliefInv'
  BY <1>9 DEF Shutdown
<1>10. ASSUME ShutdownCommand PROVE BeliefInv'
  BY <1>10 DEF ShutdownCommand
<1>11. ASSUME Environment \/ SourceRemoved \/ ShutdownWaited \/ Worker \/ UNCHANGED vars
       PROVE  UNCHANGED <<mode, previous, claimed>>
  BY <1>11 DEF Environment, UserPicks, NodeAppears, NodeVanishes, MetadataAppears,
     MetadataGone, SourceRemoved, ShutdownWaited, Worker, WorkerCommand, WorkerDone,
     vars, beliefVars
<1>. QED
  BY <1>1, <1>2, <1>3, <1>4, <1>5, <1>6, <1>7, <1>8, <1>9, <1>10, <1>11
     DEF Next, LoopEvent, LoopCommand, ShutdownStep

\* A claim is owned in Default mode only.
THEOREM ClaimsOnlyInDefault == Spec => []ClaimOnlyInDefault
<1>1. Init => BeliefInv
  BY NamesAssumption DEF Init, BeliefInv, ClaimOnlyInDefault
<1>2. BeliefInv => ClaimOnlyInDefault
  BY DEF BeliefInv
<1>. QED
  BY <1>1, <1>2, BeliefInvStep, PTL DEF Spec

\* Neither a change to Manual nor a shutdown hands the default to the
\* virtual microphone: the remembered source and the one restored are foreign.
THEOREM RestoresForeign == Spec => []RestoreTargetIsForeign
<1>1. Init => BeliefInv
  BY NamesAssumption DEF Init, BeliefInv, ClaimOnlyInDefault
<1>2. TypeOK /\ BeliefInv => RestoreTargetIsForeign
  BY NamesAssumption DEF TypeOK, BeliefInv, RestoreTargetIsForeign
<1>. QED
  BY <1>1, <1>2, BeliefInvStep, TypeInvariant, PTL DEF Spec

-----------------------------------------------------------------------------
(* The transient shutdown. *)

\* A shutdown runs its commands alone, and once one of them took, nothing is
\* left that would configure the virtual microphone again.
ShutdownInv ==
  /\ phase \in {"wpctl", "pactl"} => workers = {}
  /\ restoring.took =>
       phase \in {"pactl", "down"} /\ workers = {} /\ configured # Virtual

\* Asking WirePlumber for n leaves n configured.
LEMMA ConfigureEffect ==
  ASSUME NEW n, ConfigureDefault(n)
  PROVE  configured' = n
BY DEF ConfigureDefault

\* Every step keeps it.
LEMMA ShutdownInvStep ==
  TypeOK /\ WorkerInv /\ ShutdownInv /\ [Next]_vars => ShutdownInv'
<1>. SUFFICES ASSUME TypeOK, WorkerInv, ShutdownInv, [Next]_vars PROVE ShutdownInv'
  OBVIOUS
<1>. USE NamesAssumption DEF ShutdownInv
<1>1. ASSUME NEW n \in Sources, UserPicks(n) PROVE ShutdownInv'
  BY <1>1, ConfigureEffect DEF UserPicks, workerVars, shutdownVars
<1>2. ASSUME MetadataGone PROVE ShutdownInv'
  BY <1>2 DEF MetadataGone, workerVars, shutdownVars
<1>3. ASSUME MetadataAppears \/ \E n \in Sources : NodeAppears(n) \/ NodeVanishes(n)
      PROVE  ShutdownInv'
  BY <1>3 DEF NodeAppears, NodeVanishes, MetadataAppears, workerVars, shutdownVars
<1>4. ASSUME phase = "up", UNCHANGED shutdownVars PROVE ShutdownInv'
  BY <1>4 DEF shutdownVars
<1>5. ASSUME LoopEvent \/ RepairVirtualMic
             \/ \E m \in {"Default", "Manual"} : SetDefaultSourceMode(m)
      PROVE  phase = "up" /\ UNCHANGED shutdownVars
  BY <1>5 DEF LoopEvent, DefaultChanged, DefaultCleared, MetadataBound, MetadataLost,
     SourceAdded, SourceRemoved, RepairVirtualMic, SetDefaultSourceMode, Receive
<1>6. ASSUME NEW policy, Shutdown(policy) PROVE ShutdownInv'
  <2>1. ~restoring.took
    BY <1>6 DEF Shutdown
  <2>2. restoring'.took = restoring.took /\ phase' \in {"wait", "down"}
    BY <1>6 DEF Shutdown, TypeOK
  <2>. QED
    BY <2>1, <2>2
<1>7. ASSUME ShutdownWaited PROVE ShutdownInv'
  BY <1>7 DEF ShutdownWaited, WorkerInv, workerVars
<1>8. ASSUME ShutdownCommand PROVE ShutdownInv'
  <2>1. workers' = {} /\ phase' \in {"pactl", "down"}
    BY <1>8 DEF ShutdownCommand, workerVars
  <2>2. restoring'.took => configured' # Virtual
    <3>1. configured' = restoring.target \/ configured' = configured
      BY <1>8, ConfigureEffect DEF ShutdownCommand, Command
    <3>2. restoring.target # Virtual
      BY DEF TypeOK
    <3>3. restoring'.took = (restoring.took \/ configured' = restoring.target)
      BY <1>8 DEF ShutdownCommand, TypeOK
    <3>. QED
      BY <3>1, <3>2, <3>3
  <2>. QED
    BY <2>1, <2>2
<1>9. ASSUME Worker PROVE ShutdownInv'
  <2>1. workers # {} /\ UNCHANGED shutdownVars
    BY <1>9 DEF Worker, WorkerCommand, WorkerDone
  <2>. QED
    BY <2>1 DEF shutdownVars
<1>10. CASE UNCHANGED vars
  BY <1>10 DEF vars, systemVars, workerVars, shutdownVars
<1>. QED
  BY <1>1, <1>2, <1>3, <1>4, <1>5, <1>6, <1>7, <1>8, <1>9, <1>10
     DEF Next, Environment, LoopCommand, ShutdownStep

\* A transient shutdown leaves the user with a microphone of theirs, and no
\* worker that would take it away again, as soon as one command took.
THEOREM ShutdownRestores == Spec => []ShutdownGivesBack
<1>1. Init => ShutdownInv /\ WorkerInv
  BY DEF Init, ShutdownInv, WorkerInv
<1>2. ShutdownInv => ShutdownGivesBack
  BY DEF ShutdownInv, ShutdownGivesBack
<1>. QED
  BY <1>1, <1>2, ShutdownInvStep, WorkerInvStep, TypeInvariant, PTL DEF Spec

-----------------------------------------------------------------------------
(* What the engine believes of the default. *)

\* What the queue says of the metadata object: the last of "bound" and "gone"
\* tells whether it lives, one listener hangs on it at a time, and the reports
\* of a value come before the end of the object that made them.
Heard(queue, alive, hears, has) ==
  /\ hears => alive /\ has
  /\ hears => \A i \in 1 .. Len(queue) : queue[i].kind \notin {"bound", "gone"}
  /\ \A i \in 1 .. Len(queue) :
       (queue[i].kind = "bound" /\ ~alive)
         => \E j \in 1 .. Len(queue) : i < j /\ queue[j].kind = "gone"
  /\ (has /\ ~hears) => \E i \in 1 .. Len(queue) : queue[i].kind = "gone"
  /\ \A i, j \in 1 .. Len(queue) :
       (i < j /\ queue[i].kind = "bound" /\ queue[j].kind = "bound")
         => \E k \in 1 .. Len(queue) : i < k /\ k < j /\ queue[k].kind = "gone"
  /\ \A i, j \in 1 .. Len(queue) :
       (i < j /\ queue[i].kind \in {"bound", "gone"}) => queue[j].kind # "property"
  /\ \A i \in 1 .. Len(queue) : queue[i].kind = "property" => has

\* The last report in the queue is the value there is; without one, the engine
\* has been told of it already.
Told(queue, hears, known, value) ==
  hears =>
    /\ \A i \in 1 .. Len(queue) :
         (queue[i].kind = "property"
            /\ \A j \in 1 .. Len(queue) : i < j => queue[j].kind # "property")
           => queue[i].name = value
    /\ (\A i \in 1 .. Len(queue) : queue[i].kind # "property") => known = value

TruthInv ==
  /\ Heard(inbox, live, subscribed, bound)
  /\ Told(inbox, subscribed, cached, runtimeDefault)
  /\ bound \/ cached = NoName

\* The engine's belief follows: nothing is on its way, so it is what was last
\* reported, and it was reported by the object that lives.
LEMMA TruthIsEnough == TruthInv => BeliefIsTrue
<1>. SUFFICES ASSUME TruthInv, inbox = <<>>, cached = Virtual
              PROVE  bound /\ subscribed /\ runtimeDefault = Virtual
  BY DEF BeliefIsTrue, AlreadyHolds
<1>1. \A i \in 1 .. Len(inbox) : FALSE
  OBVIOUS
<1>2. bound
  BY NamesAssumption DEF TruthInv
<1>3. subscribed
  BY <1>1, <1>2 DEF TruthInv, Heard
<1>. QED
  BY <1>1, <1>2, <1>3 DEF TruthInv, Told

\* A source that appears or vanishes says nothing of the default.
LEMMA SourceMessage ==
  ASSUME NEW queue \in Seq(Message), NEW m \in Message,
         m.kind \in {"added", "removed"},
         NEW alive, NEW hears, NEW has, NEW known, NEW value
  PROVE  /\ Heard(queue, alive, hears, has)
              => Heard(Append(queue, m), alive, hears, has)
         /\ Told(queue, hears, known, value)
              => Told(Append(queue, m), hears, known, value)
<1>. DEFINE new == Append(queue, m)
<1>1. /\ Len(new) = Len(queue) + 1 /\ Len(queue) \in Nat
      /\ new[Len(queue) + 1] = m
      /\ \A i \in 1 .. Len(queue) : new[i] = queue[i]
  OBVIOUS
<1>2. \A i \in 1 .. Len(new) : i \in 1 .. Len(queue) \/ new[i] = m
  BY <1>1
<1>3. 1 .. Len(queue) \subseteq 1 .. Len(new)
  BY <1>1
<1>. HIDE DEF new
<1>4. ASSUME Heard(queue, alive, hears, has) PROVE Heard(new, alive, hears, has)
  <2>0. \A i \in 1 .. Len(new) : new[i].kind \in {"bound", "gone", "property"}
          => i \in 1 .. Len(queue) /\ new[i] = queue[i]
    BY <1>1, <1>2
  <2>1. (~hears \/ (alive /\ has)) /\ (hears =>
          \A i \in 1 .. Len(new) : new[i].kind \notin {"bound", "gone"})
    BY <1>4, <2>0 DEF Heard
  <2>2. \A i \in 1 .. Len(new) :
          (new[i].kind = "bound" /\ ~alive)
            => \E j \in 1 .. Len(new) : i < j /\ new[j].kind = "gone"
    BY <1>1, <1>3, <1>4, <2>0 DEF Heard
  <2>3. (has /\ ~hears) => \E i \in 1 .. Len(new) : new[i].kind = "gone"
    BY <1>1, <1>3, <1>4 DEF Heard
  <2>4. \A i, j \in 1 .. Len(new) :
          (i < j /\ new[i].kind = "bound" /\ new[j].kind = "bound")
            => \E k \in 1 .. Len(new) : i < k /\ k < j /\ new[k].kind = "gone"
    <3>. SUFFICES ASSUME NEW i \in 1 .. Len(new), NEW j \in 1 .. Len(new), i < j,
                         new[i].kind = "bound", new[j].kind = "bound"
                  PROVE  \E k \in 1 .. Len(new) : i < k /\ k < j /\ new[k].kind = "gone"
      OBVIOUS
    <3>1. /\ i \in 1 .. Len(queue) /\ j \in 1 .. Len(queue)
          /\ queue[i].kind = "bound" /\ queue[j].kind = "bound"
      BY <2>0
    <3>2. PICK k \in 1 .. Len(queue) : i < k /\ k < j /\ queue[k].kind = "gone"
      BY <1>4, <3>1 DEF Heard
    <3>3. k \in 1 .. Len(new) /\ new[k] = queue[k]
      BY <1>1, <1>3
    <3>. QED
      BY <3>2, <3>3
  <2>5. /\ \A i, j \in 1 .. Len(new) :
              (i < j /\ new[i].kind \in {"bound", "gone"}) => new[j].kind # "property"
        /\ \A i \in 1 .. Len(new) : new[i].kind = "property" => has
    BY <1>4, <2>0 DEF Heard
  <2>. QED
    BY <2>1, <2>2, <2>3, <2>4, <2>5 DEF Heard
<1>5. ASSUME Told(queue, hears, known, value) PROVE Told(new, hears, known, value)
  <2>. SUFFICES ASSUME hears
                PROVE  /\ \A i \in 1 .. Len(new) :
                            (new[i].kind = "property"
                               /\ \A j \in 1 .. Len(new) : i < j => new[j].kind # "property")
                              => new[i].name = value
                       /\ (\A i \in 1 .. Len(new) : new[i].kind # "property") => known = value
    BY DEF Told
  <2>1. ASSUME NEW i \in 1 .. Len(new), new[i].kind = "property",
               \A j \in 1 .. Len(new) : i < j => new[j].kind # "property"
        PROVE  new[i].name = value
    <3>1. i \in 1 .. Len(queue)
      BY <1>2, <2>1
    <3>. QED
      BY <1>1, <1>3, <1>5, <2>1, <3>1 DEF Told
  <2>2. ASSUME \A i \in 1 .. Len(new) : new[i].kind # "property"
        PROVE  known = value
    BY <1>1, <1>3, <1>5, <2>2 DEF Told
  <2>. QED
    BY <2>1, <2>2
<1>. QED
  BY <1>4, <1>5 DEF new

\* A listener is told of the new value.
LEMMA ReportMessage ==
  ASSUME NEW queue \in Seq(Message), NEW n \in Names,
         NEW alive, NEW hears, NEW has, NEW known, hears,
         Heard(queue, alive, hears, has)
  PROVE  /\ Heard(Append(queue, Property(n)), alive, hears, has)
         /\ Told(Append(queue, Property(n)), hears, known, n)
<1>. DEFINE m == Property(n)
            new == Append(queue, m)
<1>0. m \in Message /\ m.kind = "property" /\ m.name = n
  BY DEF Property, Message
<1>. HIDE DEF m
<1>1. /\ Len(new) = Len(queue) + 1 /\ Len(queue) \in Nat
      /\ new[Len(queue) + 1] = m
      /\ \A i \in 1 .. Len(queue) : new[i] = queue[i]
  BY <1>0
<1>2. \A i \in 1 .. Len(new) : i \in 1 .. Len(queue) \/ (new[i] = m /\ i = Len(new))
  BY <1>1
<1>3. 1 .. Len(queue) \subseteq 1 .. Len(new) /\ Len(new) \in 1 .. Len(new)
  BY <1>1
<1>. HIDE DEF new
<1>4. Heard(new, alive, hears, has)
  BY <1>0, <1>1, <1>2, <1>3 DEF Heard
<1>5. Told(new, hears, known, n)
  BY <1>0, <1>1, <1>2, <1>3 DEF Told
<1>. QED
  BY <1>4, <1>5 DEF new, m

\* What is behind a message that has been handled.
LEMMA Behind ==
  ASSUME NEW queue \in Seq(Message), queue # <<>>
  PROVE  /\ Len(Tail(queue)) = Len(queue) - 1 /\ Len(queue) \in Nat \ {0}
         /\ \A i \in 1 .. Len(Tail(queue)) :
              i + 1 \in 1 .. Len(queue) /\ Tail(queue)[i] = queue[i + 1]
         /\ \A i \in 1 .. Len(queue) :
              i = 1 \/ (i - 1 \in 1 .. Len(Tail(queue)) /\ queue[i] = Tail(queue)[i - 1])
         /\ 1 \in 1 .. Len(queue)
         /\ Tail(queue) \in Seq(Message)
         /\ Head(queue) = queue[1]
OBVIOUS

\* A message that was handled leaves what the rest says of the object; with a
\* "gone" the engine has none.
LEMMA HandledMessage ==
  ASSUME NEW queue \in Seq(Message), queue # <<>>,
         NEW alive, NEW hears, NEW has, NEW has2, Heard(queue, alive, hears, has),
         has2 <=> (has /\ Head(queue).kind # "gone")
  PROVE  Heard(Tail(queue), alive, hears, has2)
<1>. DEFINE rest == Tail(queue)
<1>1. /\ Len(rest) = Len(queue) - 1 /\ Len(queue) \in Nat \ {0}
      /\ \A i \in 1 .. Len(rest) : i + 1 \in 1 .. Len(queue) /\ rest[i] = queue[i + 1]
      /\ \A i \in 1 .. Len(queue) :
           i = 1 \/ (i - 1 \in 1 .. Len(rest) /\ queue[i] = rest[i - 1])
      /\ 1 \in 1 .. Len(queue)
      /\ has2 <=> (has /\ queue[1].kind # "gone")
  BY Behind
<1>. HIDE DEF rest
<1>2. /\ hears => alive /\ has2
      /\ hears => \A i \in 1 .. Len(rest) : rest[i].kind \notin {"bound", "gone"}
      /\ (has2 /\ ~hears) => \E i \in 1 .. Len(rest) : rest[i].kind = "gone"
  BY <1>1 DEF Heard
<1>3. \A i \in 1 .. Len(rest) : rest[i].kind = "property" => has2
  <2>. SUFFICES ASSUME NEW i \in 1 .. Len(rest), rest[i].kind = "property" PROVE has2
    OBVIOUS
  <2>1. i + 1 \in 1 .. Len(queue) /\ 1 < i + 1 /\ queue[i + 1].kind = "property"
    BY <1>1
  <2>. QED
    BY <1>1, <2>1 DEF Heard
<1>4. \A i \in 1 .. Len(rest) : (rest[i].kind = "bound" /\ ~alive)
        => \E j \in 1 .. Len(rest) : i < j /\ rest[j].kind = "gone"
  <2>. SUFFICES ASSUME NEW i \in 1 .. Len(rest), rest[i].kind = "bound", ~alive
                PROVE  \E j \in 1 .. Len(rest) : i < j /\ rest[j].kind = "gone"
    OBVIOUS
  <2>1. PICK j \in 1 .. Len(queue) : i + 1 < j /\ queue[j].kind = "gone"
    BY <1>1 DEF Heard
  <2>2. j - 1 \in 1 .. Len(rest) /\ i < j - 1 /\ rest[j - 1].kind = "gone"
    BY <1>1, <2>1
  <2>. QED
    BY <2>2
<1>5. \A i, j \in 1 .. Len(rest) :
        (i < j /\ rest[i].kind = "bound" /\ rest[j].kind = "bound")
          => \E k \in 1 .. Len(rest) : i < k /\ k < j /\ rest[k].kind = "gone"
  <2>. SUFFICES ASSUME NEW i \in 1 .. Len(rest), NEW j \in 1 .. Len(rest), i < j,
                       rest[i].kind = "bound", rest[j].kind = "bound"
                PROVE  \E k \in 1 .. Len(rest) : i < k /\ k < j /\ rest[k].kind = "gone"
    OBVIOUS
  <2>1. /\ i + 1 \in 1 .. Len(queue) /\ j + 1 \in 1 .. Len(queue) /\ i + 1 < j + 1
        /\ queue[i + 1].kind = "bound" /\ queue[j + 1].kind = "bound"
    BY <1>1
  <2>2. PICK k \in 1 .. Len(queue) : i + 1 < k /\ k < j + 1 /\ queue[k].kind = "gone"
    BY <2>1 DEF Heard
  <2>3. k - 1 \in 1 .. Len(rest) /\ i < k - 1 /\ k - 1 < j /\ rest[k - 1].kind = "gone"
    BY <1>1, <2>2
  <2>. QED
    BY <2>3
<1>6. \A i, j \in 1 .. Len(rest) :
        (i < j /\ rest[i].kind \in {"bound", "gone"}) => rest[j].kind # "property"
  <2>. SUFFICES ASSUME NEW i \in 1 .. Len(rest), NEW j \in 1 .. Len(rest), i < j,
                       rest[i].kind \in {"bound", "gone"}
                PROVE  rest[j].kind # "property"
    OBVIOUS
  <2>1. /\ i + 1 \in 1 .. Len(queue) /\ j + 1 \in 1 .. Len(queue) /\ i + 1 < j + 1
        /\ queue[i + 1] = rest[i] /\ queue[j + 1] = rest[j]
    BY <1>1
  <2>. QED
    BY <2>1 DEF Heard
<1>7. Heard(rest, alive, hears, has2)
  BY <1>2, <1>4, <1>5, <1>6, <1>3 DEF Heard
<1>. QED
  BY <1>7 DEF rest

\* A handled message that is no report leaves what was said of the value, and
\* a report is what the engine then knows.
LEMMA HandledValue ==
  ASSUME NEW queue \in Seq(Message), queue # <<>>,
         NEW hears, NEW known, NEW value, Told(queue, hears, known, value)
  PROVE  /\ Head(queue).kind # "property" => Told(Tail(queue), hears, known, value)
         /\ Head(queue).kind = "property"
              => Told(Tail(queue), hears, Head(queue).name, value)
<1>. DEFINE rest == Tail(queue)
            known2 == IF queue[1].kind = "property" THEN queue[1].name ELSE known
<1>1. /\ Len(rest) = Len(queue) - 1 /\ Len(queue) \in Nat \ {0}
      /\ \A i \in 1 .. Len(rest) : i + 1 \in 1 .. Len(queue) /\ rest[i] = queue[i + 1]
      /\ \A i \in 1 .. Len(queue) :
           i = 1 \/ (i - 1 \in 1 .. Len(rest) /\ queue[i] = rest[i - 1])
      /\ 1 \in 1 .. Len(queue) /\ Head(queue) = queue[1]
  BY Behind
<1>. HIDE DEF rest
<1>2. ASSUME hears, NEW i \in 1 .. Len(rest), rest[i].kind = "property",
             \A j \in 1 .. Len(rest) : i < j => rest[j].kind # "property"
      PROVE  rest[i].name = value
  <2>1. i + 1 \in 1 .. Len(queue) /\ queue[i + 1] = rest[i]
    BY <1>1
  <2>2. ASSUME NEW j \in 1 .. Len(queue), i + 1 < j PROVE queue[j].kind # "property"
    <3>1. j - 1 \in 1 .. Len(rest) /\ queue[j] = rest[j - 1] /\ i < j - 1
      BY <1>1, <2>2
    <3>. QED
      BY <1>2, <3>1
  <2>. QED
    BY <1>2, <2>1, <2>2 DEF Told
<1>3. ASSUME hears, \A i \in 1 .. Len(rest) : rest[i].kind # "property"
      PROVE  known2 = value
  <2>1. \A j \in 1 .. Len(queue) : 1 < j => queue[j].kind # "property"
    BY <1>1, <1>3
  <2>2. CASE queue[1].kind = "property"
    BY <1>1, <1>3, <2>1, <2>2 DEF Told
  <2>3. CASE queue[1].kind # "property"
    <3>1. \A j \in 1 .. Len(queue) : queue[j].kind # "property"
      BY <1>1, <2>1, <2>3
    <3>. QED
      BY <1>3, <2>3, <3>1 DEF Told
  <2>. QED
    BY <2>2, <2>3
<1>4. Told(rest, hears, known2, value)
  BY <1>2, <1>3 DEF Told
<1>. QED
  BY <1>1, <1>4 DEF rest

\* WirePlumber publishes a value while the engine's queue holds the same, or
\* has a source's event behind it: reported or not, it is still true.
LEMMA PublishTruth ==
  ASSUME NEW n \in Names, NEW queue \in Seq(Message),
         NEW alive, NEW has, NEW known, runtimeDefault \in Names,
         Heard(queue, alive, subscribed, has),
         Told(queue, subscribed, known, runtimeDefault),
         PublishDefault(n, queue)
  PROVE  Heard(inbox', alive, subscribed, has) /\ Told(inbox', subscribed, known, runtimeDefault')
<1>1. CASE subscribed /\ n # runtimeDefault
  <2>1. inbox' = Append(queue, Property(n)) /\ runtimeDefault' = n
    BY <1>1 DEF PublishDefault
  <2>2. /\ Heard(Append(queue, Property(n)), alive, subscribed, has)
        /\ Told(Append(queue, Property(n)), subscribed, known, n)
    BY <1>1, ReportMessage
  <2>. QED
    BY <2>1, <2>2
<1>2. CASE ~subscribed
  <2>1. inbox' = queue
    BY <1>2 DEF PublishDefault
  <2>. QED
    BY <1>2, <2>1 DEF Told
<1>3. CASE subscribed /\ n = runtimeDefault
  <2>1. inbox' = queue /\ runtimeDefault' = runtimeDefault
    BY <1>3 DEF PublishDefault
  <2>. QED
    BY <2>1
<1>. QED
  BY <1>1, <1>2, <1>3

\* The same of a command, or of the user.
LEMMA CommandTruth ==
  ASSUME TypeOK, TruthInv, NEW n \in Names, Command(n) \/ ConfigureDefault(n),
         UNCHANGED <<live, subscribed, bound, cached>>
  PROVE  TruthInv'
<1>1. /\ Heard(inbox', live, subscribed, bound)
      /\ Told(inbox', subscribed, cached, runtimeDefault')
  <2>1. CASE UNCHANGED <<runtimeDefault, inbox>>
    BY <2>1 DEF TruthInv
  <2>2. CASE PublishDefault(n, inbox)
    <3>1. /\ n \in Names /\ inbox \in Seq(Message) /\ runtimeDefault \in Names
          /\ Heard(inbox, live, subscribed, bound)
          /\ Told(inbox, subscribed, cached, runtimeDefault)
      BY DEF TruthInv, TypeOK, Names
    <3>. QED
      BY <2>2, <3>1, PublishTruth
  <2>. QED
    BY <2>1, <2>2 DEF Command, ConfigureDefault
<1>2. bound \/ cached = NoName
  BY DEF TruthInv
<1>. QED
  BY <1>1, <1>2 DEF TruthInv, Heard, Told

\* The metadata object comes or goes.
LEMMA ObjectMessage ==
  ASSUME NEW queue \in Seq(Message), NEW m \in Message,
         NEW alive, NEW alive2, NEW hears, NEW has, Heard(queue, alive, hears, has),
         \/ m.kind = "bound" /\ ~alive /\ alive2
         \/ m.kind = "gone" /\ ~alive2
  PROVE  Heard(Append(queue, m), alive2, FALSE, has)
<1>. DEFINE new == Append(queue, m)
<1>1. /\ Len(new) = Len(queue) + 1 /\ Len(queue) \in Nat
      /\ new[Len(queue) + 1] = m
      /\ \A i \in 1 .. Len(queue) : new[i] = queue[i] /\ i < Len(new)
  OBVIOUS
<1>2. \A i \in 1 .. Len(new) : i \in 1 .. Len(queue) \/ (new[i] = m /\ i = Len(new))
  BY <1>1
<1>3. 1 .. Len(queue) \subseteq 1 .. Len(new) /\ Len(new) \in 1 .. Len(new)
  BY <1>1
<1>. HIDE DEF new
<1>4. \A i \in 1 .. Len(new) : (new[i].kind = "bound" /\ ~alive2)
        => \E j \in 1 .. Len(new) : i < j /\ new[j].kind = "gone"
  BY <1>1, <1>2, <1>3
<1>5. has => \E i \in 1 .. Len(new) : new[i].kind = "gone"
  <2>1. CASE m.kind = "gone"
    BY <1>1, <1>3, <2>1
  <2>2. CASE ~alive
    BY <1>1, <1>3, <2>2 DEF Heard
  <2>. QED
    BY <2>1, <2>2
<1>6. \A i, j \in 1 .. Len(new) :
        (i < j /\ new[i].kind = "bound" /\ new[j].kind = "bound")
          => \E k \in 1 .. Len(new) : i < k /\ k < j /\ new[k].kind = "gone"
  <2>. SUFFICES ASSUME NEW i \in 1 .. Len(new), NEW j \in 1 .. Len(new), i < j,
                       new[i].kind = "bound", new[j].kind = "bound"
                PROVE  \E k \in 1 .. Len(new) : i < k /\ k < j /\ new[k].kind = "gone"
    OBVIOUS
  <2>1. i \in 1 .. Len(queue) /\ queue[i].kind = "bound"
    BY <1>1, <1>2, <1>3
  <2>2. CASE j \in 1 .. Len(queue)
    <3>1. PICK k \in 1 .. Len(queue) : i < k /\ k < j /\ queue[k].kind = "gone"
      BY <1>1, <2>1, <2>2 DEF Heard
    <3>2. k \in 1 .. Len(new) /\ new[k] = queue[k]
      BY <1>1, <1>3
    <3>. QED
      BY <3>1, <3>2
  <2>3. CASE new[j] = m /\ j = Len(new)
    <3>1. PICK k \in 1 .. Len(queue) : i < k /\ queue[k].kind = "gone"
      BY <2>1, <2>3 DEF Heard
    <3>2. k \in 1 .. Len(new) /\ new[k] = queue[k] /\ k < j
      BY <1>1, <1>3, <2>3
    <3>. QED
      BY <3>1, <3>2
  <2>. QED
    BY <1>2, <2>2, <2>3
<1>7. /\ \A i, j \in 1 .. Len(new) :
           (i < j /\ new[i].kind \in {"bound", "gone"}) => new[j].kind # "property"
      /\ \A i \in 1 .. Len(new) : new[i].kind = "property" => has
  <2>1. \A i \in 1 .. Len(new) : new[i].kind = "property"
          => i \in 1 .. Len(queue) /\ queue[i].kind = "property"
    BY <1>1, <1>2
  <2>2. \A i, j \in 1 .. Len(new) : (i < j /\ j \in 1 .. Len(queue))
          => i \in 1 .. Len(queue) /\ new[i] = queue[i]
    BY <1>1, <1>2
  <2>. QED
    BY <2>1, <2>2 DEF Heard
<1>8. Heard(new, alive2, FALSE, has)
  BY <1>4, <1>5, <1>6, <1>7 DEF Heard
<1>. QED
  BY <1>8 DEF new

\* The engine binds the object that was announced: if that lives, no other
\* announcement and no report is behind this one.
LEMMA BoundMessage ==
  ASSUME NEW queue \in Seq(Message), queue # <<>>, Head(queue).kind = "bound",
         NEW alive, NEW hears, NEW has, NEW hears2,
         Heard(queue, alive, hears, has),
         hears2 <=> (alive /\ \A i \in 2 .. Len(queue) : queue[i].kind # "gone")
  PROVE  /\ Heard(Tail(queue), alive, hears2, TRUE)
         /\ Told(Tail(queue), hears2, NoName, NoName)
<1>. DEFINE rest == Tail(queue)
<1>1. /\ Len(rest) = Len(queue) - 1 /\ Len(queue) \in Nat \ {0}
      /\ \A i \in 1 .. Len(rest) : i + 1 \in 1 .. Len(queue) /\ rest[i] = queue[i + 1]
      /\ \A i \in 1 .. Len(queue) :
           i = 1 \/ (i - 1 \in 1 .. Len(rest) /\ queue[i] = rest[i - 1])
      /\ 1 \in 1 .. Len(queue) /\ queue[1].kind = "bound"
  BY Behind
<1>2. Heard(rest, alive, hears, has)
  BY HandledMessage
<1>. HIDE DEF rest
<1>3. \A i \in 1 .. Len(rest) : rest[i].kind # "property"
  <2>1. \A i \in 1 .. Len(rest) : i + 1 \in 1 .. Len(queue) /\ 1 < i + 1 /\ rest[i] = queue[i + 1]
    BY <1>1
  <2>. QED
    BY <1>1, <2>1 DEF Heard
<1>4. ASSUME hears2, NEW i \in 1 .. Len(rest) PROVE rest[i].kind \notin {"bound", "gone"}
  <2>1. i + 1 \in 2 .. Len(queue) /\ 1 < i + 1 /\ rest[i] = queue[i + 1] /\ i + 1 \in 1 .. Len(queue)
    BY <1>1
  <2>2. \A k \in 2 .. Len(queue) : queue[k].kind # "gone"
    BY <1>4
  <2>3. ASSUME queue[i + 1].kind = "bound" PROVE FALSE
    <3>1. PICK k \in 1 .. Len(queue) : 1 < k /\ k < i + 1 /\ queue[k].kind = "gone"
      BY <1>1, <2>1, <2>3 DEF Heard
    <3>2. k \in 2 .. Len(queue)
      BY <1>1, <3>1
    <3>. QED
      BY <2>2, <3>1, <3>2
  <2>. QED
    BY <2>1, <2>2, <2>3
<1>5. ~hears2 => \E i \in 1 .. Len(rest) : rest[i].kind = "gone"
  <2>. SUFFICES ASSUME ~hears2 PROVE \E i \in 1 .. Len(rest) : rest[i].kind = "gone"
    OBVIOUS
  <2>1. PICK k \in 1 .. Len(queue) : 1 < k /\ queue[k].kind = "gone"
    <3>1. CASE ~alive
      BY <1>1, <3>1 DEF Heard
    <3>2. CASE \E i \in 2 .. Len(queue) : queue[i].kind = "gone"
      BY <1>1, <3>2
    <3>. QED
      BY <3>1, <3>2
  <2>. QED
    BY <1>1, <2>1
<1>6. Heard(rest, alive, hears2, TRUE) /\ Told(rest, hears2, NoName, NoName)
  BY <1>2, <1>3, <1>4, <1>5 DEF Heard, Told
<1>. QED
  BY <1>6 DEF rest

LEMMA TruthStep == TypeOK /\ TruthInv /\ [Next]_vars => TruthInv'
<1>. SUFFICES ASSUME TypeOK, TruthInv, [Next]_vars PROVE TruthInv'
  OBVIOUS
<1>0. /\ inbox \in Seq(Message) /\ runtimeDefault \in Names /\ NoName \in Names
      /\ Virtual \in Names /\ cached \in Names
      /\ Heard(inbox, live, subscribed, bound)
      /\ Told(inbox, subscribed, cached, runtimeDefault)
      /\ bound \/ cached = NoName
  BY DEF TypeOK, TruthInv, Names, Sources
<1>. USE DEF systemVars
<1>a. ASSUME UNCHANGED <<inbox, live, subscribed, bound, cached, runtimeDefault>>
      PROVE  TruthInv'
  BY <1>a DEF TruthInv, Heard, Told
<1>b. ASSUME Heard(inbox', live', subscribed', bound'),
             Told(inbox', subscribed', cached', runtimeDefault'),
             bound' \/ cached' = NoName
      PROVE  TruthInv'
  BY <1>b DEF TruthInv, Heard, Told
<1>c. /\ \A n \in Sources : [kind |-> "added", name |-> n] \in Message
      /\ \A n \in Sources : [kind |-> "removed", name |-> n] \in Message
      /\ [kind |-> "bound"] \in Message /\ [kind |-> "gone"] \in Message
  BY DEF Message
<1>1. ASSUME NEW n \in Sources, UserPicks(n) PROVE TruthInv'
  BY <1>1, CommandTruth DEF UserPicks, beliefVars, Names
<1>2. ASSUME NEW n \in Sources, NodeAppears(n) PROVE TruthInv'
  <2>. DEFINE queue == Append(inbox, [kind |-> "added", name |-> n])
  <2>1. PICK d \in Names : PublishDefault(d, queue)
    BY <1>2, <1>0 DEF NodeAppears, Names
  <2>2. queue \in Seq(Message) /\ Heard(queue, live, subscribed, bound)
        /\ Told(queue, subscribed, cached, runtimeDefault)
    BY <1>0, <1>c, SourceMessage
  <2>. HIDE DEF queue
  <2>3. /\ Heard(inbox', live, subscribed, bound)
        /\ Told(inbox', subscribed, cached, runtimeDefault')
    BY <1>0, <2>1, <2>2, PublishTruth
  <2>4. UNCHANGED <<live, subscribed, bound, cached>>
    BY <1>2 DEF NodeAppears, beliefVars
  <2>. QED
    BY <1>0, <1>b, <2>3, <2>4
<1>3. ASSUME NEW n \in Sources, NodeVanishes(n) PROVE TruthInv'
  <2>. DEFINE queue == Append(inbox, [kind |-> "removed", name |-> n])
  <2>1. PICK d \in Names : PublishDefault(d, queue)
    BY <1>3, <1>0 DEF NodeVanishes, Names, Sources
  <2>2. queue \in Seq(Message) /\ Heard(queue, live, subscribed, bound)
        /\ Told(queue, subscribed, cached, runtimeDefault)
    BY <1>0, <1>c, SourceMessage
  <2>. HIDE DEF queue
  <2>3. /\ Heard(inbox', live, subscribed, bound)
        /\ Told(inbox', subscribed, cached, runtimeDefault')
    BY <1>0, <2>1, <2>2, PublishTruth
  <2>4. UNCHANGED <<live, subscribed, bound, cached>>
    BY <1>3 DEF NodeVanishes, beliefVars
  <2>. QED
    BY <1>0, <1>b, <2>3, <2>4
<1>4. ASSUME MetadataAppears PROVE TruthInv'
  <2>1. /\ ~live /\ live' /\ inbox' = Append(inbox, [kind |-> "bound"])
        /\ UNCHANGED <<subscribed, bound, cached>>
    BY <1>4 DEF MetadataAppears, beliefVars
  <2>2. ~subscribed
    BY <1>0, <2>1 DEF Heard
  <2>3. Heard(Append(inbox, [kind |-> "bound"]), live', FALSE, bound)
    BY <1>0, <1>c, <2>1, ObjectMessage
  <2>4. subscribed' = FALSE
    BY <2>1, <2>2 DEF TypeOK
  <2>. QED
    BY <1>0, <1>b, <2>1, <2>3, <2>4 DEF Told
<1>5. ASSUME MetadataGone PROVE TruthInv'
  <2>1. /\ ~live' /\ inbox' = Append(inbox, [kind |-> "gone"])
        /\ subscribed' = FALSE /\ UNCHANGED <<bound, cached>>
    BY <1>5 DEF MetadataGone, beliefVars
  <2>2. Heard(Append(inbox, [kind |-> "gone"]), live', FALSE, bound)
    BY <1>0, <1>c, <2>1, ObjectMessage
  <2>. QED
    BY <1>0, <1>b, <2>1, <2>2 DEF Told
<1>6. ASSUME NEW n \in Sources, DefaultChanged(n) PROVE TruthInv'
  <2>1. /\ inbox # <<>> /\ Head(inbox).kind = "property" /\ Head(inbox).name = n
        /\ inbox' = Tail(inbox) /\ cached' = n
        /\ UNCHANGED <<live, subscribed, bound, runtimeDefault>>
    BY <1>6 DEF DefaultChanged, Receive
  <2>2. bound
    BY <1>0, <2>1, Behind DEF Heard
  <2>3. Heard(Tail(inbox), live, subscribed, bound)
    BY <1>0, <2>1, HandledMessage
  <2>4. Told(Tail(inbox), subscribed, n, runtimeDefault)
    BY <1>0, <2>1, HandledValue
  <2>. QED
    BY <1>b, <2>1, <2>2, <2>3, <2>4
<1>7. ASSUME DefaultCleared PROVE TruthInv'
  <2>1. /\ inbox # <<>> /\ Head(inbox).kind = "property" /\ Head(inbox).name = NoName
        /\ cached' = NoName /\ UNCHANGED <<live, subscribed, bound>>
    BY <1>7 DEF DefaultCleared, Receive
  <2>2. Tail(inbox) \in Seq(Message)
    BY <1>0, <2>1, Behind
  <2>3. /\ Heard(Tail(inbox), live, subscribed, bound)
        /\ Told(Tail(inbox), subscribed, NoName, runtimeDefault)
    <3>1. Heard(Tail(inbox), live, subscribed, bound)
      BY <1>0, <2>1, HandledMessage
    <3>2. Told(Tail(inbox), subscribed, Head(inbox).name, runtimeDefault)
      BY <1>0, <2>1, HandledValue
    <3>. QED
      BY <2>1, <3>1, <3>2
  <2>4. CASE inbox' = Tail(inbox) /\ UNCHANGED runtimeDefault
    BY <1>b, <2>1, <2>3, <2>4
  <2>5. CASE PublishDefault(Virtual, Tail(inbox))
    <3>1. /\ Heard(inbox', live, subscribed, bound)
          /\ Told(inbox', subscribed, NoName, runtimeDefault')
      BY <1>0, <2>2, <2>3, <2>5, PublishTruth
    <3>. QED
      BY <1>b, <2>1, <3>1
  <2>. QED
    BY <1>7, <2>4, <2>5 DEF DefaultCleared, WriteRuntimeKey
<1>8. ASSUME MetadataBound PROVE TruthInv'
  <2>1. /\ inbox # <<>> /\ Head(inbox).kind = "bound" /\ bound' = TRUE /\ cached' = NoName
        /\ subscribed' = (live /\ \A i \in 2 .. Len(inbox) : inbox[i].kind # "gone")
        /\ inbox' = IF subscribed' /\ runtimeDefault # NoName
                      THEN Append(Tail(inbox), Property(runtimeDefault))
                      ELSE Tail(inbox)
        /\ UNCHANGED <<live, runtimeDefault>>
    BY <1>8 DEF MetadataBound, Receive
  <2>2. Tail(inbox) \in Seq(Message)
    BY <1>0, <2>1, Behind
  <2>3. /\ Heard(Tail(inbox), live, subscribed', TRUE)
        /\ Told(Tail(inbox), subscribed', NoName, NoName)
    BY <1>0, <2>1, BoundMessage
  <2>4. CASE subscribed' /\ runtimeDefault # NoName
    <3>1. /\ Heard(Append(Tail(inbox), Property(runtimeDefault)), live, subscribed', TRUE)
          /\ Told(Append(Tail(inbox), Property(runtimeDefault)), subscribed', NoName, runtimeDefault)
      BY <1>0, <2>2, <2>3, <2>4, ReportMessage
    <3>. QED
      BY <1>b, <2>1, <2>4, <3>1
  <2>5. CASE ~ subscribed'
    BY <1>b, <2>1, <2>3, <2>5 DEF Told
  <2>6. CASE runtimeDefault = NoName
    BY <1>b, <2>1, <2>3, <2>6
  <2>. QED
    BY <2>4, <2>5, <2>6
<1>9. ASSUME MetadataLost PROVE TruthInv'
  <2>1. /\ inbox # <<>> /\ Head(inbox).kind = "gone" /\ bound' = FALSE /\ cached' = NoName
        /\ inbox' = Tail(inbox) /\ UNCHANGED <<live, subscribed, runtimeDefault>>
    BY <1>9 DEF MetadataLost, Receive
  <2>2. Heard(Tail(inbox), live, subscribed, FALSE)
    BY <1>0, <2>1, HandledMessage
  <2>3. ~subscribed
    BY <1>0, <2>1, Behind DEF Heard
  <2>. QED
    BY <1>b, <2>1, <2>2, <2>3 DEF Told
<1>10. ASSUME SourceAdded \/ SourceRemoved PROVE TruthInv'
  <2>1. /\ inbox # <<>> /\ Head(inbox).kind \in {"added", "removed"}
        /\ inbox' = Tail(inbox)
        /\ UNCHANGED <<live, subscribed, bound, cached, runtimeDefault>>
    BY <1>10 DEF SourceAdded, SourceRemoved, Receive, beliefVars
  <2>2. /\ Heard(Tail(inbox), live, subscribed, bound)
        /\ Told(Tail(inbox), subscribed, cached, runtimeDefault)
    BY <1>0, <2>1, HandledMessage, HandledValue
  <2>. QED
    BY <1>0, <1>b, <2>1, <2>2
<1>11. ASSUME RepairVirtualMic PROVE TruthInv'
  <2>1. /\ inbox' = Append(inbox, [kind |-> "added", name |-> Virtual])
        /\ UNCHANGED <<live, subscribed, bound, cached, runtimeDefault>>
    BY <1>11 DEF RepairVirtualMic
  <2>2. [kind |-> "added", name |-> Virtual] \in Message
    BY <1>c DEF Sources
  <2>3. /\ Heard(Append(inbox, [kind |-> "added", name |-> Virtual]), live, subscribed, bound)
        /\ Told(Append(inbox, [kind |-> "added", name |-> Virtual]), subscribed, cached,
                runtimeDefault)
    BY <1>0, <2>2, SourceMessage
  <2>. QED
    BY <1>0, <1>b, <2>1, <2>3
<1>12. ASSUME NEW m \in {"Default", "Manual"}, SetDefaultSourceMode(m) PROVE TruthInv'
  BY <1>12, <1>a DEF SetDefaultSourceMode
<1>13. ASSUME NEW policy \in {"Transient", "Persistent"}, Shutdown(policy) PROVE TruthInv'
  BY <1>13, <1>a DEF Shutdown
<1>14. ASSUME ShutdownWaited PROVE TruthInv'
  BY <1>14, <1>a DEF ShutdownWaited, beliefVars
<1>15. ASSUME ShutdownCommand PROVE TruthInv'
  <2>1. restoring.target \in Names
    BY NamesAssumption DEF TypeOK, Names, Sources
  <2>2. Command(restoring.target) /\ UNCHANGED <<live, subscribed, bound, cached>>
    BY <1>15 DEF ShutdownCommand
  <2>. QED
    BY <2>1, <2>2, CommandTruth
<1>16. ASSUME NEW job \in workers, WorkerCommand(job) PROVE TruthInv'
  <2>1. job.target \in Names
    BY DEF TypeOK, Job, Names
  <2>. QED
    BY <1>16, <2>1, CommandTruth DEF WorkerCommand, beliefVars
<1>17. ASSUME NEW job \in workers, WorkerDone(job) PROVE TruthInv'
  BY <1>17, <1>a DEF WorkerDone, beliefVars
<1>18. CASE UNCHANGED vars
  BY <1>18, <1>a DEF vars, beliefVars
<1>. QED
  BY <1>1, <1>2, <1>3, <1>4, <1>5, <1>6, <1>7, <1>8, <1>9, <1>10, <1>11, <1>12,
     <1>13, <1>14, <1>15, <1>16, <1>17, <1>18
     DEF Next, Environment, LoopEvent, LoopCommand, ShutdownStep, Worker

\* For any sources and any number of changes from outside, an engine that has
\* handled its events and skips a claim because it believes to hold the default
\* does hold it.
THEOREM BelievesTheTruth == Spec => []BeliefIsTrue
<1>1. Init => TruthInv
  BY DEF Init, TruthInv, Heard, Told
<1>. QED
  BY <1>1, TypeInvariant, TruthStep, TruthIsEnough, PTL DEF Spec
=============================================================================
