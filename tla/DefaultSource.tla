--------------------------- MODULE DefaultSource ---------------------------
(***************************************************************************)
(* The engine's ownership of the system default microphone                 *)
(* (audio/player/default_source.rs and source_routing.rs).                 *)
(*                                                                         *)
(* Three parties interleave:                                               *)
(*   - PipeWire and WirePlumber, outside the program: the nodes of the     *)
(*     graph, the "default" metadata object with its configured and its    *)
(*     runtime value, and the user who picks another microphone;           *)
(*   - the engine's loop thread, which receives registry and metadata      *)
(*     events in order on one connection, and handles commands;            *)
(*   - the worker thread it spawns, which runs wpctl and then pactl.       *)
(***************************************************************************)
EXTENDS Integers, Sequences, FiniteSets

CONSTANTS
  Mics,            \* foreign capture sources a user may select as default
  Eligible,        \* those auto_detect_eligible accepts (hardware, enhancement)
  Virtual,         \* the soundboard's own virtual microphone
  NoName,          \* no default source (Option::None)
  Removable,       \* sources that may vanish from the graph
  CommandsMayFail, \* may wpctl, pactl, pactl load-module or a spawn fail?
  MaxChanges       \* bound on the changes made by the user and the system

ASSUME NamesAssumption ==
  /\ Eligible \subseteq Mics
  /\ Virtual \notin Mics
  /\ NoName \notin Mics \cup {Virtual}
  /\ Removable \subseteq Mics \cup {Virtual}
  /\ CommandsMayFail \in BOOLEAN
  /\ MaxChanges \in Nat

Sources == Mics \cup {Virtual}
Names == Sources \cup {NoName}

VARIABLES
  graph,          \* sources that exist in PipeWire
  configured,     \* default.configured.audio.source: what was asked for
  runtimeDefault, \* default.audio.source: what applications get
  live,           \* does the "default" metadata object exist?
  subscribed,     \* does the engine's listener hang on that live object?
  inbox,          \* registry and metadata events on their way to the loop
  mode,           \* runtime.default_source_mode
  sources,        \* state.sources, by node name
  bound,          \* state.default_metadata is Some
  cached,         \* state.default_audio_source_name
  previous,       \* state.previous_default_source_name
  claimed,        \* state.claimed_default
  inFlight,       \* state.default_source_command_in_flight
  workers,        \* running default-source threads
  phase,          \* "up", the steps of a restoring shutdown, then "down"
  restoring,      \* the source a shutdown restores, and whether a command took
  changes         \* changes of the environment so far

systemVars == <<graph, configured, runtimeDefault, live, subscribed>>
workerVars == <<inFlight, workers>>
beliefVars == <<cached, previous, claimed>>
shutdownVars == <<phase, restoring>>
vars == <<systemVars, inbox, mode, sources, bound, beliefVars, workerVars,
          shutdownVars, changes>>

Message == [kind : {"property"}, name : Names]
             \cup [kind : {"added", "removed"}, name : Sources]
             \cup [kind : {"bound", "gone"}]

Property(n) == [kind |-> "property", name |-> n]

Job == [target : Sources, step : {"wpctl", "pactl", "done"}]

TypeOK ==
  /\ graph \subseteq Sources
  /\ configured \in Names
  /\ runtimeDefault \in Names
  /\ live \in BOOLEAN
  /\ subscribed \in BOOLEAN
  /\ inbox \in Seq(Message)
  /\ mode \in {"Default", "Manual"}
  /\ sources \subseteq Sources
  /\ bound \in BOOLEAN
  /\ cached \in Names
  /\ previous \in Names
  /\ claimed \in BOOLEAN
  /\ inFlight \in BOOLEAN
  /\ workers \subseteq Job
  /\ phase \in {"up", "wait", "wpctl", "pactl", "down"}
  /\ restoring \in [target : Eligible \cup {NoName}, took : BOOLEAN]
  /\ changes \in 0 .. MaxChanges

(***************************************************************************)
(* An engine that has just started: nothing known, nothing claimed.  The   *)
(* configured default survives from an earlier engine.                     *)
(***************************************************************************)
Init ==
  /\ graph = {}
  /\ configured \in Names
  /\ runtimeDefault = NoName
  /\ live = FALSE
  /\ subscribed = FALSE
  /\ inbox = <<>>
  /\ mode \in {"Default", "Manual"}
  /\ sources = {}
  /\ bound = FALSE
  /\ cached = NoName
  /\ previous = NoName
  /\ claimed = FALSE
  /\ inFlight = FALSE
  /\ workers = {}
  /\ phase = "up"
  /\ restoring = [target |-> NoName, took |-> FALSE]
  /\ changes = 0

-----------------------------------------------------------------------------
(* PipeWire, WirePlumber and the user. *)

\* The runtime default becomes n; a subscribed listener is told of a change.
PublishDefault(n, queue) ==
  /\ runtimeDefault' = n
  /\ inbox' = IF subscribed /\ n # runtimeDefault
                THEN Append(queue, Property(n)) ELSE queue

\* WirePlumber is asked for n, by a user's mixer, wpctl or pactl. Asking for
\* the source that is already configured changes nothing.
ConfigureDefault(n) ==
  IF configured = n
    THEN UNCHANGED <<configured, runtimeDefault, inbox>>
    ELSE configured' = n /\ PublishDefault(n, inbox)

Budget == changes < MaxChanges /\ changes' = changes + 1

\* The user selects another microphone in a mixer.
UserPicks(n) ==
  /\ phase # "down"
  /\ live /\ n \in graph \cap Mics
  /\ Budget
  /\ ConfigureDefault(n)
  /\ UNCHANGED <<graph, live, subscribed, mode, sources, bound, beliefVars,
                 workerVars, shutdownVars>>

\* A source enters the graph. When it is the configured one WirePlumber
\* selects it, except that a cleared default may stay cleared.
NodeAppears(n) ==
  /\ phase # "down"
  /\ n \notin graph
  /\ graph' = graph \cup {n}
  /\ \E d \in IF live /\ configured = n
                THEN {n} \cup ({NoName} \cap {runtimeDefault})
                ELSE {runtimeDefault} :
       PublishDefault(d, Append(inbox, [kind |-> "added", name |-> n]))
  /\ UNCHANGED <<configured, live, subscribed, mode, sources, bound,
                 beliefVars, workerVars, shutdownVars, changes>>

\* A source leaves the graph; a default that pointed at it is cleared or
\* falls back to another microphone.
NodeVanishes(n) ==
  /\ phase # "down"
  /\ n \in graph \cap Removable
  /\ Budget
  /\ graph' = graph \ {n}
  /\ \E d \in IF runtimeDefault = n
                THEN {NoName} \cup ((graph \cap Mics) \ {n})
                ELSE {runtimeDefault} :
       PublishDefault(d, Append(inbox, [kind |-> "removed", name |-> n]))
  /\ UNCHANGED <<configured, live, subscribed, mode, sources, bound,
                 beliefVars, workerVars, shutdownVars>>

\* The default metadata object is created. One that replaces another starts
\* without properties, because MetadataGone clears both.
MetadataAppears ==
  /\ phase # "down"
  /\ ~live
  /\ live' = TRUE
  /\ runtimeDefault' = IF configured \in graph THEN configured ELSE NoName
  /\ inbox' = Append(inbox, [kind |-> "bound"])
  /\ UNCHANGED <<graph, configured, subscribed, mode, sources, bound,
                 beliefVars, workerVars, shutdownVars, changes>>

\* WirePlumber restarts: its metadata object and the properties on it vanish.
MetadataGone ==
  /\ phase # "down"
  /\ live
  /\ Budget
  /\ live' = FALSE
  /\ subscribed' = FALSE
  /\ configured' = NoName
  /\ runtimeDefault' = NoName
  /\ inbox' = Append(inbox, [kind |-> "gone"])
  /\ UNCHANGED <<graph, mode, sources, bound, beliefVars, workerVars,
                 shutdownVars>>

-----------------------------------------------------------------------------
(* The loop thread. *)

AlreadyHolds(name, held) == held /\ name = Virtual

\* The swap of in_flight, then the spawn, which may fail.
Spawn(target) ==
  IF inFlight
    THEN UNCHANGED workerVars
    ELSE \/ /\ inFlight' = TRUE
            /\ workers' = workers \cup {[target |-> target, step |-> "wpctl"]}
         \/ /\ CommandsMayFail
            /\ UNCHANGED workerVars

\* What claim_default_source_if_enabled remembers before its first claim.
Remember(prev, name) == IF prev = NoName /\ name # Virtual THEN name ELSE prev

\* claim_default_source_if_enabled, at the end of a handler that has set the
\* mode, the known sources, the cached name, the remembered and the claim.
Claim(m, known, name, prev, held) ==
  IF m = "Default" /\ ~inFlight /\ Virtual \in known /\ ~AlreadyHolds(name, held)
    THEN /\ previous' = Remember(prev, name)
         /\ Spawn(Virtual)
         /\ claimed' = TRUE
    ELSE /\ previous' = prev
         /\ claimed' = held
         /\ UNCHANGED workerVars

Receive(kind) ==
  /\ phase = "up"
  /\ inbox # <<>>
  /\ Head(inbox).kind = kind

\* handle_default_source_metadata_change for a name that is not ours: it is
\* remembered, and WirePlumber's configured default is taken back.
DefaultChanged(n) ==
  /\ Receive("property") /\ Head(inbox).name = n
  /\ inbox' = Tail(inbox)
  /\ cached' = n
  /\ IF mode = "Manual" \/ n = Virtual
       THEN UNCHANGED <<previous, claimed, workerVars>>
       ELSE Claim(mode, sources, n, IF previous = NoName THEN n ELSE previous, claimed)
  /\ UNCHANGED <<systemVars, mode, sources, bound, shutdownVars, changes>>

\* Fault: a cleared default is left to wpctl, like a selected device.
WriteNothing == inbox' = Tail(inbox) /\ UNCHANGED runtimeDefault

\* write_runtime_default_source: a write through the metadata handle, which
\* reaches nobody when the object behind the handle is gone.
WriteRuntimeKey ==
  IF bound /\ subscribed
    THEN PublishDefault(Virtual, Tail(inbox))
    ELSE inbox' = Tail(inbox) /\ UNCHANGED runtimeDefault

\* The same handler for a default that was cleared.
DefaultCleared ==
  /\ Receive("property") /\ Head(inbox).name = NoName
  /\ cached' = NoName
  /\ IF mode = "Manual"
       THEN /\ inbox' = Tail(inbox)
            /\ UNCHANGED <<runtimeDefault, previous, claimed, workerVars>>
       ELSE /\ WriteRuntimeKey
            /\ Claim(mode, sources, NoName, previous, claimed)
  /\ UNCHANGED <<graph, configured, live, subscribed, mode, sources, bound,
                 shutdownVars, changes>>

\* The registry announces the metadata object. Binding it makes the server
\* report the current value, unless the object is already gone again.
MetadataBound ==
  /\ Receive("bound")
  /\ bound' = TRUE
  /\ cached' = NoName
  /\ subscribed' = (live /\ \A i \in 2 .. Len(inbox) : inbox[i].kind # "gone")
  /\ inbox' = IF subscribed' /\ runtimeDefault # NoName
                THEN Append(Tail(inbox), Property(runtimeDefault))
                ELSE Tail(inbox)
  /\ Claim(mode, sources, NoName, previous, FALSE)
  /\ UNCHANGED <<graph, configured, runtimeDefault, live, mode, sources,
                 shutdownVars, changes>>

\* Fault: the belief survives the metadata object it came from.
MetadataLostKeepingBelief ==
  /\ Receive("gone")
  /\ inbox' = Tail(inbox)
  /\ bound' = FALSE
  /\ UNCHANGED <<systemVars, mode, sources, beliefVars, workerVars,
                 shutdownVars, changes>>

MetadataLost ==
  /\ Receive("gone")
  /\ inbox' = Tail(inbox)
  /\ bound' = FALSE
  /\ cached' = NoName
  /\ claimed' = FALSE
  /\ UNCHANGED <<systemVars, mode, sources, previous, workerVars,
                 shutdownVars, changes>>

SourceAdded ==
  /\ Receive("added")
  /\ inbox' = Tail(inbox)
  /\ sources' = sources \cup {Head(inbox).name}
  /\ Claim(mode, sources', cached, previous, claimed)
  /\ UNCHANGED <<systemVars, mode, bound, cached, shutdownVars, changes>>

SourceRemoved ==
  /\ Receive("removed")
  /\ inbox' = Tail(inbox)
  /\ sources' = sources \ {Head(inbox).name}
  /\ UNCHANGED <<systemVars, mode, bound, beliefVars, workerVars,
                 shutdownVars, changes>>

\* ensure_virtual_mic_present after the delay and the cooldown: the null sink
\* is reloaded, the claim forgotten and tried again.
RepairVirtualMic ==
  /\ phase = "up"
  /\ Virtual \notin sources \cup graph
  /\ graph' = graph \cup {Virtual}
  /\ inbox' = Append(inbox, [kind |-> "added", name |-> Virtual])
  /\ Claim(mode, sources, cached, previous, FALSE)
  /\ UNCHANGED <<configured, runtimeDefault, live, subscribed, mode, sources,
                 bound, cached, shutdownVars, changes>>

\* restore_default_source: only an owned claim is given back, and only to a
\* source that is still there. Spawn drops it when a worker is running.
Restore ==
  /\ claimed' = FALSE
  /\ IF claimed /\ previous \in sources
       THEN Spawn(previous)
       ELSE UNCHANGED workerVars

\* AudioCommand::SetDefaultSourceMode
SetDefaultSourceMode(m) ==
  /\ phase = "up"
  /\ Budget
  /\ mode' = m
  /\ \/ m = "Default" /\ Claim(m, sources, cached, previous, claimed)
     \/ m = "Manual" /\ Restore /\ UNCHANGED previous
  /\ UNCHANGED <<systemVars, inbox, sources, bound, cached, shutdownVars>>

\* Fault: any source known will do.
RestoreTargetsUnfiltered ==
  IF previous \in sources THEN {previous} ELSE sources

\* transient_restore_target: the remembered source, else the best eligible one
\* (which of several is best does not matter here).
RestoreTargets ==
  LET there == sources \cap Eligible
  IN  IF previous \in there THEN {previous} ELSE there

\* AudioCommand::Shutdown
Shutdown(policy) ==
  /\ phase = "up"
  /\ \/ /\ policy = "Transient"
        /\ \E t \in RestoreTargets : restoring' = [restoring EXCEPT !.target = t]
        /\ phase' = "wait"
        /\ UNCHANGED claimed
     \/ /\ policy = "Transient" /\ RestoreTargets = {}
        /\ phase' = "down"
        /\ claimed' = FALSE
        /\ UNCHANGED restoring
     \/ /\ policy = "Persistent"
        /\ phase' = "down"
        /\ UNCHANGED <<claimed, restoring>>
  /\ UNCHANGED <<systemVars, inbox, mode, sources, bound, cached, previous,
                 workerVars, changes>>

\* Fault: the shutdown does not wait for the running worker.
ShutdownNotWaiting ==
  /\ phase = "wait"
  /\ phase' = "wpctl"
  /\ UNCHANGED <<systemVars, inbox, mode, sources, bound, beliefVars,
                 workerVars, restoring, changes>>

\* The shutdown waits for a running worker: up to 2 s, which is more than the
\* two 900 ms limits of a worker's commands, so the wait ends with it.
ShutdownWaited ==
  /\ phase = "wait" /\ ~inFlight
  /\ phase' = "wpctl"
  /\ UNCHANGED <<systemVars, inbox, mode, sources, bound, beliefVars,
                 workerVars, restoring, changes>>

\* One command of wpctl or pactl: it takes, or it fails. It cannot take when
\* the source is gone.
Command(target) ==
  \/ target \in graph /\ live /\ ConfigureDefault(target)
  \/ /\ CommandsMayFail \/ target \notin graph \/ ~live
     /\ UNCHANGED <<configured, runtimeDefault, inbox>>

ShutdownCommand ==
  /\ \/ phase = "wpctl" /\ phase' = "pactl" /\ UNCHANGED claimed
     \/ phase = "pactl" /\ phase' = "down" /\ claimed' = FALSE
  /\ Command(restoring.target)
  /\ restoring' = [restoring EXCEPT !.took = @ \/ configured' = restoring.target]
  /\ UNCHANGED <<graph, live, subscribed, mode, sources, bound, cached,
                 previous, workerVars, changes>>

-----------------------------------------------------------------------------
(* The worker thread. It outlives nothing: it only owns its job. *)

NextStep == [wpctl |-> "pactl", pactl |-> "done"]

WorkerCommand(job) ==
  /\ job \in workers /\ job.step # "done"
  /\ Command(job.target)
  /\ workers' = (workers \ {job}) \cup {[job EXCEPT !.step = NextStep[job.step]]}
  /\ UNCHANGED <<graph, live, subscribed, mode, sources, bound, beliefVars,
                 inFlight, shutdownVars, changes>>

WorkerDone(job) ==
  /\ job \in workers /\ job.step = "done"
  /\ workers' = workers \ {job}
  /\ inFlight' = FALSE
  /\ UNCHANGED <<systemVars, inbox, mode, sources, bound, beliefVars,
                 shutdownVars, changes>>

-----------------------------------------------------------------------------
Environment ==
  \/ \E n \in Sources : UserPicks(n) \/ NodeAppears(n) \/ NodeVanishes(n)
  \/ MetadataAppears
  \/ MetadataGone

LoopEvent ==
  \/ \E n \in Sources : DefaultChanged(n)
  \/ DefaultCleared
  \/ MetadataBound
  \/ MetadataLost
  \/ SourceAdded
  \/ SourceRemoved

LoopCommand ==
  \/ RepairVirtualMic
  \/ \E m \in {"Default", "Manual"} : SetDefaultSourceMode(m)
  \/ \E policy \in {"Transient", "Persistent"} : Shutdown(policy)

ShutdownStep == ShutdownWaited \/ ShutdownCommand

Worker == \E job \in workers : WorkerCommand(job) \/ WorkerDone(job)

Next == Environment \/ LoopEvent \/ LoopCommand \/ ShutdownStep \/ Worker

Spec == Init /\ [][Next]_vars

\* The loop drains its events, a spawned thread runs, a shutdown proceeds.
\* Nothing is assumed of the user, of PipeWire or of the commands issued.
Fairness ==
  WF_vars(LoopEvent) /\ WF_vars(ShutdownStep) /\ WF_vars(Worker)

FairSpec == Spec /\ Fairness
-----------------------------------------------------------------------------
(* Properties. *)

\* At most one default-source thread runs, and the flag says whether one does:
\* the swap in the two spawn functions serialises wpctl and pactl commands,
\* whichever handlers of the loop race with a worker's last store.
OneCommandWorker ==
  /\ Cardinality(workers) <= 1
  /\ inFlight <=> workers # {}

\* The engine owns a claim only while routing is in Default mode, whatever
\* happened between a mode change and its worker.
ClaimOnlyInDefault == claimed => mode = "Default"

\* The source remembered for a restore is never the soundboard's own: a
\* restore must not hand the default back to the virtual microphone.
RestoreTargetIsForeign == previous # Virtual /\ restoring.target # Virtual

\* Once all events are handled, an engine that would skip a claim because it
\* believes it holds the default does hold it: no belief survives the
\* replacement of the metadata object or a default that was cleared.
BeliefIsTrue ==
  (phase = "up" /\ inbox = <<>> /\ AlreadyHolds(cached, claimed))
    => bound /\ subscribed /\ runtimeDefault = Virtual

\* After a transient shutdown that managed one command the configured default
\* is not the virtual microphone, and no thread is left that could set it.
ShutdownGivesBack ==
  (phase = "down" /\ restoring.took) => configured # Virtual /\ workers = {}

\* A cleared default that was reported in Default mode does not stay cleared,
\* in flight or not: the runtime key is written directly.
ClearedIsReclaimed ==
  (subscribed /\ mode = "Default" /\ Property(NoName) \in {inbox[i] : i \in 1 .. Len(inbox)})
    ~> (runtimeDefault # NoName \/ mode = "Manual" \/ ~subscribed \/ phase # "up")

\* FEATURE_REFERENCE.md:611 of the Manual mode: "the soundboard never changes
\* the system default". The engine's own threads are held to it, when the
\* user has a microphone of theirs as the default.
ManualNeverChangesDefault ==
  [][mode = "Manual" /\ runtimeDefault \in Mics /\ ~ Environment
       => runtimeDefault' = runtimeDefault]_vars

\* CHANGELOG.md:153: "In Default routing mode the engine reclaims the virtual
\* microphone when the system default is cleared, not only when another device
\* is selected". This is the case of another device, the virtual microphone
\* being known to the engine.
SelectedDeviceIsReclaimed ==
  (runtimeDefault \in Mics /\ mode = "Default" /\ subscribed /\ Virtual \in graph \cap sources)
    ~> (runtimeDefault = Virtual \/ mode = "Manual" \/ ~subscribed \/ phase # "up")
=============================================================================
