---------------------------- MODULE EngineLifecycle ----------------------------
(***************************************************************************)
(* Engine processes and the window that looks for one: audio/              *)
(* engine_server.rs, audio/engine_ipc.rs and the part of bootstrap.rs that *)
(* starts the player.                                                      *)
(*                                                                         *)
(* An engine serves the requests that arrive at a socket path, one per     *)
(* user.  Engines are started by systemd, which starts a failed one again, *)
(* and by others (by hand, by an older version); of those that find the    *)
(* path served the new one leaves.  A window connects to a running engine  *)
(* of its own version, stops any other, or plays by itself.                *)
(*                                                                         *)
(* A process may die at every step and leaves its socket behind.  A        *)
(* request to a path at which nobody accepts ends, in time, without an     *)
(* answer; one to a serving engine is answered.                            *)
(***************************************************************************)
EXTENDS Naturals, FiniteSets

CONSTANTS
  ElEngines,     \* engine processes alive at a time
  ElNobody,      \* model value: no process
  ElMaxStarts,   \* bound: processes started
  ElMaxWindows   \* bound: windows opened

ASSUME EngineAssumption ==
  /\ ElNobody \notin ElEngines
  /\ {ElMaxStarts, ElMaxWindows} \subseteq Nat

VARIABLES
  elStep,    \* where run() is in each process
  elVersion, \* is the process of the window's version?
  elPath,    \* the process whose socket is at the path
  elManaged, \* main process of the systemd service
  elWanted,  \* will systemd start the service again?
  elWindow,  \* where initialize_player is
  elEarly,   \* history: of each engine, the others that ran when it began to serve
  elStarts, elWindows

elVars == <<elStep, elVersion, elPath, elManaged, elWanted, elWindow, elEarly, elStarts, elWindows>>

Serving(e) == e # ElNobody /\ elStep[e] = "serve"

ElInit ==
  /\ elStep = [e \in ElEngines |-> "off"]
  /\ elVersion = [e \in ElEngines |-> "same"]
  /\ elPath = ElNobody /\ elManaged = ElNobody
  /\ elWanted \in BOOLEAN
  /\ elWindow = "closed"
  /\ elEarly = [e \in ElEngines |-> {}]
  /\ elStarts = 0 /\ elWindows = 0

(***************************************************************************)
(* An engine process: run() and bind_engine_socket_at().                   *)
(***************************************************************************)

Goes(e, from, to) ==
  /\ elStep[e] = from
  /\ elStep' = [elStep EXCEPT ![e] = to]
  /\ UNCHANGED <<elVersion, elWindow, elStarts, elWindows>>

Stays == UNCHANGED <<elPath, elManaged, elWanted, elEarly>>

\* Exit codes 0 and 2 are not restarted.
Exits(e, from, restarted) ==
  /\ Goes(e, from, "off")
  /\ elEarly' = [g \in ElEngines |-> IF g = e THEN {} ELSE elEarly[g] \ {e}]
  /\ elManaged' = IF e = elManaged THEN ElNobody ELSE elManaged
  /\ elWanted' = IF e = elManaged THEN restarted ELSE elWanted

ElVersions == {"same", "other"}

StartProcess(e) ==
  /\ elStep[e] = "off" /\ elStarts < ElMaxStarts
  /\ elStarts' = elStarts + 1
  /\ elStep' = [elStep EXCEPT ![e] = "test"]
  /\ \E v \in ElVersions : elVersion' = [elVersion EXCEPT ![e] = v]
  /\ UNCHANGED <<elPath, elWindow, elEarly, elWindows>>

ServiceStarts(e) ==
  /\ elWanted /\ elManaged = ElNobody
  /\ StartProcess(e)
  /\ elManaged' = e
  /\ UNCHANGED elWanted

OthersStart(e) == StartProcess(e) /\ UNCHANGED <<elManaged, elWanted>>

Die(e) ==
  /\ elStep[e] # "off"
  /\ Exits(e, elStep[e], TRUE)
  /\ UNCHANGED elPath

\* Is there a socket that answers a ping?
AnswersPing == Serving(elPath)
\* Faulty variant: every socket found is taken for a stale one.
AnswersNever == FALSE
Answered == AnswersPing

Test(e) ==
  \/ elPath = ElNobody /\ Goes(e, "test", "bind") /\ Stays
  \/ elPath # ElNobody /\ Answered /\ Exits(e, "test", FALSE) /\ UNCHANGED elPath
  \/ elPath # ElNobody /\ ~Answered /\ Goes(e, "test", "stale") /\ Stays

RemoveStale(e) ==
  IF elPath = ElNobody THEN Exits(e, "stale", TRUE) /\ UNCHANGED elPath
  ELSE /\ Goes(e, "stale", "bind")
       /\ elPath' = ElNobody
       /\ UNCHANGED <<elManaged, elWanted, elEarly>>

Bind(e) ==
  IF elPath # ElNobody THEN Exits(e, "bind", TRUE) /\ UNCHANGED elPath
  ELSE /\ Goes(e, "bind", "load")
       /\ elPath' = e
       /\ UNCHANGED <<elManaged, elWanted, elEarly>>

\* The settings are read and the player is started.
Load(e) ==
  /\ Goes(e, "load", "serve")
  /\ elEarly' = [elEarly EXCEPT ![e] = {f \in ElEngines \ {e} : elStep[f] # "off"}]
  /\ UNCHANGED <<elPath, elManaged, elWanted>>

\* The settings cannot be read: the listener is dropped.
Refuse(e) == Goes(e, "load", "refusing") /\ Stays
\* The loop was told to stop: the player is shut down, the listener dropped.
Close(e) == Goes(e, "closing", "leaving") /\ Stays

\* remove_engine_socket, whoever's it is; not found is fine.
Leave(e) ==
  /\ \/ Exits(e, "leaving", FALSE)
     \/ Exits(e, "refusing", FALSE)
  /\ elPath' = ElNobody

(***************************************************************************)
(* The window.                                                             *)
(***************************************************************************)

WindowGoes(from, to) ==
  /\ elWindow \in from
  /\ elWindow' = to
  /\ UNCHANGED <<elVersion, elStarts, elWindows>>

Open ==
  /\ elWindow = "closed" /\ elWindows < ElMaxWindows
  /\ elWindows' = elWindows + 1
  /\ elWindow' \in {"start", "temporary"}
  /\ UNCHANGED <<elStep, elVersion, elPath, elManaged, elWanted, elEarly, elStarts>>

\* systemctl stops the target and so the service (killed), or fails.
ServiceStopped ==
  \/ UNCHANGED <<elStep, elPath, elEarly, elManaged, elWanted>>
  \/ /\ elStep' = [e \in ElEngines |-> IF e = elManaged THEN "off" ELSE elStep[e]]
     /\ elEarly' = [e \in ElEngines |-> IF e = elManaged THEN {} ELSE elEarly[e] \ {elManaged}]
     /\ elManaged' = ElNobody /\ elWanted' = FALSE
     /\ UNCHANGED elPath

\* manage_audio_engine_service(Start), its result ignored or not.
ServiceWanted == elWanted' = TRUE /\ UNCHANGED <<elStep, elPath, elEarly, elManaged>>
ServiceUnchanged == UNCHANGED <<elStep, elPath, elEarly, elManaged, elWanted>>

StartPersistent ==
  /\ WindowGoes({"start"}, "connect")
  /\ ServiceWanted \/ ServiceUnchanged

\* connect_to_engine
Connects == Serving(elPath) /\ elVersion[elPath] = "same"

\* connect_or_start_audio_engine: connect, and ask who runs.
Connect ==
  /\ \/ Connects /\ WindowGoes({"connect", "attempts"}, "connected")
     \/ ~Connects /\ WindowGoes({"connect"}, IF Serving(elPath) THEN "stop" ELSE "start service")
     \/ ~Connects /\ WindowGoes({"attempts"}, "failed")
  /\ ServiceUnchanged

\* A request to stop names the version of the engine it is meant for; an engine
\* of another version refuses it.
StopRequest(versions) ==
  /\ elStep' = IF Serving(elPath) /\ elVersion[elPath] \in versions
               THEN [elStep EXCEPT ![elPath] = "closing"] ELSE elStep
  /\ UNCHANGED <<elPath, elEarly, elManaged, elWanted>>

\* shutdown_incompatible_engine_if_running; by now another engine may be there. The
\* request names the version of the window, too: an older engine stops, a newer one
\* refuses (shutdown_request_is_authorized), and either may be the one of the other
\* version.
StopIncompatible ==
  \/ ~Serving(elPath) /\ WindowGoes({"stop"}, "failed") /\ ServiceUnchanged
  \/ Connects /\ WindowGoes({"stop"}, "failed") /\ ServiceUnchanged
  \/ /\ Serving(elPath) /\ ~Connects
     /\ WindowGoes({"stop"}, "wait")
     /\ StopRequest({"other"}) \/ ServiceUnchanged

\* wait_for_engine_stop: until nobody answers, or for some seconds.
Wait ==
  /\ \/ ~Serving(elPath) /\ WindowGoes({"wait"}, "restart service")
     \/ Serving(elPath) /\ WindowGoes({"wait"}, "failed")
  /\ ServiceUnchanged

StartService ==
  \/ WindowGoes({"start service"}, "attempts") /\ ServiceWanted
  \/ WindowGoes({"start service", "restart service"}, "failed") /\ ServiceUnchanged

\* systemctl restart: the service's process is killed before it starts another.
RestartService ==
  /\ WindowGoes({"restart service"}, "attempts")
  /\ elStep' = [e \in ElEngines |-> IF e = elManaged THEN "off" ELSE elStep[e]]
  /\ elEarly' = [e \in ElEngines |-> IF e = elManaged THEN {} ELSE elEarly[e] \ {elManaged}]
  /\ elManaged' = ElNobody /\ elWanted' = TRUE
  /\ UNCHANGED elPath

\* stop_audio_engine_service_and_process, for a window that plays by itself.
StopService == WindowGoes({"temporary"}, "stop engine") /\ ServiceStopped
StopEngine ==
  /\ WindowGoes({"stop engine"}, "stopping")
  /\ StopRequest({"same"})
PlayAlone == WindowGoes({"stopping"}, "alone") /\ ServiceUnchanged

\* The dialog of a failed start offers to run temporarily.
CloseWindow ==
  /\ \/ WindowGoes({"failed"}, "temporary")
     \/ WindowGoes({"failed", "connected", "alone"}, "closed")
  /\ ServiceUnchanged

ElNext ==
  \/ \E e \in ElEngines :
       \/ ServiceStarts(e) \/ OthersStart(e) \/ Die(e)
       \/ Test(e) \/ RemoveStale(e) \/ Bind(e) \/ Load(e) \/ Refuse(e) \/ Close(e) \/ Leave(e)
  \/ Open \/ StartPersistent \/ Connect \/ StopIncompatible \/ Wait
  \/ StartService \/ RestartService \/ StopService \/ StopEngine \/ PlayAlone \/ CloseWindow

ElSpec == ElInit /\ [][ElNext]_elVars

(***************************************************************************)
(* Properties.                                                             *)
(***************************************************************************)

ElSteps == {"off", "test", "stale", "bind", "load", "refusing", "serve", "closing", "leaving"}

EngineTypeOK ==
  /\ elStep \in [ElEngines -> ElSteps]
  /\ elVersion \in [ElEngines -> ElVersions]
  /\ {elPath, elManaged} \subseteq ElEngines \cup {ElNobody}
  /\ elManaged # ElNobody => elStep[elManaged] # "off"
  /\ elWanted \in BOOLEAN
  /\ elEarly \in [ElEngines -> SUBSET ElEngines]

\* A serving engine keeps its socket: no process takes or removes its path but
\* one that was running already when the engine began to serve, however many are
\* started later, and whichever of them are killed.
ServingEnginesKeepTheirSocket ==
  [][\A e \in ElEngines :
       /\ elStep[e] = "serve" /\ elStep'[e] = "serve"
       /\ elPath = e /\ elPath' # e
       => \E f \in elEarly[e] : elStep'[f] # elStep[f]]_elVars
===============================================================================
