------------------------------ MODULE EngineCalls ------------------------------
(***************************************************************************)
(* What the window asks of the engine's process.  A thread of the window   *)
(* opens a connection for each request and waits for its answer, at most   *)
(* IPC_TIMEOUT.  The engine serves every connection with a thread of its   *)
(* own; all of them send to one channel, which the audio loop empties.     *)
(* Some commands are answered when they are sent, others when the loop has *)
(* handled them, or has not for too long.                                  *)
(*                                                                         *)
(* One poller of the window asks for snapshots.  How the engine is found   *)
(* and started is EngineLifecycle's.                                       *)
(***************************************************************************)
EXTENDS Naturals, Sequences, FiniteSets

CONSTANTS
  EcCallers,  \* threads of the window that call its player
  EcPoller,   \* lsb-engine-snapshot-poll
  EcMaxCalls, \* bound: requests
  EcMaxFaults \* bound: requests that the window gives up, and the engine's end

ASSUME CallAssumption == EcPoller \notin EcCallers /\ EcMaxCalls \in Nat \ {0} /\ EcMaxFaults \in Nat

VARIABLES
  ecCalls,     \* the requests so far, each with its connection and its answer
  ecQueue,     \* the command channel: numbers of requests, and Shutdown
  ecLoop,      \* the audio loop: at rest, about to publish, or gone
  ecEngine,    \* the engine's process
  ecPublished, \* LocalAudioPlayer.snapshot: how much has been handled in it
  ecLanded     \* history: the requests whose commands were handled, in this order

ecVars == <<ecCalls, ecQueue, ecLoop, ecEngine, ecPublished, ecLanded>>

(***************************************************************************)
(* Kinds of requests.                                                      *)
(***************************************************************************)

Posted == {"set"}      \* volumes, gain, looping, StopSound, StopAll, Seek, Pause, Resume
Confirmed == {"route"} \* SetMicPassthrough, SetMicSource, SetDefaultSourceMode, SetMicLatencyProfile, Play
EcKinds == Posted \cup Confirmed \cup {"replace"} \* PlayReplace

Shutdown == 0
Calls == DOMAIN ecCalls
Post(i) == ecQueue' = IF ecLoop = "gone" THEN ecQueue ELSE Append(ecQueue, i)

EcInit ==
  /\ ecCalls = <<>> /\ ecQueue = <<>>
  /\ ecLoop = "rest" /\ ecEngine = "serving"
  /\ ecPublished = 0 /\ ecLanded = <<>>

(***************************************************************************)
(* The window.                                                             *)
(***************************************************************************)

\* Faulty variant: a setter leaves its call to a thread of its own.
ReadyAtOnce(c) == TRUE
\* A thread waits for its answer.
Ready(c) == \A i \in Calls : ecCalls[i].caller = c => ecCalls[i].told # "nothing"

\* send_request_to connects and writes; without a socket it fails.
Ask(c, kind) ==
  /\ Ready(c) /\ Len(ecCalls) < EcMaxCalls
  /\ LET new == [caller |-> c, kind |-> kind, at |-> "sent", told |-> "nothing",
                 answer |-> "none", version |-> 0]
     IN ecCalls' = Append(ecCalls, IF ecEngine = "gone" THEN [new EXCEPT !.at = "over", !.told = "failed"]
                                   ELSE new)
  /\ UNCHANGED <<ecQueue, ecLoop, ecEngine, ecPublished, ecLanded>>
AskRequest == \E c \in EcCallers, kind \in EcKinds : Ask(c, kind)
AskSnapshot == Ask(EcPoller, "snapshot")

\* read_response, remote_ok, remote_play
ReadAnswer(i) ==
  /\ ecCalls[i].at = "answered" /\ ecCalls[i].told = "nothing"
  /\ ecCalls' = [ecCalls EXCEPT ![i] = [@ EXCEPT !.at = "over", !.told = ecCalls[i].answer, !.answer = "none"]]
  /\ UNCHANGED <<ecQueue, ecLoop, ecEngine, ecPublished, ecLanded>>

GivenUp == Cardinality({i \in Calls : ecCalls[i].told = "abandoned"})
Ends == IF ecEngine = "serving" THEN 0 ELSE 1

\* The read times out and the connection is closed.
GiveUp(i) ==
  /\ ecCalls[i].at \notin {"answered", "over"} /\ ecCalls[i].told = "nothing"
  /\ GivenUp + Ends < EcMaxFaults
  /\ ecCalls' = [ecCalls EXCEPT ![i] = [@ EXCEPT !.told = "abandoned"]]
  /\ UNCHANGED <<ecQueue, ecLoop, ecEngine, ecPublished, ecLanded>>

(***************************************************************************)
(* The engine's connections.                                               *)
(***************************************************************************)

Accept(i) ==
  /\ ecEngine = "serving" /\ ecCalls[i].at = "sent"
  /\ ecCalls' = [ecCalls EXCEPT ![i] = [@ EXCEPT !.at = "accepted"]]
  /\ UNCHANGED <<ecQueue, ecLoop, ecEngine, ecPublished, ecLanded>>

\* write_response; nobody reads it when the window has given up.
Written(c, answer) ==
  IF c.told = "nothing" THEN [c EXCEPT !.at = "answered", !.answer = answer] ELSE [c EXCEPT !.at = "over", !.answer = "none"]
\* The answer of a request that waits for the loop.
Awaits(i) ==
  ecCalls' = [ecCalls EXCEPT ![i] = IF ecLoop = "gone" THEN Written(@, "failed") ELSE [@ EXCEPT !.at = "awaits"]]

\* handle_request
Handle(i) ==
  /\ ecEngine # "gone" /\ ecCalls[i].at = "accepted"
  /\ \/ /\ ecCalls[i].kind = "snapshot"
        /\ ecCalls' = [ecCalls EXCEPT ![i] = [Written(@, "ok") EXCEPT !.version = ecPublished]]
        /\ UNCHANGED ecQueue
     \/ /\ ecCalls[i].kind \in Posted /\ Post(i)
        /\ \/ ecCalls' = [ecCalls EXCEPT ![i] = Written(@, "ok")]
           \/ ecLoop = "gone" /\ ecCalls' = [ecCalls EXCEPT ![i] = Written(@, "failed")] \* StopSound
     \/ ecCalls[i].kind \in Confirmed /\ Post(i) /\ Awaits(i)
     \/ ecCalls[i].kind = "replace" /\ Post(i) /\ ecCalls' = [ecCalls EXCEPT ![i] = [@ EXCEPT !.at = "replacing"]]
  /\ UNCHANGED <<ecLoop, ecEngine, ecPublished, ecLanded>>

\* PlayReplace has sent StopAll and sends Play.
HandleReplacement(i) ==
  /\ ecEngine # "gone" /\ ecCalls[i].at = "replacing"
  /\ Post(i) /\ Awaits(i)
  /\ UNCHANGED <<ecLoop, ecEngine, ecPublished, ecLanded>>

\* The loop's response comes, or AUDIO_COMMAND_RESPONSE_TIMEOUT and
\* PLAY_COMMAND_RESPONSE_TIMEOUT pass.
Respond(i) ==
  /\ ecEngine # "gone" /\ ecCalls[i].at = "awaits"
  /\ ecCalls' = [ecCalls EXCEPT ![i] = Written(@, IF @.answer = "none" THEN "failed" ELSE @.answer)]
  /\ UNCHANGED <<ecQueue, ecLoop, ecEngine, ecPublished, ecLanded>>

(***************************************************************************)
(* The audio loop.                                                         *)
(***************************************************************************)

\* handle_audio_command responds before it publishes. Rebuilding the capture
\* stream, or opening a sound, may fail.
HandleCommand ==
  /\ ecLoop = "rest" /\ ecQueue # <<>> /\ Head(ecQueue) # Shutdown
  /\ ecQueue' = Tail(ecQueue) /\ ecLoop' = "publish"
  /\ LET i == Head(ecQueue)
     IN /\ ecLanded' = Append(ecLanded, i)
        /\ IF ecCalls[i].at = "awaits" /\ i \notin {ecQueue[n] : n \in 2..Len(ecQueue)}
           THEN \E answer \in {"ok", "failed"} : ecCalls' = [ecCalls EXCEPT ![i] = [@ EXCEPT !.answer = answer]]
           ELSE UNCHANGED ecCalls
  /\ UNCHANGED <<ecEngine, ecPublished>>

Publishes ==
  /\ ecLoop = "publish" /\ ecLoop' = "rest"
  /\ ecPublished' = Len(ecLanded)
  /\ UNCHANGED <<ecCalls, ecQueue, ecEngine, ecLanded>>

\* A request to shut down is accepted; AudioPlayer::shutdown.
EngineStopping ==
  /\ ecEngine = "serving" /\ GivenUp < EcMaxFaults
  /\ ecEngine' = "stopping"
  /\ Post(Shutdown)
  /\ UNCHANGED <<ecCalls, ecLoop, ecPublished, ecLanded>>

LoopQuits ==
  /\ ecLoop = "rest" /\ ecQueue # <<>> /\ Head(ecQueue) = Shutdown
  /\ ecLoop' = "gone" /\ ecQueue' = <<>>
  /\ UNCHANGED <<ecCalls, ecEngine, ecPublished, ecLanded>>

\* The process ends, or is killed. What was answered can still be read.
EngineEnded ==
  /\ ecEngine # "gone" /\ GivenUp < EcMaxFaults
  /\ ecEngine' = "gone"
  /\ ecLoop' = "gone" /\ ecQueue' = <<>>
  /\ ecCalls' = [i \in Calls |->
       IF ecCalls[i].at \in {"answered", "over"} THEN ecCalls[i]
       ELSE [ecCalls[i] EXCEPT !.at = "over", !.told = IF @ = "nothing" THEN "failed" ELSE @]]
  /\ UNCHANGED <<ecPublished, ecLanded>>

EcNext ==
  \/ AskRequest \/ AskSnapshot
  \/ \E i \in Calls : ReadAnswer(i) \/ GiveUp(i) \/ Accept(i) \/ Handle(i) \/ HandleReplacement(i) \/ Respond(i)
  \/ HandleCommand \/ Publishes \/ EngineStopping \/ LoopQuits \/ EngineEnded

EcSpec == EcInit /\ [][EcNext]_ecVars

(***************************************************************************)
(* Properties.                                                             *)
(***************************************************************************)

CallTypeOK ==
  /\ ecCalls \in Seq([caller : EcCallers \cup {EcPoller}, kind : EcKinds \cup {"snapshot"},
                      at : {"sent", "accepted", "replacing", "awaits", "answered", "over"},
                      told : {"nothing", "ok", "failed", "abandoned"},
                      answer : {"none", "ok", "failed"}, version : 0..2 * EcMaxCalls])
  /\ Len(ecCalls) <= EcMaxCalls
  /\ ecQueue \in Seq(Calls \cup {Shutdown}) /\ ecLanded \in Seq(Calls)
  /\ ecLoop \in {"rest", "publish", "gone"} /\ ecEngine \in {"serving", "stopping", "gone"}
  /\ ecPublished \in 0..Len(ecLanded)

LandingsOf(i) == {n \in DOMAIN ecLanded : ecLanded[n] = i}
OfOne(i, j) == ecCalls[i].caller = ecCalls[j].caller

\* What a thread of the window asks lands in the order in which it asked and
\* not twice; only a call that the window gave up waiting for can land after a
\* later one. A route or a play that was answered "ok" has landed; what else
\* was answered so will, as long as the loop runs. A snapshot that the poller
\* still waits for is not older than the ones it has shown.
AnswersAreTrue ==
  /\ \A m, n \in DOMAIN ecLanded :
       LET i == ecLanded[m]  j == ecLanded[n]
       IN m < n /\ OfOne(i, j) /\ i > j => ecCalls[j].told = "abandoned"
  /\ \A i \in Calls :
       /\ Cardinality(LandingsOf(i)) <= IF ecCalls[i].kind = "replace" THEN 2 ELSE 1
       /\ ecCalls[i].told = "ok" =>
            CASE ecCalls[i].kind \in Posted -> LandingsOf(i) # {} \/ ecLoop = "gone" \/ i \in {ecQueue[n] : n \in DOMAIN ecQueue}
              [] ecCalls[i].kind \in Confirmed -> LandingsOf(i) # {}
              [] ecCalls[i].kind = "replace" -> Cardinality(LandingsOf(i)) = 2
              [] OTHER -> TRUE
       /\ ecCalls[i].at = "answered" /\ ecCalls[i].told = "nothing" =>
            \A j \in Calls : OfOne(i, j) => ecCalls[j].version <= ecCalls[i].version \/ ecCalls[j].told = "abandoned"
================================================================================
