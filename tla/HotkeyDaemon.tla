------------------------------ MODULE HotkeyDaemon ------------------------------
(***************************************************************************)
(* The swhkd backend of the hotkeys in a Wayland session: the projections  *)
(* that the gate lets through one at a time, the configuration file with   *)
(* its last good version, and the daemon that reads the file when it       *)
(* starts and when it is signalled.  The daemon dies of a file it cannot   *)
(* parse; it outlives a window that crashes.                               *)
(***************************************************************************)
EXTENDS Naturals, Sequences

CONSTANTS
  HdConfigs,    \* what a table of bindings, written out, can be
  HdEmpty,      \* of these, no binding at all
  HdRejected,   \* of these, what swhkd cannot parse
  HdNone,       \* no file, or no candidate
  HdMaxEdits,   \* bound: changes of the table of bindings
  HdMaxDaemons, \* bound: daemons started
  HdMaxFaults   \* bound: failed steps, deaths and crashes

ASSUME DaemonAssumption ==
  /\ HdEmpty \in HdConfigs \ HdRejected /\ HdRejected \subseteq HdConfigs /\ HdNone \notin HdConfigs
  /\ {"none", "failed"} \cap HdConfigs = {} \* an answer is not a table
  /\ HdMaxEdits \in Nat /\ HdMaxDaemons \in Nat /\ HdMaxFaults \in Nat

VARIABLES
  hdTable,     \* the bindings of the library
  hdWindow,    \* "down", or the manager's backend: "deferred", "started"
  hdStep,      \* where the projection is, "rest" without one
  hdPage,      \* the bindings that the projection has read
  hdCandidate, \* SwhkdConfig.candidate
  hdSkipped,   \* first_error: a binding could not be staged
  hdFile,      \* swhkdrc
  hdGood,      \* swhkdrc.last-good
  hdDaemons,   \* the swhkd processes so far; the last one is the window's
  hdAnswer,    \* what the last projection answered
  hdEdits,     \* changes of the table so far
  hdFaults     \* faults so far

hdVars == <<hdTable, hdWindow, hdStep, hdPage, hdCandidate, hdSkipped, hdFile, hdGood, hdDaemons, hdAnswer,
            hdEdits, hdFaults>>

HdInit ==
  /\ hdTable = HdEmpty /\ hdWindow = "down" /\ hdStep = "rest"
  /\ hdPage = HdEmpty /\ hdCandidate = HdNone /\ hdSkipped = FALSE
  /\ hdFile = HdNone /\ hdGood = HdNone /\ hdDaemons = <<>>
  /\ hdAnswer = "none" /\ hdEdits = 0 /\ hdFaults = 0

HdFault == hdFaults < HdMaxFaults /\ hdFaults' = hdFaults + 1
Daemon == Len(hdDaemons)

\* pid_is_live: a process that nobody has waited for is not.
IsLive(d) == hdDaemons[d].state = "live"

\* terminate_stale_daemons and terminate: SIGTERM, and SIGKILL if that is not enough.
Terminated == [d \in DOMAIN hdDaemons |-> [hdDaemons[d] EXCEPT !.state = "gone"]]

Answers(answer) == hdStep' = "rest" /\ hdAnswer' = answer /\ hdSkipped' = FALSE

(***************************************************************************)
(* A projection.                                                           *)
(***************************************************************************)

\* project_hotkey_pages_blocking; begin_projection drops an earlier candidate.
HdBegin ==
  /\ hdWindow # "down" /\ hdStep = "rest"
  /\ \/ /\ hdStep' = "begun"
        /\ hdCandidate' = IF hdWindow = "started" THEN HdEmpty ELSE hdCandidate
        /\ UNCHANGED <<hdSkipped, hdAnswer, hdFaults>>
     \/ hdWindow = "started" /\ HdFault /\ Answers("failed") /\ hdCandidate' = HdNone
  /\ UNCHANGED <<hdTable, hdWindow, hdPage, hdFile, hdGood, hdDaemons, hdEdits>>

\* ensure_backend_started
EnsureStarted == IF hdWindow = "started" THEN "page" ELSE "start"

\* The first page starts the backend; without a page nothing is started.
HdReadPages ==
  /\ hdStep = "begun"
  /\ \/ /\ hdPage' = hdTable
        /\ IF hdTable = HdEmpty /\ hdWindow = "deferred" THEN Answers(HdEmpty)
           ELSE hdStep' = EnsureStarted /\ UNCHANGED <<hdSkipped, hdAnswer>>
        /\ UNCHANGED <<hdCandidate, hdFaults>>
     \/ HdFault /\ hdCandidate' = HdNone /\ Answers("failed") /\ UNCHANGED hdPage \* abort_staged
  /\ UNCHANGED <<hdTable, hdWindow, hdFile, hdGood, hdDaemons, hdEdits>>

\* SwhkdBackend::new writes a file without bindings for the daemon to read first.
HdStart ==
  /\ hdStep = "start"
  /\ \/ /\ hdDaemons' = Terminated /\ hdStep' = "starting" /\ hdCandidate' = HdEmpty
        /\ UNCHANGED <<hdSkipped, hdAnswer, hdFaults>>
     \/ HdFault /\ Answers("failed") /\ UNCHANGED <<hdDaemons, hdCandidate>>
  /\ UNCHANGED <<hdTable, hdWindow, hdPage, hdFile, hdGood, hdEdits>>

\* spawn_managed; a daemon that cannot be started is tried again by the next projection.
HdSpawn ==
  /\ hdStep = "spawn"
  /\ \/ /\ Len(hdDaemons) < HdMaxDaemons
        /\ hdDaemons' = Append(hdDaemons, [state |-> "live", serves |-> hdFile, signal |-> FALSE])
        /\ hdWindow' = "started" /\ hdStep' = "page" /\ hdCandidate' = HdEmpty
        /\ UNCHANGED <<hdSkipped, hdAnswer, hdFaults>>
     \/ HdFault /\ Answers("failed") /\ UNCHANGED <<hdDaemons, hdWindow, hdCandidate>>
  /\ UNCHANGED <<hdTable, hdPage, hdFile, hdGood, hdEdits>>

\* stage_many; a binding that is refused is left out, and the others are projected.
HdStage ==
  /\ hdStep = "page" /\ hdStep' = "staged"
  /\ \/ hdCandidate' = hdPage /\ UNCHANGED <<hdSkipped, hdFaults>>
     \/ HdFault /\ hdSkipped' = TRUE /\ UNCHANGED hdCandidate
  /\ UNCHANGED <<hdTable, hdWindow, hdPage, hdFile, hdGood, hdDaemons, hdAnswer, hdEdits>>

\* A file that takes another's place; a failure is met before that, or when the
\* directory is synced after it.
Replaced(old, new) == IF new = HdNone THEN old ELSE new
Half(old, new) == {old, Replaced(old, new)}

\* commit_projection flushes the candidate and preserves the file as the last good one.
HdPreserve ==
  /\ hdStep \in {"starting", "staged"}
  /\ \/ /\ hdStep' = IF hdStep = "starting" THEN "rename empty" ELSE "rename"
        /\ hdGood' = Replaced(hdGood, hdFile)
        /\ UNCHANGED <<hdCandidate, hdSkipped, hdAnswer, hdFaults>>
     \/ HdFault /\ Answers("failed") /\ hdCandidate' = HdNone /\ hdGood' \in Half(hdGood, hdFile)
  /\ UNCHANGED <<hdTable, hdWindow, hdPage, hdFile, hdDaemons, hdEdits>>

\* The candidate takes the file's place.
HdRename ==
  /\ hdStep \in {"rename empty", "rename"}
  /\ hdCandidate' = HdNone
  /\ \/ /\ hdFile' = hdCandidate
        /\ hdStep' = IF hdStep = "rename" THEN "reload" ELSE "spawn"
        /\ UNCHANGED <<hdSkipped, hdAnswer, hdFaults>>
     \/ HdFault /\ Answers("failed") /\ hdFile' \in Half(hdFile, hdCandidate)
  /\ UNCHANGED <<hdTable, hdWindow, hdPage, hdGood, hdDaemons, hdEdits>>

\* Faulty variant: the daemon finds out for itself.
NobodySignalled == hdDaemons
Signalled == IF IsLive(Daemon) THEN [hdDaemons EXCEPT ![Daemon].signal = TRUE] ELSE hdDaemons

\* SIGHUP; a daemon that has died takes it, too, as long as nobody waits for it.
HdReload ==
  /\ hdStep = "reload"
  /\ hdDaemons' = Signalled /\ hdStep' = "verify"
  /\ UNCHANGED <<hdTable, hdWindow, hdPage, hdCandidate, hdSkipped, hdFile, hdGood, hdAnswer, hdEdits, hdFaults>>

\* verify_swhkd_running
HdVerify ==
  /\ hdStep = "verify"
  /\ IF IsLive(Daemon) THEN Answers(IF hdSkipped THEN "failed" ELSE hdFile)
     ELSE hdStep' = "restore" /\ UNCHANGED <<hdSkipped, hdAnswer>>
  /\ UNCHANGED <<hdTable, hdWindow, hdPage, hdCandidate, hdFile, hdGood, hdDaemons, hdEdits, hdFaults>>

\* restore_last_good and, if it succeeds, another SIGHUP.
HdRestore ==
  /\ hdStep = "restore"
  /\ Answers("failed")
  /\ \/ hdGood # HdNone /\ hdFile' = hdGood /\ hdDaemons' = Signalled /\ UNCHANGED hdFaults
     \/ HdFault /\ hdFile' \in Half(hdFile, hdGood) /\ UNCHANGED hdDaemons
  /\ UNCHANGED <<hdTable, hdWindow, hdPage, hdCandidate, hdGood, hdEdits>>

(***************************************************************************)
(* The daemon, the user and the window.                                    *)
(***************************************************************************)

\* A child that ends stays in the process table until its window ends.
Dead(d) == [hdDaemons EXCEPT ![d] =
              [@ EXCEPT !.state = IF d = Daemon /\ hdWindow = "started" THEN "zombie" ELSE "gone", !.signal = FALSE]]

DaemonReloads(d) ==
  /\ IsLive(d) /\ hdDaemons[d].signal
  /\ hdDaemons' = IF hdFile \in HdRejected THEN Dead(d)
                  ELSE [hdDaemons EXCEPT ![d] = [@ EXCEPT !.serves = hdFile, !.signal = FALSE]]
  /\ UNCHANGED <<hdTable, hdWindow, hdPage, hdStep, hdCandidate, hdSkipped, hdFile, hdGood, hdAnswer, hdEdits, hdFaults>>

DaemonDies(d) ==
  /\ IsLive(d) /\ HdFault
  /\ hdDaemons' = Dead(d)
  /\ UNCHANGED <<hdTable, hdWindow, hdPage, hdStep, hdCandidate, hdSkipped, hdFile, hdGood, hdAnswer, hdEdits>>

HdEdit(table) ==
  /\ hdEdits < HdMaxEdits /\ table # hdTable
  /\ hdTable' = table /\ hdEdits' = hdEdits + 1
  /\ UNCHANGED <<hdWindow, hdStep, hdPage, hdCandidate, hdSkipped, hdFile, hdGood, hdDaemons, hdAnswer, hdFaults>>

HdOpen ==
  /\ hdWindow = "down" /\ hdWindow' = "deferred"
  /\ UNCHANGED <<hdTable, hdStep, hdPage, hdCandidate, hdSkipped, hdFile, hdGood, hdDaemons, hdAnswer, hdEdits, hdFaults>>

\* HotkeyManager::shutdown takes the daemons with it.
HdClose ==
  /\ hdWindow # "down" /\ hdStep = "rest" /\ hdWindow' = "down"
  /\ hdDaemons' = IF hdWindow = "started" THEN Terminated ELSE hdDaemons
  /\ hdAnswer' = "none" /\ hdCandidate' = HdNone
  /\ UNCHANGED <<hdTable, hdStep, hdPage, hdSkipped, hdFile, hdGood, hdEdits, hdFaults>>

\* A crash leaves the daemon behind; who has died is waited for at last.
HdCrash ==
  /\ hdWindow # "down" /\ HdFault /\ hdWindow' = "down"
  /\ hdStep' = "rest" /\ hdAnswer' = "none" /\ hdCandidate' = HdNone /\ hdSkipped' = FALSE
  /\ hdDaemons' = [d \in DOMAIN hdDaemons |-> IF IsLive(d) THEN hdDaemons[d] ELSE [hdDaemons[d] EXCEPT !.state = "gone"]]
  /\ UNCHANGED <<hdTable, hdPage, hdFile, hdGood, hdEdits>>

HdNext ==
  \/ HdBegin \/ HdReadPages \/ HdStart \/ HdSpawn \/ HdStage \/ HdPreserve \/ HdRename
  \/ HdReload \/ HdVerify \/ HdRestore
  \/ \E d \in DOMAIN hdDaemons : DaemonReloads(d) \/ DaemonDies(d)
  \/ \E table \in HdConfigs : HdEdit(table)
  \/ HdOpen \/ HdClose \/ HdCrash

HdSpec == HdInit /\ [][HdNext]_hdVars

(***************************************************************************)
(* Properties.                                                             *)
(***************************************************************************)

HdFiles == HdConfigs \cup {HdNone}

DaemonTypeOK ==
  /\ hdTable \in HdConfigs /\ hdWindow \in {"down", "deferred", "started"}
  /\ hdStep \in {"rest", "begun", "page", "start", "starting", "spawn", "staged", "rename empty", "rename", "reload", "verify",
                 "restore"}
  /\ hdPage \in HdConfigs /\ hdCandidate \in HdFiles /\ hdFile \in HdFiles /\ hdGood \in HdFiles /\ hdSkipped \in BOOLEAN
  /\ hdDaemons \in Seq([state : {"live", "zombie", "gone"}, serves : HdConfigs, signal : BOOLEAN])
  /\ hdAnswer \in HdConfigs \cup {"none", "failed"}
  /\ hdEdits \in 0..HdMaxEdits /\ hdFaults \in 0..HdMaxFaults

\* Where the backend has answered a projection as done, the keys are the ones
\* it projected: of all daemons, also those that a crashed window has left,
\* only this window's lives; if it still does, it serves them or has been told
\* to read the file that holds them.
DoneIsServed ==
  hdStep = "rest" /\ hdAnswer \in HdConfigs /\ hdWindow = "started" =>
    /\ hdFile = hdAnswer
    /\ \A d \in DOMAIN hdDaemons :
         IsLive(d) => d = Daemon /\ (hdDaemons[d].signal \/ hdDaemons[d].serves = hdAnswer)
================================================================================
