----------------------------- MODULE EngineProofs -----------------------------
(***************************************************************************)
(* The engine processes, the settings they share with the window, and what *)
(* the window asks of them.                                                *)
(***************************************************************************)
EXTENDS EngineLifecycle, EngineSettings, EngineCalls, FiniteSetTheorems,
        SequenceTheorems, TLAPS

-----------------------------------------------------------------------------
(***************************************************************************)
(* EngineLifecycle.                                                        *)
(*                                                                         *)
(* Types of the engine processes, and the socket of an engine that serves, *)
(* for any number of processes.                                            *)
(***************************************************************************)

\* A step of one process keeps the types of elStep and what is kept with it.
LEMMA GoesType ==
  ASSUME EngineTypeOK, NEW e \in ElEngines, NEW from \in ElSteps, NEW to \in ElSteps,
         Goes(e, from, to)
  PROVE  /\ elStep' \in [ElEngines -> ElSteps]
         /\ elVersion' \in [ElEngines -> ElVersions]
BY DEF Goes, EngineTypeOK

\* An engine that goes on running leaves the type as it is if it changes
\* nothing but the path.
LEMMA GoesOn ==
  ASSUME EngineTypeOK, NEW e \in ElEngines, NEW from \in ElSteps, NEW to \in ElSteps \ {"off"},
         Goes(e, from, to), elPath' \in ElEngines \cup {ElNobody},
         UNCHANGED <<elManaged, elWanted, elEarly>>
  PROVE  EngineTypeOK'
<1>1. elManaged # ElNobody => elStep'[elManaged] # "off"
  BY DEF Goes, EngineTypeOK
<1> QED BY <1>1, GoesType DEF EngineTypeOK

\* A process that exits is no longer the service's.
LEMMA ExitsType ==
  ASSUME EngineTypeOK, NEW e \in ElEngines, NEW from \in ElSteps, NEW restarted \in BOOLEAN,
         Exits(e, from, restarted), elPath' \in ElEngines \cup {ElNobody}
  PROVE  EngineTypeOK'
<1>1. elStep' \in [ElEngines -> ElSteps] /\ elVersion' \in [ElEngines -> ElVersions]
  BY GoesType DEF Exits, ElSteps
<1>2. elManaged' # ElNobody => elStep'[elManaged'] # "off"
  BY DEF Exits, Goes, EngineTypeOK
<1>3. elEarly' \in [ElEngines -> SUBSET ElEngines]
  BY DEF Exits, EngineTypeOK
<1> QED BY <1>1, <1>2, <1>3 DEF Exits, EngineTypeOK

\* systemd kills the service's process: so when it is stopped or restarted.
LEMMA KilledType ==
  ASSUME EngineTypeOK,
         elStep' = [e \in ElEngines |-> IF e = elManaged THEN "off" ELSE elStep[e]],
         elEarly' = [e \in ElEngines |-> IF e = elManaged THEN {} ELSE elEarly[e] \ {elManaged}],
         elManaged' = ElNobody, elWanted' \in BOOLEAN, UNCHANGED <<elPath, elVersion>>
  PROVE  EngineTypeOK'
BY DEF EngineTypeOK, ElSteps

\* What the steps of the window do to the processes: nothing, or the service's
\* process is killed, or the engine at the path is told to stop.
Untouched == UNCHANGED <<elStep, elPath, elManaged, elEarly>>
ServiceKilled ==
  /\ elStep' = [e \in ElEngines |-> IF e = elManaged THEN "off" ELSE elStep[e]]
  /\ elEarly' = [e \in ElEngines |-> IF e = elManaged THEN {} ELSE elEarly[e] \ {elManaged}]
  /\ elManaged' = ElNobody /\ UNCHANGED elPath
ToldToStop ==
  /\ Serving(elPath)
  /\ elStep' = [elStep EXCEPT ![elPath] = "closing"]
  /\ UNCHANGED <<elPath, elManaged, elEarly>>

WindowNext ==
  \/ Open \/ StartPersistent \/ Connect \/ StopIncompatible \/ Wait
  \/ StartService \/ RestartService \/ StopService \/ StopEngine \/ PlayAlone \/ CloseWindow

LEMMA WindowSteps ==
  ASSUME EngineTypeOK, WindowNext
  PROVE  /\ elVersion' = elVersion /\ elWanted' \in BOOLEAN
         /\ Untouched \/ ServiceKilled \/ ToldToStop
<1>1. elWanted \in BOOLEAN
  BY DEF EngineTypeOK
<1>2. CASE Open \/ Connect \/ Wait \/ PlayAlone \/ CloseWindow
  BY <1>1, <1>2 DEF Open, Connect, Wait, PlayAlone, CloseWindow, WindowGoes, ServiceUnchanged, Untouched
<1>3. CASE StartPersistent \/ StartService
  BY <1>1, <1>3 DEF StartPersistent, StartService, WindowGoes, ServiceWanted, ServiceUnchanged, Untouched
<1>4. CASE StopIncompatible \/ StopEngine
  BY <1>1, <1>4 DEF StopIncompatible, StopEngine, StopRequest, WindowGoes, ServiceUnchanged, Untouched, ToldToStop
<1>5. CASE StopService
  BY <1>1, <1>5 DEF StopService, ServiceStopped, WindowGoes, Untouched, ServiceKilled
<1>6. CASE RestartService
  BY <1>1, <1>6 DEF RestartService, WindowGoes, ServiceKilled
<1> QED BY <1>2, <1>3, <1>4, <1>5, <1>6 DEF WindowNext

LEMMA WindowType ==
  ASSUME EngineTypeOK, WindowNext
  PROVE  EngineTypeOK'
<1>1. CASE Untouched
  BY <1>1, WindowSteps DEF Untouched, EngineTypeOK
<1>2. CASE ServiceKilled
  BY <1>2, WindowSteps, KilledType DEF ServiceKilled
<1>3. CASE ToldToStop
  <2>1. elPath \in ElEngines
    BY <1>3 DEF ToldToStop, Serving, EngineTypeOK
  <2>2. elStep' \in [ElEngines -> ElSteps] /\ (elManaged # ElNobody => elStep'[elManaged] # "off")
    BY <1>3, <2>1 DEF ToldToStop, EngineTypeOK, ElSteps
  <2> QED BY <1>3, <2>2, WindowSteps DEF ToldToStop, EngineTypeOK
<1> QED BY <1>1, <1>2, <1>3, WindowSteps

\* A started process runs; the service's is one that runs.
LEMMA StartType ==
  ASSUME EngineTypeOK, NEW e \in ElEngines, ServiceStarts(e) \/ OthersStart(e)
  PROVE  EngineTypeOK'
<1>1. elStep' \in [ElEngines -> ElSteps] /\ elVersion' \in [ElEngines -> ElVersions]
  BY DEF ServiceStarts, OthersStart, StartProcess, EngineTypeOK, ElSteps
<1>2. elManaged' \in ElEngines \cup {ElNobody} /\ (elManaged' # ElNobody => elStep'[elManaged'] # "off")
  BY DEF ServiceStarts, OthersStart, StartProcess, EngineTypeOK
<1> QED BY <1>1, <1>2 DEF ServiceStarts, OthersStart, StartProcess, EngineTypeOK

\* What can happen in an engine process.
EngineNext(e) ==
  \/ ServiceStarts(e) \/ OthersStart(e) \/ Die(e)
  \/ Test(e) \/ RemoveStale(e) \/ Bind(e) \/ Load(e) \/ Refuse(e) \/ Close(e) \/ Leave(e)

LEMMA EngineType ==
  ASSUME EngineTypeOK, NEW e \in ElEngines, EngineNext(e)
  PROVE  EngineTypeOK'
<1>0. /\ elStep[e] \in ElSteps
      /\ elPath \in ElEngines \cup {ElNobody} /\ ElNobody \in ElEngines \cup {ElNobody}
  BY DEF EngineTypeOK
<1>1. CASE ServiceStarts(e) \/ OthersStart(e)
  BY <1>1, StartType
<1>2. CASE Die(e)
  BY <1>0, <1>2, ExitsType DEF Die
<1>3. CASE Test(e)
  <2>1. CASE Goes(e, "test", "bind") /\ Stays
    BY <1>0, <2>1, GoesOn DEF Stays, ElSteps
  <2>2. CASE Exits(e, "test", FALSE) /\ UNCHANGED elPath
    BY <1>0, <2>2, ExitsType DEF ElSteps
  <2>3. CASE Goes(e, "test", "stale") /\ Stays
    BY <1>0, <2>3, GoesOn DEF Stays, ElSteps
  <2> QED BY <1>3, <2>1, <2>2, <2>3 DEF Test
<1>4. CASE RemoveStale(e)
  <2>1. CASE Exits(e, "stale", TRUE) /\ UNCHANGED elPath
    BY <1>0, <2>1, ExitsType DEF ElSteps
  <2>2. CASE Goes(e, "stale", "bind") /\ elPath' = ElNobody /\ UNCHANGED <<elManaged, elWanted, elEarly>>
    BY <1>0, <2>2, GoesOn DEF ElSteps
  <2> QED BY <1>4, <2>1, <2>2 DEF RemoveStale
<1>5. CASE Bind(e)
  <2>1. CASE Exits(e, "bind", TRUE) /\ UNCHANGED elPath
    BY <1>0, <2>1, ExitsType DEF ElSteps
  <2>2. CASE Goes(e, "bind", "load") /\ elPath' = e /\ UNCHANGED <<elManaged, elWanted, elEarly>>
    BY <1>0, <2>2, GoesOn DEF ElSteps
  <2> QED BY <1>5, <2>1, <2>2 DEF Bind
<1>6. CASE Load(e)
  <2>1. elStep' \in [ElEngines -> ElSteps] /\ (elManaged # ElNobody => elStep'[elManaged] # "off")
    BY <1>6 DEF Load, Goes, EngineTypeOK, ElSteps
  <2>2. elEarly' \in [ElEngines -> SUBSET ElEngines]
    BY <1>6 DEF Load, EngineTypeOK
  <2> QED BY <1>6, <2>1, <2>2 DEF Load, Goes, EngineTypeOK
<1>7. CASE Refuse(e)
  BY <1>0, <1>7, GoesOn DEF Refuse, Stays, ElSteps
<1>8. CASE Close(e)
  BY <1>0, <1>8, GoesOn DEF Close, Stays, ElSteps
<1>9. CASE Leave(e)
  BY <1>0, <1>9, ExitsType DEF Leave, ElSteps
<1> QED BY <1>1, <1>2, <1>3, <1>4, <1>5, <1>6, <1>7, <1>8, <1>9 DEF EngineNext

LEMMA NextCases == ElNext <=> (\E e \in ElEngines : EngineNext(e)) \/ WindowNext
BY DEF ElNext, EngineNext, WindowNext

\* Every variable keeps its type, and the service's main process is one that
\* runs, whichever processes exit or are killed.
THEOREM EngineTypeInvariant == ElSpec => []EngineTypeOK
<1> USE EngineAssumption
<1>1. ElInit => EngineTypeOK
  BY DEF ElInit, EngineTypeOK, ElSteps, ElVersions
<1>2. EngineTypeOK /\ [ElNext]_elVars => EngineTypeOK'
  <2>1. CASE UNCHANGED elVars
    BY <2>1 DEF elVars, EngineTypeOK
  <2> QED BY <2>1, NextCases, EngineType, WindowType
<1> QED BY <1>1, <1>2, PTL DEF ElSpec

(***************************************************************************)
(* The socket.                                                             *)
(***************************************************************************)

\* Beside an engine that serves at the path, a process that has passed its
\* test of the path ran already when that engine began.
LatecomersOnlyTest ==
  \A e \in ElEngines :
    elStep[e] = "serve" /\ elPath = e =>
      \A f \in ElEngines \ {e} : elStep[f] \in {"off", "test"} \/ f \in elEarly[e]

\* A step that leaves the path where it is, lets no process pass its test
\* and keeps the history of those that run keeps the invariant.
LEMMA QuietStep ==
  ASSUME LatecomersOnlyTest,
         \A e \in ElEngines : elStep'[e] = "serve" /\ elPath' = e => elStep[e] = "serve" /\ elPath = e,
         \A f \in ElEngines : elStep[f] \in {"off", "test"} => elStep'[f] \in {"off", "test"},
         \A e, f \in ElEngines : f \in elEarly[e] /\ elStep'[e] # "off" /\ elStep'[f] # "off" => f \in elEarly'[e]
  PROVE  LatecomersOnlyTest'
BY DEF LatecomersOnlyTest

LEMMA WindowKeeps ==
  ASSUME EngineTypeOK, LatecomersOnlyTest, WindowNext
  PROVE  LatecomersOnlyTest'
<1>1. CASE Untouched
  BY <1>1 DEF Untouched, LatecomersOnlyTest
<1>2. CASE ServiceKilled
  BY <1>2, QuietStep DEF ServiceKilled, EngineTypeOK
<1>3. CASE ToldToStop
  BY <1>3, QuietStep DEF ToldToStop, Serving, EngineTypeOK
<1> QED BY <1>1, <1>2, <1>3, WindowSteps

LEMMA EngineKeeps ==
  ASSUME EngineTypeOK, LatecomersOnlyTest, NEW e \in ElEngines, EngineNext(e)
  PROVE  LatecomersOnlyTest'
<1> USE EngineAssumption
<1>1. CASE ServiceStarts(e) \/ OthersStart(e)
  BY <1>1, QuietStep DEF ServiceStarts, OthersStart, StartProcess, EngineTypeOK
<1>2. ASSUME NEW from \in ElSteps, NEW restarted \in BOOLEAN, Exits(e, from, restarted),
             elPath' \in {elPath, ElNobody}
      PROVE  LatecomersOnlyTest'
  BY <1>2, QuietStep DEF Exits, Goes, EngineTypeOK
<1>3. ASSUME NEW from \in ElSteps \ {"off", "test"}, NEW to \in ElSteps \ {"serve"}, Goes(e, from, to),
             UNCHANGED elEarly, elPath' \in {elPath, e, ElNobody}
      PROVE  LatecomersOnlyTest'
  BY <1>3, QuietStep DEF Goes, EngineTypeOK
<1>4. CASE Die(e)
  BY <1>2, <1>4 DEF Die, EngineTypeOK
<1>5. CASE Test(e)
  <2>1. CASE elPath # ElNobody /\ Answered /\ Exits(e, "test", FALSE) /\ UNCHANGED elPath
    BY <1>2, <2>1 DEF ElSteps
  <2>2. CASE (elPath = ElNobody \/ ~Answered) /\ Stays /\ \E to \in {"bind", "stale"} : Goes(e, "test", to)
    <3>1. \A g \in ElEngines : ~(elStep'[g] = "serve" /\ elPath' = g)
      BY <2>2 DEF Stays, Goes, Answered, AnswersPing, Serving, EngineTypeOK
    <3> QED BY <3>1 DEF LatecomersOnlyTest
  <2> QED BY <1>5, <2>1, <2>2 DEF Test
<1>6. CASE RemoveStale(e)
  BY <1>2, <1>3, <1>6 DEF RemoveStale, ElSteps
<1>7. CASE Bind(e)
  BY <1>2, <1>3, <1>7 DEF Bind, ElSteps
<1>8. CASE Load(e)
  BY <1>8 DEF Load, Goes, EngineTypeOK, LatecomersOnlyTest
<1>9. CASE Refuse(e) \/ Close(e)
  BY <1>3, <1>9 DEF Refuse, Close, Stays, ElSteps
<1>10. CASE Leave(e)
  BY <1>2, <1>10 DEF Leave, ElSteps
<1> QED BY <1>1, <1>4, <1>5, <1>6, <1>7, <1>8, <1>9, <1>10 DEF EngineNext

\* The path of a serving engine is changed only by a process that does one of
\* the steps after its test.
LEMMA PathChanges ==
  ASSUME EngineTypeOK, NEW e \in ElEngines, EngineNext(e), NEW g \in ElEngines,
         elStep[g] = "serve", elStep'[g] = "serve", elPath = g, elPath' # g
  PROVE  e # g /\ elStep[e] \notin {"off", "test"} /\ elStep'[e] # elStep[e]
BY EngineAssumption
   DEF EngineNext, ServiceStarts, OthersStart, StartProcess, Die, Test, RemoveStale, Bind, Load,
       Refuse, Close, Leave, Exits, Goes, Stays, EngineTypeOK

\* A serving engine's socket is taken or removed only by a process that ran
\* already when the engine began to serve, however many processes there are.
THEOREM ServingEnginesKeepIt == ElSpec => ServingEnginesKeepTheirSocket
<1> USE EngineAssumption
<1> DEFINE IInv == EngineTypeOK /\ LatecomersOnlyTest
<1>1. ElInit => LatecomersOnlyTest
  BY DEF ElInit, LatecomersOnlyTest
<1>2. IInv /\ [ElNext]_elVars => LatecomersOnlyTest'
  <2>1. CASE UNCHANGED elVars
    BY <2>1 DEF elVars, LatecomersOnlyTest
  <2> QED BY <2>1, NextCases, EngineKeeps, WindowKeeps
<1>3. IInv /\ [ElNext]_elVars =>
        [\A e \in ElEngines :
           /\ elStep[e] = "serve" /\ elStep'[e] = "serve"
           /\ elPath = e /\ elPath' # e
           => \E f \in elEarly[e] : elStep'[f] # elStep[f]]_elVars
  <2> SUFFICES ASSUME IInv, ElNext, NEW g \in ElEngines,
                      elStep[g] = "serve", elStep'[g] = "serve", elPath = g, elPath' # g
               PROVE  \E f \in elEarly[g] : elStep'[f] # elStep[f]
    OBVIOUS
  <2>1. CASE WindowNext
    BY <2>1, WindowSteps DEF Untouched, ServiceKilled, ToldToStop
  <2>2. ASSUME NEW e \in ElEngines, EngineNext(e)
        PROVE  e \in elEarly[g] /\ elStep'[e] # elStep[e]
    BY <2>2, PathChanges DEF LatecomersOnlyTest
  <2> QED BY <2>1, <2>2, NextCases
<1> QED BY <1>1, <1>2, <1>3, EngineTypeInvariant, PTL DEF ElSpec, ServingEnginesKeepTheirSocket

-----------------------------------------------------------------------------
(***************************************************************************)
(* EngineSettings.                                                         *)
(*                                                                         *)
(* Types of the copies of the settings, and their agreement, for any       *)
(* volumes and any number of changes and faults.                           *)
(***************************************************************************)

EsCommands == [on : BOOLEAN, step : {"engine", "memory"}]

(***************************************************************************)
(* The invariant.  Without a command under way the copies agree but for    *)
(* faults; what the agreement rests on is what holds during one.           *)
(***************************************************************************)

\* A closed window has no timer and no command; the timer that waits holds the
\* volume shown.
Waiting ==
  /\ ~esOpen => esTimers = {} /\ esWorker = EsNone /\ esHotkey = EsNone
  /\ esTimers \subseteq {esMemory.volume}

FileAgrees == esTimers = {} /\ "file" \notin esLost => esFile = esMemory

\* A window that has been closed without saving will not show what it held.
Known == esRunning /\ (esOpen \/ "file" \notin esLost)
VolumeAgrees == Known /\ "volume" \notin esLost => esEngine.volume = Heard(esMemory)

\* Between the engine's answer and the change of the memory the engine is ahead.
Ahead(command) == command # EsNone /\ command.step = "memory"
MicAgrees ==
  Known /\ "mic" \notin esLost =>
    /\ Ahead(esWorker) => esEngine.mic = esWorker.on
    /\ Ahead(esHotkey) => esEngine.mic = esHotkey.on
    /\ ~Ahead(esWorker) /\ ~Ahead(esHotkey) => esEngine.mic = esMemory.mic

Agreement == Waiting /\ FileAgrees /\ VolumeAgrees /\ MicAgrees

(***************************************************************************)
(* Types.                                                                  *)
(***************************************************************************)

LEMMA SettingsSteps ==
  ASSUME SettingsTypeOK, EsNext
  PROVE  /\ {esOpen', esRunning'} \subseteq BOOLEAN
         /\ esMemory' \in EsSettings /\ esFile' \in EsSettings
         /\ esTimers' \subseteq EsVolumes
         /\ esLost' \subseteq EngineCopies \cup {"file"}
<1> USE DEF EsSettings, EngineCopies, SettingsTypeOK
<1>1. CASE MoveSlider \/ TimerFires
  BY <1>1 DEF MoveSlider, TimerFires, UserActs, Debounced, TimerReplaced, Saved, NotSaved, NoFault, Fault
<1>2. CASE ToggleMute
  BY <1>2 DEF ToggleMute, UserActs, Saved, NotSaved, NoFault, Fault
<1>3. CASE PressButton \/ PressHotkey
  BY <1>3 DEF PressButton, PressHotkey, UserActs
<1>4. CASE PassthroughStep
  BY <1>4 DEF PassthroughStep, EngineAnswers, Remember, Saved, NotSaved, NoFault, Fault
<1>5. CASE EngineEnds \/ EngineStarts \/ CleanUp \/ KillApplication \/ OpenAgain
  BY <1>5 DEF EngineEnds, EngineStarts, CleanUp, KillApplication, OpenAgain, Saved, NotSaved, NoFault, Fault
<1> QED BY <1>1, <1>2, <1>3, <1>4, <1>5 DEF EsNext

LEMMA EngineSteps ==
  ASSUME SettingsTypeOK, EsNext
  PROVE  esEngine' \in [volume : EsVolumes \cup {0}, mic : BOOLEAN]
<1> USE DEF EsSettings, SettingsTypeOK, EsCommands
<1>1. CASE MoveSlider \/ TimerFires \/ ToggleMute
  BY <1>1 DEF MoveSlider, TimerFires, ToggleMute, UserActs, Told, Heard
<1>2. CASE PassthroughStep
  BY <1>2, SettingsAssumption DEF PassthroughStep, EngineAnswers, Remember
<1>3. CASE EngineStarts
  BY <1>3 DEF EngineStarts, AsEngine, Heard
<1>4. CASE PressButton \/ PressHotkey \/ EngineEnds \/ CleanUp \/ KillApplication \/ OpenAgain
  BY <1>4 DEF PressButton, PressHotkey, EngineEnds, CleanUp, KillApplication, OpenAgain
<1> QED BY <1>1, <1>2, <1>3, <1>4 DEF EsNext

LEMMA CommandSteps ==
  ASSUME SettingsTypeOK, EsNext
  PROVE  esWorker' \in EsCommands \cup {EsNone} /\ esHotkey' \in EsCommands \cup {EsNone}
<1> USE DEF EsSettings, SettingsTypeOK, EsCommands
<1>1. CASE PressButton \/ PressHotkey
  <2>1. (~esMemory.mic) \in BOOLEAN
    OBVIOUS
  <2>2. \A on \in BOOLEAN : [on |-> on, step |-> "engine"] \in EsCommands
    OBVIOUS
  <2>3. esWorker \in EsCommands \cup {EsNone} /\ esHotkey \in EsCommands \cup {EsNone}
    OBVIOUS
  <2>4. CASE PressButton
    BY <2>2, <2>3, <2>4 DEF PressButton
  <2>5. CASE PressHotkey
    BY <2>1, <2>2, <2>3, <2>5 DEF PressHotkey
  <2> QED BY <1>1, <2>4, <2>5
<1>2. CASE PassthroughStep
  BY <1>2 DEF PassthroughStep, EngineAnswers, Remember
<1>3. CASE \/ MoveSlider \/ TimerFires \/ ToggleMute \/ EngineEnds \/ EngineStarts
           \/ CleanUp \/ KillApplication \/ OpenAgain
  BY <1>3 DEF MoveSlider, TimerFires, ToggleMute, EngineEnds, EngineStarts, CleanUp, KillApplication, OpenAgain
<1> QED BY <1>1, <1>2, <1>3 DEF EsNext

\* Every copy of the settings, the timers and the commands under way keep their
\* types; at most the known copies are ever lost.
THEOREM SettingsTypeInvariant == EsSpec => []SettingsTypeOK
<1>1. EsInit => SettingsTypeOK
  BY DEF EsInit, SettingsTypeOK, EsSettings, AsEngine, Heard
<1>2. SettingsTypeOK /\ [EsNext]_esVars => SettingsTypeOK'
  <2>1. CASE UNCHANGED esVars
    BY <2>1 DEF esVars, SettingsTypeOK
  <2>2. ASSUME SettingsTypeOK, EsNext PROVE SettingsTypeOK'
    BY <2>2, SettingsSteps, EngineSteps, CommandSteps DEF SettingsTypeOK, EsCommands
  <2> QED BY <2>1, <2>2
<1> QED BY <1>1, <1>2, PTL DEF EsSpec

(***************************************************************************)
(* Agreement, one lemma per part.                                          *)
(***************************************************************************)

LEMMA WaitingSteps ==
  ASSUME SettingsTypeOK, Waiting, EsNext
  PROVE  Waiting'
<1> USE DEF EsSettings, SettingsTypeOK, Waiting
<1>1. CASE MoveSlider \/ TimerFires \/ ToggleMute
  BY <1>1 DEF MoveSlider, TimerFires, ToggleMute, UserActs, Debounced, TimerReplaced
<1>2. CASE PressButton \/ PressHotkey
  BY <1>2 DEF PressButton, PressHotkey, UserActs
<1>3. CASE PassthroughStep
  BY <1>3 DEF PassthroughStep, EngineAnswers, Remember
<1>4. CASE EngineEnds \/ EngineStarts \/ CleanUp \/ KillApplication \/ OpenAgain
  BY <1>4 DEF EngineEnds, EngineStarts, CleanUp, KillApplication, OpenAgain
<1> QED BY <1>1, <1>2, <1>3, <1>4 DEF EsNext

LEMMA FileSteps ==
  ASSUME SettingsTypeOK, Waiting, FileAgrees, EsNext
  PROVE  FileAgrees'
<1> USE DEF EsSettings, SettingsTypeOK, FileAgrees, Saved, NotSaved
<1>1. CASE MoveSlider \/ TimerFires
  BY <1>1 DEF MoveSlider, TimerFires, Debounced, TimerReplaced
<1>2. CASE ToggleMute
  BY <1>2 DEF ToggleMute
<1>3. CASE PressButton \/ PressHotkey \/ EngineEnds
  BY <1>3 DEF PressButton, PressHotkey, EngineEnds
<1>4. CASE PassthroughStep
  BY <1>4 DEF PassthroughStep, EngineAnswers, Remember
<1>5. CASE EngineStarts
  BY <1>5 DEF EngineStarts, EngineCopies
<1>6. CASE CleanUp \/ KillApplication \/ OpenAgain
  BY <1>6 DEF CleanUp, KillApplication, OpenAgain, EngineCopies
<1> QED BY <1>1, <1>2, <1>3, <1>4, <1>5, <1>6 DEF EsNext

LEMMA VolumeSteps ==
  ASSUME SettingsTypeOK, Waiting, FileAgrees, VolumeAgrees, EsNext
  PROVE  VolumeAgrees'
<1> USE DEF EsSettings, SettingsTypeOK, VolumeAgrees, Known, Heard
<1>1. CASE MoveSlider
  BY <1>1 DEF MoveSlider, UserActs, Told
<1>2. CASE TimerFires
  <2>1. esMemory' = esMemory
    BY <1>2 DEF TimerFires, Waiting
  <2> QED BY <1>2, <2>1 DEF TimerFires, Saved, NotSaved
<1>3. CASE ToggleMute
  BY <1>3 DEF ToggleMute, UserActs, Saved, NotSaved, Told
<1>4. CASE PressButton \/ PressHotkey \/ EngineEnds
  BY <1>4 DEF PressButton, PressHotkey, UserActs, EngineEnds
<1>5. CASE PassthroughStep
  <2>1. esOpen
    BY <1>5 DEF PassthroughStep, Waiting
  <2>2. /\ esMemory'.volume = esMemory.volume /\ esMemory'.mute = esMemory.mute
        /\ esEngine'.volume = esEngine.volume
        /\ esOpen' = esOpen /\ esRunning' = esRunning
        /\ "volume" \in esLost => "volume" \in esLost'
    BY <1>5 DEF PassthroughStep, EngineAnswers, Remember, Saved, NotSaved
  <2> QED BY <2>1, <2>2
<1>6. CASE EngineStarts
  BY <1>6 DEF EngineStarts, AsEngine, EngineCopies, FileAgrees, Waiting
<1>7. CASE CleanUp \/ KillApplication
  BY <1>7 DEF CleanUp, KillApplication, Saved, NotSaved
<1>8. CASE OpenAgain
  BY <1>8 DEF OpenAgain, EngineCopies, FileAgrees, Waiting
<1> QED BY <1>1, <1>2, <1>3, <1>4, <1>5, <1>6, <1>7, <1>8 DEF EsNext

\* The two steps of a command beside another one.
LEMMA PassthroughKeepsMic ==
  ASSUME SettingsTypeOK, Waiting, MicAgrees, PassthroughStep
  PROVE  MicAgrees'
<1> USE SettingsAssumption DEF EsSettings, SettingsTypeOK, MicAgrees, Known, Ahead
<1>0. esOpen /\ esOpen' /\ esRunning' = esRunning
  BY DEF PassthroughStep, Waiting
<1>1. CASE esWorker # EsNone /\ esWorker.step = "engine" /\ EngineAnswers(esWorker, esHotkey)
           /\ UNCHANGED <<esMemory, esFile, esHotkey>>
  BY <1>0, <1>1 DEF EngineAnswers
<1>2. CASE esHotkey # EsNone /\ esHotkey.step = "engine" /\ EngineAnswers(esHotkey, esWorker)
           /\ UNCHANGED <<esMemory, esFile, esWorker>>
  BY <1>0, <1>2 DEF EngineAnswers
<1>3. CASE esWorker # EsNone /\ esWorker.step = "memory" /\ Remember(esWorker)
           /\ UNCHANGED <<esEngine, esHotkey>>
  BY <1>0, <1>3 DEF Remember, Saved, NotSaved
<1>4. CASE esHotkey # EsNone /\ esHotkey.step = "memory" /\ Remember(esHotkey)
           /\ UNCHANGED <<esEngine, esWorker>>
  BY <1>0, <1>4 DEF Remember, Saved, NotSaved
<1> QED BY <1>1, <1>2, <1>3, <1>4 DEF PassthroughStep

LEMMA MicSteps ==
  ASSUME SettingsTypeOK, Waiting, FileAgrees, MicAgrees, EsNext
  PROVE  MicAgrees'
<1> USE SettingsAssumption DEF EsSettings, SettingsTypeOK, MicAgrees, Known, Ahead
<1>1. CASE MoveSlider
  BY <1>1 DEF MoveSlider, UserActs, Told
<1>2. CASE TimerFires
  BY <1>2 DEF TimerFires, Saved, NotSaved
<1>3. CASE ToggleMute
  BY <1>3 DEF ToggleMute, UserActs, Saved, NotSaved, Told
<1>4. CASE PressButton
  <2>1. esWorker = EsNone /\ esWorker'.step = "engine"
    BY <1>4 DEF PressButton
  <2> QED BY <1>4, <2>1 DEF PressButton, UserActs
<1>5. CASE PressHotkey
  <2>1. esHotkey = EsNone /\ esHotkey'.step = "engine"
    BY <1>5 DEF PressHotkey, UserActs
  <2> QED BY <1>5, <2>1 DEF PressHotkey, UserActs
<1>9. CASE EngineEnds
  BY <1>9 DEF EngineEnds
<1>10. CASE PassthroughStep
  BY <1>10, PassthroughKeepsMic
<1>6. CASE EngineStarts
  BY <1>6 DEF EngineStarts, AsEngine, EngineCopies, FileAgrees, Waiting
<1>7. CASE CleanUp \/ KillApplication
  BY <1>7 DEF CleanUp, KillApplication, Saved, NotSaved, Waiting
<1>8. CASE OpenAgain
  BY <1>8 DEF OpenAgain, EngineCopies, FileAgrees, Waiting
<1> QED BY <1>1, <1>2, <1>3, <1>4, <1>5, <1>6, <1>7, <1>8, <1>9, <1>10 DEF EsNext

\* Whatever is changed, lost or started again, and in whatever order: at rest
\* the engine plays what the window shows and the file holds it, but for copies
\* that a fault has touched since they were last written.
THEOREM CopiesAlwaysAgree == EsSpec => []CopiesAgree
<1> DEFINE IInv == SettingsTypeOK /\ Agreement
<1>1. EsInit => Agreement
  <2> SUFFICES ASSUME EsInit PROVE Agreement
    OBVIOUS
  <2> USE DEF EsInit, AsEngine
  <2>1. Waiting /\ FileAgrees
    BY DEF Waiting, FileAgrees
  <2>2. VolumeAgrees
    BY DEF VolumeAgrees, Heard
  <2>3. MicAgrees
    BY DEF MicAgrees, Ahead
  <2> QED BY <2>1, <2>2, <2>3 DEF Agreement
<1>2. IInv /\ [EsNext]_esVars => Agreement'
  <2>1. CASE UNCHANGED esVars
    BY <2>1 DEF esVars, Agreement, Waiting, FileAgrees, VolumeAgrees, MicAgrees, Known, Ahead, Heard
  <2>2. ASSUME IInv, EsNext PROVE Agreement'
    BY <2>2, WaitingSteps, FileSteps, VolumeSteps, MicSteps DEF Agreement
  <2> QED BY <2>1, <2>2
<1>3. IInv => CopiesAgree
  BY DEF Agreement, FileAgrees, VolumeAgrees, MicAgrees, Known, Ahead, CopiesAgree
<1> QED BY <1>1, <1>2, <1>3, SettingsTypeInvariant, PTL DEF EsSpec

-----------------------------------------------------------------------------
(***************************************************************************)
(* What the window asks of the engine.                                     *)
(***************************************************************************)

CallPlaces == {"sent", "accepted", "replacing", "awaits", "answered", "over"}
Tellings == {"nothing", "ok", "failed", "abandoned"}
CallRecs == [caller : EcCallers \cup {EcPoller}, kind : EcKinds \cup {"snapshot"}, at : CallPlaces,
             told : Tellings, answer : {"none", "ok", "failed"}, version : Nat]

\* Where a request is, what it can have been told and what its snapshot shows.
PlaceOf(c, published) ==
  /\ (c.caller = EcPoller) <=> (c.kind = "snapshot")
  /\ c.at \in {"sent", "accepted", "replacing"} => c.answer = "none"
  /\ c.at \notin {"answered", "over"} => c.told \in {"nothing", "abandoned"}
  /\ c.at = "awaits" => c.kind \in Confirmed \cup {"replace"}
  /\ c.at = "replacing" => c.kind = "replace"
  /\ c.at = "answered" => c.told = "nothing" /\ c.answer # "none"
  /\ c.at = "over" => c.told # "nothing"
  /\ c.kind # "snapshot" => c.version = 0
  /\ c.version <= published

\* The command channel is taken together with what the loop has handled, as one
\* row whose first places are ecLanded. A request is in it as often as it was sent.
Never(i, row) == \A n \in 1..Len(row) : row[n] # i
Once(i, row) == \A m, n \in 1..Len(row) : row[m] = i /\ row[n] = i => m = n
NotThrice(i, row) == \A l, m, n \in 1..Len(row) : l < m /\ m < n => ~(row[l] = i /\ row[m] = i /\ row[n] = i)
Has(i, row, last) == \E n \in 1..last : row[n] = i
HasTwice(i, row, last) == \E m, n \in 1..last : m < n /\ row[m] = i /\ row[n] = i

SentAsAsked(i, c, row, loop) ==
  /\ c.at \in {"sent", "accepted"} \/ c.kind = "snapshot" => Never(i, row)
  /\ c.at = "replacing" \/ c.kind # "replace" => Once(i, row)
  /\ NotThrice(i, row)
  /\ loop # "gone" /\ (c.at = "replacing" \/ (c.at = "awaits" /\ c.kind \in Confirmed)) => Has(i, row, Len(row))
  /\ loop # "gone" /\ c.at = "awaits" /\ c.kind = "replace" => HasTwice(i, row, Len(row))

\* An answer is given when what it is about has been done.
AnsweredTruly(i, c, row, landed, loop) ==
  c.told = "ok" \/ c.answer = "ok" =>
    /\ c.kind \in Posted => loop = "gone" \/ Has(i, row, Len(row))
    /\ c.kind \in Confirmed => Has(i, row, landed)
    /\ c.kind = "replace" => HasTwice(i, row, landed)

\* A thread of the window has one request at a time, its requests keep their
\* order in the row, and its last snapshot is the newest.
TurnsAreKept(calls, row) ==
  /\ \A i, j \in 1..Len(calls) :
       i < j /\ calls[i].caller = calls[j].caller => calls[i].told # "nothing"
  /\ \A m, n \in 1..Len(row) :
       m < n /\ row[n] # 0 /\ row[n] < row[m] /\ calls[row[m]].caller = calls[row[n]].caller
         => calls[row[n]].told = "abandoned"
  /\ \A i, j \in 1..Len(calls) :
       calls[i].at = "answered" /\ calls[i].caller = calls[j].caller
         => calls[j].version <= calls[i].version \/ calls[j].told = "abandoned"

RowTypes(calls, row, landed, loop, published) ==
  /\ calls \in Seq(CallRecs) /\ row \in Seq(Nat) /\ landed \in 0..Len(row) /\ published \in 0..landed
  /\ \A n \in 1..Len(row) : row[n] <= Len(calls)
  /\ \A n \in 1..landed : row[n] # 0
  /\ loop = "gone" => landed = Len(row)

CallFits(i, c, row, landed, loop, published) ==
  PlaceOf(c, published) /\ SentAsAsked(i, c, row, loop) /\ AnsweredTruly(i, c, row, landed, loop)

\* All of this, but for the request that a step is about.
SoundBut(x, calls, row, landed, loop, published) ==
  /\ RowTypes(calls, row, landed, loop, published)
  /\ TurnsAreKept(calls, row)
  /\ \A i \in 1..Len(calls) : i # x => CallFits(i, calls[i], row, landed, loop, published)
Sound(calls, row, landed, loop, published) ==
  /\ RowTypes(calls, row, landed, loop, published)
  /\ TurnsAreKept(calls, row)
  /\ \A i \in 1..Len(calls) : CallFits(i, calls[i], row, landed, loop, published)

CallsInv ==
  /\ ecLanded \in Seq(Nat) /\ ecQueue \in Seq(Nat)
  /\ Sound(ecCalls, ecLanded \o ecQueue, Len(ecLanded), ecLoop, ecPublished)

LEMMA CallInRow ==
  ASSUME NEW calls \in Seq(CallRecs), NEW i \in 1..Len(calls), NEW new \in CallRecs
  PROVE /\ [calls EXCEPT ![i] = new] \in Seq(CallRecs)
        /\ Len([calls EXCEPT ![i] = new]) = Len(calls)
        /\ [calls EXCEPT ![i] = new][i] = new
        /\ \A j \in 1..Len(calls) : j # i => [calls EXCEPT ![i] = new][j] = calls[j]
OBVIOUS

\* What the places and the requests are numbered with.
Numbered(calls, row, landed, published) ==
  /\ Len(calls) \in Nat /\ Len(row) \in Nat /\ landed \in Nat /\ published \in Nat
  /\ landed <= Len(row) /\ published <= landed
  /\ \A n \in 1..Len(row) : row[n] \in Nat /\ row[n] <= Len(calls) /\ n \in Nat
  /\ \A n \in 1..Len(row) : row[n] # 0 => row[n] \in 1..Len(calls)
  /\ \A n \in 1..landed : n \in 1..Len(row)
  /\ \A i \in 1..Len(calls) : i \in Nat /\ calls[i] \in CallRecs /\ calls[i].version \in Nat

LEMMA RowFacts ==
  ASSUME NEW calls, NEW row, NEW landed, NEW loop, NEW published,
         RowTypes(calls, row, landed, loop, published)
  PROVE Numbered(calls, row, landed, published)
<1>1. calls \in Seq(CallRecs) /\ row \in Seq(Nat) /\ landed \in 0..Len(row) /\ published \in 0..landed
  BY DEF RowTypes
<1>2. Len(calls) \in Nat /\ Len(row) \in Nat
  BY <1>1
<1>3. landed \in Nat /\ published \in Nat /\ landed <= Len(row) /\ published <= landed
  BY <1>1, <1>2
<1>4. \A n \in 1..Len(row) : row[n] \in Nat /\ row[n] <= Len(calls) /\ n \in Nat
  BY <1>1, <1>2 DEF RowTypes
<1>5. \A i \in 1..Len(calls) : i \in Nat /\ calls[i] \in CallRecs
  BY <1>1, <1>2
<1>6. \A c \in CallRecs : c.version \in Nat
  BY DEF CallRecs
<1>7. \A n \in 1..landed : n \in 1..Len(row)
  BY <1>2, <1>3
<1>8. \A n \in 1..Len(row) : row[n] # 0 => row[n] \in 1..Len(calls)
  BY <1>2, <1>4
<1> QED BY <1>2, <1>3, <1>4, <1>5, <1>6, <1>7, <1>8 DEF Numbered

\* A request gets on.
LEMMA OneGetsOn ==
  ASSUME NEW calls, NEW row, NEW landed, NEW loop, NEW published, NEW i \in 1..Len(calls), NEW new \in CallRecs,
         SoundBut(i, calls, row, landed, loop, published),
         CallFits(i, new, row, landed, loop, published),
         new.caller = calls[i].caller,
         new.told = calls[i].told \/ calls[i].told = "nothing",
         new.version = calls[i].version \/ calls[i].told \in {"nothing", "abandoned"},
         \/ new.at # "answered"
         \/ calls[i].at = "answered" /\ new.version = calls[i].version
         \/ \A j \in 1..Len(calls) : calls[j].caller = calls[i].caller => calls[j].version <= new.version
  PROVE Sound([calls EXCEPT ![i] = new], row, landed, loop, published)
<1>0. calls \in Seq(CallRecs) /\ Numbered(calls, row, landed, published)
  BY RowFacts DEF SoundBut, RowTypes
<1> DEFINE after == [calls EXCEPT ![i] = new]
<1>1. /\ after \in Seq(CallRecs) /\ Len(after) = Len(calls) /\ after[i] = new
      /\ \A j \in 1..Len(calls) : j # i => after[j] = calls[j]
  BY <1>0, CallInRow DEF SoundBut, RowTypes, Numbered
<1> HIDE DEF after
<1>2. RowTypes(after, row, landed, loop, published)
  BY <1>0, <1>1 DEF SoundBut, RowTypes, Numbered
<1>3. \A j \in 1..Len(calls) : CallFits(j, after[j], row, landed, loop, published)
  BY <1>0, <1>1 DEF SoundBut, Numbered
<1>4. \A j, k \in 1..Len(calls) : j < k /\ after[j].caller = after[k].caller => after[j].told # "nothing"
  BY <1>0, <1>1 DEF SoundBut, TurnsAreKept, Numbered
<1>5. ASSUME NEW m \in 1..Len(row), NEW n \in 1..Len(row), m < n, row[n] # 0, row[n] < row[m],
             after[row[m]].caller = after[row[n]].caller
      PROVE after[row[n]].told = "abandoned"
  <2>1. row[m] \in 1..Len(calls) /\ row[n] \in 1..Len(calls)
    BY <1>0, <1>5 DEF SoundBut, RowTypes, Numbered
  <2>2. calls[row[m]].caller = calls[row[n]].caller
    BY <1>0, <1>1, <1>5, <2>1 DEF Numbered
  <2>3. calls[row[n]].told = "abandoned"
    BY <1>0, <1>5, <2>2 DEF SoundBut, TurnsAreKept, Numbered
  <2> QED BY <1>0, <1>1, <2>1, <2>3 DEF Numbered
<1>6. ASSUME NEW j \in 1..Len(calls), NEW k \in 1..Len(calls),
             after[j].at = "answered", after[j].caller = after[k].caller
      PROVE after[k].version <= after[j].version \/ after[k].told = "abandoned"
  <2>1. calls[j].caller = calls[k].caller
    BY <1>0, <1>1, <1>6 DEF Numbered
  <2>2. \A l \in 1..Len(calls) : calls[l] \in CallRecs /\ calls[l].version \in Nat
    BY <1>0 DEF SoundBut, RowTypes, CallRecs, Numbered
  <2>3. new.version \in Nat
    BY <1>0 DEF CallRecs, Numbered
  <2>4. CASE j # i /\ k # i
    BY <1>0, <1>1, <1>6, <2>1, <2>4 DEF SoundBut, TurnsAreKept, Numbered
  <2>5. CASE j = i /\ k = i
    BY <1>0, <1>1, <2>3, <2>5 DEF Numbered
  <2>6. CASE j = i /\ k # i
    <3>1. CASE \A l \in 1..Len(calls) : calls[l].caller = calls[i].caller => calls[l].version <= new.version
      BY <1>0, <1>1, <2>1, <2>6, <3>1 DEF Numbered
    <3>2. CASE calls[i].at = "answered" /\ new.version = calls[i].version
      BY <1>0, <1>1, <2>1, <2>6, <3>2 DEF SoundBut, TurnsAreKept, Numbered
    <3> QED BY <1>0, <1>1, <1>6, <2>6, <3>1, <3>2 DEF Numbered
  <2>7. CASE j # i /\ k = i
    <3>1. calls[j].at = "answered"
      BY <1>0, <1>1, <1>6, <2>7 DEF Numbered
    <3>2. calls[j].told = "nothing"
      BY <1>0, <2>7, <3>1 DEF SoundBut, CallFits, PlaceOf, Numbered
    <3>3. calls[i].version <= calls[j].version \/ calls[i].told = "abandoned"
      BY <1>0, <2>1, <2>7, <3>1 DEF SoundBut, TurnsAreKept, Numbered
    <3>4. calls[i].told # "nothing"
      <4>1. i < j \/ j < i
        BY <1>0, <2>7 DEF Numbered
      <4> QED BY <1>0, <2>1, <2>7, <3>2, <4>1 DEF SoundBut, TurnsAreKept, Numbered
    <3> QED BY <1>0, <1>1, <2>7, <3>3, <3>4 DEF Numbered
  <2> QED BY <1>0, <2>4, <2>5, <2>6, <2>7 DEF Numbered
<1>7. TurnsAreKept(after, row)
  BY <1>0, <1>1, <1>4, <1>5, <1>6 DEF TurnsAreKept, Numbered
<1> QED BY <1>0, <1>1, <1>2, <1>3, <1>7 DEF Sound, after, Numbered

\* A request is sent to the loop.
LEMMA OneIsSent ==
  ASSUME NEW calls, NEW row, NEW landed, NEW loop, NEW published, NEW i \in 0..Len(calls),
         SoundBut(i, calls, row, landed, loop, published), loop # "gone",
         i # 0 => calls[i].told \in {"nothing", "abandoned"}
  PROVE SoundBut(i, calls, Append(row, i), landed, loop, published)
<1>0. calls \in Seq(CallRecs) /\ Numbered(calls, row, landed, published)
  BY RowFacts DEF SoundBut, RowTypes
<1> DEFINE after == Append(row, i)
<1>1. /\ after \in Seq(Nat) /\ Len(after) = Len(row) + 1 /\ after[Len(row) + 1] = i
      /\ \A n \in 1..Len(row) : after[n] = row[n]
      /\ Len(row) \in Nat /\ Len(calls) \in Nat
  BY <1>0 DEF SoundBut, RowTypes, Numbered
<1> HIDE DEF after
<1>2. RowTypes(calls, after, landed, loop, published)
  <2>1. landed \in 0..Len(after) /\ published \in 0..landed
    BY <1>0, <1>1 DEF Numbered
  <2>2. \A n \in 1..Len(after) : after[n] <= Len(calls)
    <3> SUFFICES ASSUME NEW n \in 1..Len(after) PROVE after[n] <= Len(calls)
      OBVIOUS
    <3>1. n \in 1..Len(row) \/ n = Len(row) + 1
      BY <1>0, <1>1 DEF Numbered
    <3>2. i <= Len(calls)
      BY <1>0 DEF Numbered
    <3> QED BY <1>0, <1>1, <3>1, <3>2 DEF Numbered
  <2>3. \A n \in 1..landed : after[n] # 0
    BY <1>0, <1>1 DEF SoundBut, RowTypes, Numbered
  <2> QED BY <1>0, <1>1, <2>1, <2>2, <2>3 DEF RowTypes
<1>3. ASSUME NEW j \in 1..Len(calls), j # i
      PROVE CallFits(j, calls[j], after, landed, loop, published)
  <2>1. CallFits(j, calls[j], row, landed, loop, published)
    BY <1>0, <1>3 DEF SoundBut, Numbered
  <2>2. \A n \in 1..Len(after) : after[n] = j => n \in 1..Len(row) /\ row[n] = j
    BY <1>0, <1>1, <1>3 DEF Numbered
  <2>3. \A n \in 1..Len(row) : n \in 1..Len(after) /\ (row[n] = j => after[n] = j)
    BY <1>0, <1>1 DEF Numbered
  <2>4. SentAsAsked(j, calls[j], after, loop)
    BY <1>0, <2>1, <2>2, <2>3 DEF CallFits, SentAsAsked, Never, Once, NotThrice, Has, HasTwice, Numbered
  <2>5. \A n \in 1..landed : n \in 1..Len(row)
    BY <1>0 DEF SoundBut, RowTypes, Numbered
  <2>6. AnsweredTruly(j, calls[j], after, landed, loop)
    BY <1>0, <2>1, <2>3, <2>5 DEF CallFits, AnsweredTruly, Never, Once, NotThrice, Has, HasTwice, Numbered
  <2> QED BY <1>0, <2>1, <2>4, <2>6 DEF CallFits, Numbered
<1>4. ASSUME NEW m \in 1..Len(after), NEW n \in 1..Len(after), m < n, after[n] # 0, after[n] < after[m],
             calls[after[m]].caller = calls[after[n]].caller
      PROVE calls[after[n]].told = "abandoned"
  <2>1. m \in 1..Len(row) /\ after[m] = row[m]
    BY <1>0, <1>1, <1>4 DEF Numbered
  <2>2. CASE n \in 1..Len(row)
    BY <1>0, <1>1, <1>4, <2>1, <2>2 DEF SoundBut, TurnsAreKept, Numbered
  <2>3. CASE n = Len(row) + 1
    <3>1. row[m] \in 1..Len(calls) /\ i \in 1..Len(calls) /\ i < row[m]
      BY <1>0, <1>1, <1>4, <2>1, <2>3 DEF SoundBut, RowTypes, Numbered
    <3>2. calls[i].told # "nothing"
      BY <1>0, <1>1, <1>4, <2>1, <2>3, <3>1 DEF SoundBut, TurnsAreKept, Numbered
    <3> QED BY <1>0, <1>1, <2>3, <3>1, <3>2 DEF Numbered
  <2> QED BY <1>0, <1>1, <2>2, <2>3 DEF Numbered
<1>5. TurnsAreKept(calls, after)
  BY <1>0, <1>4 DEF SoundBut, TurnsAreKept, Numbered
<1> QED BY <1>0, <1>2, <1>3, <1>5 DEF SoundBut, after, Numbered

\* The loop ends: what it has not handled is lost.
LEMMA LoopIsGone ==
  ASSUME NEW calls, NEW row, NEW landed, NEW loop, NEW published, NEW after \in Seq(Nat),
         Sound(calls, row, landed, loop, published),
         Len(after) = landed, \A n \in 1..landed : after[n] = row[n]
  PROVE Sound(calls, after, landed, "gone", published)
<1>0. calls \in Seq(CallRecs) /\ Numbered(calls, row, landed, published)
  BY RowFacts DEF Sound, RowTypes
<1>1. \A n \in 1..landed : n \in 1..Len(row)
  BY <1>0 DEF Sound, RowTypes, Numbered
<1>2. RowTypes(calls, after, landed, "gone", published)
  <2>1. landed \in 0..Len(after) /\ published \in 0..landed
    BY <1>0 DEF Numbered
  <2>2. \A n \in 1..landed : after[n] # 0 /\ after[n] <= Len(calls)
    BY <1>0, <1>1 DEF Sound, RowTypes
  <2> QED BY <1>0, <2>1, <2>2 DEF RowTypes
<1>3. ASSUME NEW j \in 1..Len(calls) PROVE CallFits(j, calls[j], after, landed, "gone", published)
  <2>1. CallFits(j, calls[j], row, landed, loop, published)
    BY DEF Sound
  <2>2. SentAsAsked(j, calls[j], after, "gone")
    BY <1>1, <2>1 DEF CallFits, SentAsAsked, Never, Once, NotThrice, Has, HasTwice
  <2>3. AnsweredTruly(j, calls[j], after, landed, "gone")
    BY <2>1 DEF CallFits, AnsweredTruly, Never, Once, NotThrice, Has, HasTwice
  <2> QED BY <2>1, <2>2, <2>3 DEF CallFits
<1>4. TurnsAreKept(calls, after)
  BY <1>0, <1>1 DEF Sound, TurnsAreKept, Numbered
<1> QED BY <1>0, <1>2, <1>3, <1>4 DEF Sound, Numbered

\* The loop handles one more, or publishes.
LEMMA LoopGetsOn ==
  ASSUME NEW calls, NEW row, NEW landed, NEW loop, NEW published, NEW landedThen, NEW then, NEW publishedThen,
         Sound(calls, row, landed, loop, published), loop # "gone", then # "gone",
         landedThen = landed \/ (landedThen = landed + 1 /\ landedThen \in 1..Len(row) /\ row[landedThen] # 0),
         publishedThen = published \/ publishedThen = landed
  PROVE Sound(calls, row, landedThen, then, publishedThen)
<1>0. calls \in Seq(CallRecs) /\ Numbered(calls, row, landed, published)
  BY RowFacts DEF Sound, RowTypes
<1>1. /\ landed \in 0..Len(row) /\ Len(row) \in Nat /\ published \in 0..landed
      /\ landedThen \in 0..Len(row) /\ landed <= landedThen
      /\ publishedThen \in 0..landedThen /\ published <= publishedThen
  BY <1>0 DEF Sound, RowTypes, Numbered
<1>2. RowTypes(calls, row, landedThen, then, publishedThen)
  BY <1>0, <1>1 DEF Sound, RowTypes, Numbered
<1>3. ASSUME NEW j \in 1..Len(calls) PROVE CallFits(j, calls[j], row, landedThen, then, publishedThen)
  <2>1. CallFits(j, calls[j], row, landed, loop, published)
    BY <1>0 DEF Sound, Numbered
  <2>2. calls[j].version \in Nat
    BY <1>0 DEF Sound, RowTypes, CallRecs, Numbered
  <2>3. PlaceOf(calls[j], publishedThen)
    BY <1>0, <1>1, <2>1, <2>2 DEF CallFits, PlaceOf, Numbered
  <2>4. SentAsAsked(j, calls[j], row, then)
    BY <1>0, <2>1 DEF CallFits, SentAsAsked, Never, Once, NotThrice, Has, HasTwice, Numbered
  <2>5. \A n \in 1..landed : n \in 1..landedThen
    BY <1>0, <1>1 DEF Numbered
  <2>6. AnsweredTruly(j, calls[j], row, landedThen, then)
    BY <1>0, <2>1, <2>5 DEF CallFits, AnsweredTruly, Never, Once, NotThrice, Has, HasTwice, Numbered
  <2> QED BY <1>0, <2>3, <2>4, <2>6 DEF CallFits, Numbered
<1> QED BY <1>0, <1>2, <1>3 DEF Sound, Numbered

\* One more request, of a thread that has none.
LEMMA OneIsAsked ==
  ASSUME NEW calls, NEW row, NEW landed, NEW loop, NEW published, NEW new \in CallRecs,
         Sound(calls, row, landed, loop, published),
         \A i \in 1..Len(calls) : calls[i].caller = new.caller => calls[i].told # "nothing",
         PlaceOf(new, published), new.version = 0, new.at \in {"sent", "over"}, new.answer = "none",
         new.told \in {"nothing", "failed"}
  PROVE Sound(Append(calls, new), row, landed, loop, published)
<1>0. calls \in Seq(CallRecs) /\ Numbered(calls, row, landed, published)
  BY RowFacts DEF Sound, RowTypes
<1> DEFINE after == Append(calls, new)
           last == Len(calls) + 1
<1>1. /\ after \in Seq(CallRecs) /\ Len(after) = last /\ after[last] = new
      /\ \A i \in 1..Len(calls) : after[i] = calls[i]
      /\ Len(calls) \in Nat /\ last \notin 1..Len(calls)
  BY <1>0 DEF Sound, RowTypes, Numbered
<1>2. \A n \in 1..Len(row) : row[n] \in Nat /\ row[n] <= Len(calls) /\ row[n] # last
  BY <1>0, <1>1 DEF Sound, RowTypes, Numbered
<1> HIDE DEF after, last
<1>3. \A i \in 1..last : i \in 1..Len(calls) \/ i = last
  BY <1>0, <1>1 DEF last, Numbered
<1>4. RowTypes(after, row, landed, loop, published)
  BY <1>0, <1>1, <1>2 DEF Sound, RowTypes, last, Numbered
<1>5. CallFits(last, new, row, landed, loop, published)
  BY <1>0, <1>2 DEF CallFits, SentAsAsked, AnsweredTruly, Never, Once, NotThrice, Has, HasTwice, Numbered
<1>6. \A i \in 1..last : CallFits(i, after[i], row, landed, loop, published)
  BY <1>0, <1>1, <1>3, <1>5 DEF Sound, Numbered
<1>7. \A i, j \in 1..last : i < j /\ after[i].caller = after[j].caller => after[i].told # "nothing"
  <2> SUFFICES ASSUME NEW i \in 1..last, NEW j \in 1..last, i < j, after[i].caller = after[j].caller
               PROVE after[i].told # "nothing"
    OBVIOUS
  <2>1. i \in 1..Len(calls)
    BY <1>0, <1>1 DEF last, Numbered
  <2> QED BY <1>0, <1>1, <1>3, <2>1 DEF Sound, TurnsAreKept, Numbered
<1>8. ASSUME NEW m \in 1..Len(row), NEW n \in 1..Len(row), m < n, row[n] # 0, row[n] < row[m],
             after[row[m]].caller = after[row[n]].caller
      PROVE after[row[n]].told = "abandoned"
  <2>1. row[m] \in 1..Len(calls) /\ row[n] \in 1..Len(calls)
    BY <1>0, <1>1, <1>2, <1>8 DEF Numbered
  <2>2. calls[row[m]].caller = calls[row[n]].caller
    BY <1>1, <1>8, <2>1
  <2>3. calls[row[n]].told = "abandoned"
    BY <1>8, <2>2 DEF Sound, TurnsAreKept
  <2> QED BY <1>1, <2>1, <2>3
<1>9. ASSUME NEW i \in 1..last, NEW j \in 1..last, after[i].at = "answered", after[i].caller = after[j].caller
      PROVE after[j].version <= after[i].version \/ after[j].told = "abandoned"
  <2>1. i \in 1..Len(calls)
    BY <1>0, <1>1, <1>3, <1>9 DEF Numbered
  <2>2. calls[i].version \in Nat
    BY <1>0, <2>1 DEF Sound, RowTypes, CallRecs, Numbered
  <2>3. CASE j \in 1..Len(calls)
    <3>1. calls[i].at = "answered" /\ calls[i].caller = calls[j].caller
      BY <1>1, <1>9, <2>1, <2>3
    <3>2. calls[j].version <= calls[i].version \/ calls[j].told = "abandoned"
      BY <2>1, <2>3, <3>1 DEF Sound, TurnsAreKept
    <3> QED BY <1>1, <2>1, <2>3, <3>2
  <2>4. CASE j = last
    BY <1>1, <2>1, <2>2, <2>4
  <2> QED BY <1>3, <2>3, <2>4
<1>10. TurnsAreKept(after, row)
  BY <1>0, <1>1, <1>7, <1>8, <1>9 DEF TurnsAreKept, Numbered
<1> QED BY <1>0, <1>1, <1>4, <1>6, <1>10 DEF Sound, after, Numbered

\* The engine's process ends: whoever waits for an answer is told so.
LEMMA AllAreOver ==
  ASSUME NEW calls, NEW row, NEW landed, NEW published, NEW after \in Seq(CallRecs),
         Sound(calls, row, landed, "gone", published), Len(after) = Len(calls),
         \A i \in 1..Len(calls) :
           \/ after[i] = calls[i]
           \/ /\ after[i].caller = calls[i].caller /\ after[i].kind = calls[i].kind
              /\ after[i].answer = calls[i].answer /\ after[i].version = calls[i].version
              /\ after[i].at = "over"
              /\ after[i].told = IF calls[i].told = "nothing" THEN "failed" ELSE calls[i].told
  PROVE Sound(after, row, landed, "gone", published)
<1>0. calls \in Seq(CallRecs) /\ Numbered(calls, row, landed, published)
  BY RowFacts DEF Sound, RowTypes
<1>1. RowTypes(after, row, landed, "gone", published)
  BY DEF Sound, RowTypes
<1>2. ASSUME NEW i \in 1..Len(calls) PROVE CallFits(i, after[i], row, landed, "gone", published)
  <2>1. CallFits(i, calls[i], row, landed, "gone", published)
    BY DEF Sound
  <2>2. CASE after[i] = calls[i]
    BY <2>1, <2>2
  <2>3. CASE after[i] # calls[i]
    <3>1. PlaceOf(after[i], published)
      BY <2>1, <2>3 DEF CallFits, PlaceOf
    <3>2. SentAsAsked(i, after[i], row, "gone")
      BY <2>1, <2>3 DEF CallFits, SentAsAsked
    <3>3. AnsweredTruly(i, after[i], row, landed, "gone")
      BY <2>1, <2>3 DEF CallFits, AnsweredTruly
    <3> QED BY <3>1, <3>2, <3>3 DEF CallFits
  <2> QED BY <2>2, <2>3
<1>3. \A i \in 1..Len(calls) :
        /\ after[i].caller = calls[i].caller /\ after[i].version = calls[i].version
        /\ after[i].told = calls[i].told \/ (calls[i].told = "nothing" /\ after[i].told = "failed")
        /\ after[i].at = "answered" => calls[i].at = "answered"
  OBVIOUS
<1>4. \A i, j \in 1..Len(calls) : i < j /\ after[i].caller = after[j].caller => after[i].told # "nothing"
  BY <1>3 DEF Sound, TurnsAreKept
<1>5. ASSUME NEW m \in 1..Len(row), NEW n \in 1..Len(row), m < n, row[n] # 0, row[n] < row[m],
             after[row[m]].caller = after[row[n]].caller
      PROVE after[row[n]].told = "abandoned"
  <2>1. row[m] \in 1..Len(calls) /\ row[n] \in 1..Len(calls)
    BY <1>0, <1>5 DEF Numbered
  <2>2. calls[row[m]].caller = calls[row[n]].caller
    BY <1>3, <1>5, <2>1
  <2>3. calls[row[n]].told = "abandoned"
    BY <1>5, <2>2 DEF Sound, TurnsAreKept
  <2> QED BY <1>3, <2>1, <2>3
<1>6. ASSUME NEW i \in 1..Len(calls), NEW j \in 1..Len(calls),
             after[i].at = "answered", after[i].caller = after[j].caller
      PROVE after[j].version <= after[i].version \/ after[j].told = "abandoned"
  <2>1. calls[i].at = "answered" /\ calls[i].caller = calls[j].caller
    BY <1>3, <1>6
  <2>2. calls[j].version <= calls[i].version \/ calls[j].told = "abandoned"
    BY <2>1 DEF Sound, TurnsAreKept
  <2> QED BY <1>3, <2>2
<1>7. TurnsAreKept(after, row)
  BY <1>4, <1>5, <1>6 DEF TurnsAreKept
<1> QED BY <1>1, <1>2, <1>7 DEF Sound

\* How often a request is in the row once it is sent.
LEMMA OnceMore ==
  ASSUME NEW row \in Seq(Nat), NEW i \in Nat
  PROVE /\ Never(i, row) => Once(i, Append(row, i)) /\ NotThrice(i, Append(row, i))
        /\ Once(i, row) => NotThrice(i, Append(row, i))
        /\ Has(i, Append(row, i), Len(Append(row, i)))
        /\ Has(i, row, Len(row)) => HasTwice(i, Append(row, i), Len(Append(row, i)))
<1> DEFINE after == Append(row, i)
<1>1. /\ Len(row) \in Nat /\ Len(after) = Len(row) + 1 /\ after[Len(row) + 1] = i
      /\ \A n \in 1..Len(row) : after[n] = row[n]
  OBVIOUS
<1> HIDE DEF after
<1>2. \A n \in 1..Len(after) : n \in 1..Len(row) \/ n = Len(row) + 1
  BY <1>1
<1>3. Never(i, row) => Once(i, after) /\ NotThrice(i, after)
  <2> SUFFICES ASSUME Never(i, row) PROVE Once(i, after) /\ NotThrice(i, after)
    OBVIOUS
  <2>1. \A n \in 1..Len(after) : after[n] = i => n = Len(row) + 1
    BY <1>1, <1>2 DEF Never
  <2>2. Once(i, after)
    BY <2>1 DEF Once
  <2>3. NotThrice(i, after)
    BY <1>1, <2>1 DEF NotThrice
  <2> QED BY <2>2, <2>3
<1>4. Once(i, row) => NotThrice(i, after)
  <2> SUFFICES ASSUME Once(i, row), NEW l \in 1..Len(after), NEW m \in 1..Len(after), NEW n \in 1..Len(after),
                      l < m, m < n, after[l] = i, after[m] = i
               PROVE FALSE
    BY DEF NotThrice
  <2>1. l \in 1..Len(row) /\ m \in 1..Len(row)
    BY <1>1
  <2> QED BY <1>1, <2>1 DEF Once
<1>5. Has(i, after, Len(after))
  BY <1>1 DEF Has
<1>6. Has(i, row, Len(row)) => HasTwice(i, after, Len(after))
  <2> SUFFICES ASSUME NEW n \in 1..Len(row), row[n] = i PROVE HasTwice(i, after, Len(after))
    BY DEF Has
  <2>1. n \in 1..Len(after) /\ Len(row) + 1 \in 1..Len(after) /\ n < Len(row) + 1
    BY <1>1
  <2> QED BY <1>1, <2>1 DEF HasTwice
<1> QED BY <1>3, <1>4, <1>5, <1>6 DEF after

\* What write_response makes of a request.
LEMMA WrittenIs ==
  ASSUME NEW c \in CallRecs, NEW answer \in {"ok", "failed"}
  PROVE /\ Written(c, answer) \in CallRecs
        /\ Written(c, answer).caller = c.caller /\ Written(c, answer).kind = c.kind
        /\ Written(c, answer).told = c.told /\ Written(c, answer).version = c.version
        /\ \/ c.told = "nothing" /\ Written(c, answer).at = "answered" /\ Written(c, answer).answer = answer
           \/ c.told # "nothing" /\ Written(c, answer).at = "over" /\ Written(c, answer).answer = "none"
BY DEF CallRecs, Written, CallPlaces

LEMMA WrittenFits ==
  ASSUME NEW c \in CallRecs, NEW new \in CallRecs, NEW answer \in {"ok", "failed"},
         NEW i, NEW row, NEW landed, NEW loop, NEW published,
         PlaceOf(c, published), c.told \in {"nothing", "abandoned"},
         c.kind = "snapshot" => Never(i, row), c.kind # "replace" => Once(i, row), NotThrice(i, row),
         answer = "ok" =>
           /\ c.kind \in Posted => loop = "gone" \/ Has(i, row, Len(row))
           /\ c.kind \in Confirmed => Has(i, row, landed)
           /\ c.kind = "replace" => HasTwice(i, row, landed),
         new.caller = c.caller, new.kind = c.kind, new.told = c.told,
         new.version = c.version \/ (c.kind = "snapshot" /\ new.version <= published),
         \/ c.told = "nothing" /\ new.at = "answered" /\ new.answer = answer
         \/ c.told # "nothing" /\ new.at = "over" /\ new.answer = "none"
  PROVE CallFits(i, new, row, landed, loop, published)
<1>1. PlaceOf(new, published)
  BY DEF PlaceOf
<1>2. SentAsAsked(i, new, row, loop)
  BY DEF SentAsAsked
<1>3. AnsweredTruly(i, new, row, landed, loop)
  BY DEF AnsweredTruly
<1> QED BY <1>1, <1>2, <1>3 DEF CallFits

-----------------------------------------------------------------------------
\* The steps.

CallTurn(i) ==
  /\ i \in 1..Len(ecCalls) /\ i \in Nat \ {0} /\ ecCalls[i] \in CallRecs
  /\ CallFits(i, ecCalls[i], ecLanded \o ecQueue, Len(ecLanded), ecLoop, ecPublished)
  /\ SoundBut(i, ecCalls, ecLanded \o ecQueue, Len(ecLanded), ecLoop, ecPublished)
  /\ \A j \in 1..Len(ecCalls) : ecCalls[j].version <= ecPublished

LEMMA ATurn == ASSUME CallsInv, NEW i \in Calls PROVE CallTurn(i)
<1>1. ecCalls \in Seq(CallRecs) /\ Numbered(ecCalls, ecLanded \o ecQueue, Len(ecLanded), ecPublished)
  BY RowFacts DEF CallsInv, Sound, RowTypes
<1>2. i \in 1..Len(ecCalls)
  BY <1>1 DEF Calls
<1>3. \A j \in 1..Len(ecCalls) : ecCalls[j].version <= ecPublished
  BY DEF CallsInv, Sound, CallFits, PlaceOf
<1> QED BY <1>1, <1>2, <1>3 DEF CallTurn, CallsInv, Sound, SoundBut, Numbered

LEMMA RowOfTwo ==
  ASSUME CallsInv
  PROVE /\ ecLanded \o ecQueue \in Seq(Nat) /\ Len(ecLanded) \in Nat
        /\ Len(ecLanded \o ecQueue) = Len(ecLanded) + Len(ecQueue)
        /\ \A n \in 1..Len(ecLanded) : (ecLanded \o ecQueue)[n] = ecLanded[n]
        /\ ecLoop = "gone" => ecQueue = <<>>
<1>1. ecLanded \in Seq(Nat) /\ ecQueue \in Seq(Nat) /\ Len(ecLanded) \in Nat /\ Len(ecQueue) \in Nat
  BY DEF CallsInv
<1>2. /\ ecLanded \o ecQueue \in Seq(Nat)
      /\ Len(ecLanded \o ecQueue) = Len(ecLanded) + Len(ecQueue)
      /\ \A n \in 1..Len(ecLanded) : (ecLanded \o ecQueue)[n] = ecLanded[n]
  BY <1>1, ConcatProperties
<1>3. ecLoop = "gone" => Len(ecQueue) = 0
  BY <1>1, <1>2 DEF CallsInv, Sound, RowTypes
<1>4. Len(ecQueue) = 0 => ecQueue = <<>>
  BY <1>1
<1> QED BY <1>1, <1>2, <1>3, <1>4

\* What a step that posts i leaves in the row.
LEMMA PostedRow ==
  ASSUME CallsInv, NEW i \in Nat, Post(i), ecLanded' = ecLanded
  PROVE /\ ecQueue' \in Seq(Nat)
        /\ ecLoop = "gone" => ecLanded' \o ecQueue' = ecLanded \o ecQueue
        /\ ecLoop # "gone" => ecLanded' \o ecQueue' = Append(ecLanded \o ecQueue, i)
<1>1. ecLanded \in Seq(Nat) /\ ecQueue \in Seq(Nat) /\ ecLanded \o ecQueue \in Seq(Nat)
  BY RowOfTwo DEF CallsInv
<1>2. CASE ecLoop = "gone"
  BY <1>1, <1>2 DEF Post
<1>3. CASE ecLoop # "gone"
  <2>1. ecQueue' = Append(ecQueue, i) /\ Append(ecQueue, i) = ecQueue \o <<i>>
    BY <1>1, <1>3, AppendIsConcat DEF Post
  <2>2. Append(ecLanded \o ecQueue, i) = (ecLanded \o ecQueue) \o <<i>>
    BY <1>1, AppendIsConcat
  <2>3. <<i>> \in Seq(Nat)
    OBVIOUS
  <2>4. (ecLanded \o ecQueue) \o <<i>> = ecLanded \o (ecQueue \o <<i>>)
    BY <1>1, <2>3, ConcatAssociative
  <2>5. Append(ecQueue, i) \in Seq(Nat)
    BY <1>1, AppendProperties
  <2> QED BY <1>3, <2>1, <2>2, <2>4, <2>5
<1> QED BY <1>2, <1>3

\* Nothing is posted, and a request gets on.
LEMMA GetsOn ==
  ASSUME CallsInv, NEW i \in Calls, NEW new \in CallRecs,
         CallFits(i, new, ecLanded \o ecQueue, Len(ecLanded), ecLoop, ecPublished),
         new.caller = ecCalls[i].caller,
         new.told = ecCalls[i].told \/ ecCalls[i].told = "nothing",
         new.version = ecCalls[i].version \/ ecCalls[i].told \in {"nothing", "abandoned"},
         \/ new.at # "answered"
         \/ ecCalls[i].at = "answered" /\ new.version = ecCalls[i].version
         \/ \A j \in 1..Len(ecCalls) : ecCalls[j].caller = ecCalls[i].caller => ecCalls[j].version <= new.version,
         ecCalls' = [ecCalls EXCEPT ![i] = new], UNCHANGED <<ecQueue, ecLanded, ecLoop, ecPublished>>
  PROVE CallsInv'
<1>1. CallTurn(i)
  BY ATurn
<1>2. Sound([ecCalls EXCEPT ![i] = new], ecLanded \o ecQueue, Len(ecLanded), ecLoop, ecPublished)
  BY <1>1, OneGetsOn DEF CallTurn
<1>3. Sound(ecCalls', ecLanded' \o ecQueue', Len(ecLanded'), ecLoop', ecPublished')
  BY <1>2
<1> QED BY <1>3 DEF CallsInv

\* A request gets on and is posted, or the loop is gone.
LEMMA GetsOnAndIsPosted ==
  ASSUME CallsInv, NEW i \in Calls, NEW new \in CallRecs,
         Post(i), UNCHANGED <<ecLanded, ecLoop, ecPublished>>,
         CallFits(i, new, ecLanded' \o ecQueue', Len(ecLanded), ecLoop, ecPublished),
         new.caller = ecCalls[i].caller, new.told = ecCalls[i].told,
         ecCalls[i].told \in {"nothing", "abandoned"}, new.version = ecCalls[i].version,
         ecCalls[i].kind # "snapshot",
         ecCalls' = [ecCalls EXCEPT ![i] = new]
  PROVE CallsInv'
<1>1. CallTurn(i)
  BY ATurn
<1>2. \A j \in 1..Len(ecCalls) : ecCalls[j].caller = ecCalls[i].caller => ecCalls[j].version <= new.version
  <2>1. \A j \in 1..Len(ecCalls) : ecCalls[j].caller = ecCalls[i].caller => ecCalls[j].version = 0
    BY <1>1 DEF CallsInv, Sound, CallFits, PlaceOf, CallTurn
  <2> QED BY <1>1, <2>1 DEF CallTurn
<1>3. SoundBut(i, ecCalls, ecLanded' \o ecQueue', Len(ecLanded), ecLoop, ecPublished)
  <2>1. CASE ecLoop = "gone"
    BY <1>1, <2>1, PostedRow DEF CallTurn
  <2>2. CASE ecLoop # "gone"
    <3>1. i \in 0..Len(ecCalls) /\ i \in Nat
      BY <1>1 DEF CallTurn
    <3>2. ecLanded' \o ecQueue' = Append(ecLanded \o ecQueue, i)
      BY <2>2, <3>1, PostedRow
    <3> QED BY <1>1, <2>2, <3>1, <3>2, OneIsSent DEF CallTurn
  <2> QED BY <2>1, <2>2
<1>4. Sound([ecCalls EXCEPT ![i] = new], ecLanded' \o ecQueue', Len(ecLanded), ecLoop, ecPublished)
  BY <1>1, <1>2, <1>3, OneGetsOn DEF CallTurn
<1>5. Sound(ecCalls', ecLanded' \o ecQueue', Len(ecLanded'), ecLoop', ecPublished')
  BY <1>4
<1>6. ecLanded' \in Seq(Nat) /\ ecQueue' \in Seq(Nat)
  BY <1>1, PostedRow DEF CallsInv, CallTurn
<1> QED BY <1>5, <1>6 DEF CallsInv

LEMMA Reading == ASSUME CallsInv, NEW i \in Calls, ReadAnswer(i) \/ GiveUp(i) \/ Accept(i) PROVE CallsInv'
<1> DEFINE c == ecCalls[i]
           row == ecLanded \o ecQueue
           Fits(new) == CallFits(i, new, row, Len(ecLanded), ecLoop, ecPublished)
<1>1. c \in CallRecs /\ Fits(c)
  BY ATurn DEF CallTurn
<1>2. PlaceOf(c, ecPublished) /\ SentAsAsked(i, c, row, ecLoop) /\ AnsweredTruly(i, c, row, Len(ecLanded), ecLoop)
  BY <1>1 DEF CallFits
<1> HIDE DEF c, row
<1>3. CASE ReadAnswer(i)
  <2> DEFINE new == [c EXCEPT !.at = "over", !.told = c.answer, !.answer = "none"]
  <2>1. c.at = "answered" /\ c.told = "nothing"
    BY <1>3 DEF ReadAnswer, c
  <2>2. c.answer \in {"ok", "failed"}
    BY <1>1, <1>2, <2>1 DEF PlaceOf, CallRecs
  <2>3. /\ new \in CallRecs /\ new.caller = c.caller /\ new.kind = c.kind /\ new.version = c.version
        /\ new.at = "over" /\ new.told = c.answer /\ new.answer = "none"
    BY <1>1, <2>2 DEF CallRecs, CallPlaces, Tellings
  <2>4. ecCalls' = [ecCalls EXCEPT ![i] = new] /\ UNCHANGED <<ecQueue, ecLanded, ecLoop, ecPublished>>
    BY <1>3 DEF ReadAnswer, c
  <2> HIDE DEF new
  <2>5. PlaceOf(new, ecPublished)
    BY <1>2, <2>2, <2>3 DEF PlaceOf
  <2>6. SentAsAsked(i, new, row, ecLoop)
    BY <1>2, <2>3 DEF SentAsAsked
  <2>7. AnsweredTruly(i, new, row, Len(ecLanded), ecLoop)
    BY <1>2, <2>3 DEF AnsweredTruly
  <2>8. Fits(new)
    BY <2>5, <2>6, <2>7 DEF CallFits
  <2> QED BY <2>1, <2>3, <2>4, <2>8, GetsOn DEF c, row
<1>4. CASE GiveUp(i)
  <2> DEFINE new == [c EXCEPT !.told = "abandoned"]
  <2>1. c.at \notin {"answered", "over"} /\ c.told = "nothing"
    BY <1>4 DEF GiveUp, c
  <2>2. /\ new \in CallRecs /\ new.caller = c.caller /\ new.kind = c.kind /\ new.version = c.version
        /\ new.at = c.at /\ new.told = "abandoned" /\ new.answer = c.answer
    BY <1>1 DEF CallRecs, CallPlaces, Tellings
  <2>3. ecCalls' = [ecCalls EXCEPT ![i] = new] /\ UNCHANGED <<ecQueue, ecLanded, ecLoop, ecPublished>>
    BY <1>4 DEF GiveUp, c
  <2> HIDE DEF new
  <2>4. PlaceOf(new, ecPublished)
    BY <1>2, <2>1, <2>2 DEF PlaceOf
  <2>5. SentAsAsked(i, new, row, ecLoop)
    BY <1>2, <2>2 DEF SentAsAsked
  <2>6. AnsweredTruly(i, new, row, Len(ecLanded), ecLoop)
    BY <1>2, <2>2 DEF AnsweredTruly
  <2>7. Fits(new)
    BY <2>4, <2>5, <2>6 DEF CallFits
  <2> QED BY <2>1, <2>2, <2>3, <2>7, GetsOn DEF c, row
<1>5. CASE Accept(i)
  <2> DEFINE new == [c EXCEPT !.at = "accepted"]
  <2>1. c.at = "sent"
    BY <1>5 DEF Accept, c
  <2>2. /\ new \in CallRecs /\ new.caller = c.caller /\ new.kind = c.kind /\ new.version = c.version
        /\ new.at = "accepted" /\ new.told = c.told /\ new.answer = c.answer
    BY <1>1 DEF CallRecs, CallPlaces, Tellings
  <2>3. ecCalls' = [ecCalls EXCEPT ![i] = new] /\ UNCHANGED <<ecQueue, ecLanded, ecLoop, ecPublished>>
    BY <1>5 DEF Accept, c
  <2> HIDE DEF new
  <2>4. PlaceOf(new, ecPublished)
    BY <1>2, <2>1, <2>2 DEF PlaceOf
  <2>5. SentAsAsked(i, new, row, ecLoop)
    BY <1>2, <2>1, <2>2 DEF SentAsAsked
  <2>6. AnsweredTruly(i, new, row, Len(ecLanded), ecLoop)
    BY <1>2, <2>2 DEF AnsweredTruly
  <2>7. Fits(new)
    BY <2>4, <2>5, <2>6 DEF CallFits
  <2> QED BY <2>1, <2>2, <2>3, <2>7, GetsOn DEF c, row
<1> QED BY <1>3, <1>4, <1>5

\* The engine answers from what the loop has published, or from its response.
LEMMA Answering ==
  ASSUME CallsInv, NEW i \in Calls, NEW answer \in {"ok", "failed"}, NEW new \in CallRecs,
         (ecCalls[i].at = "accepted" /\ ecCalls[i].kind = "snapshot") \/ ecCalls[i].at = "awaits",
         answer = "ok" /\ ecCalls[i].kind # "snapshot" => ecCalls[i].answer = "ok",
         new = IF ecCalls[i].kind = "snapshot" THEN [Written(ecCalls[i], answer) EXCEPT !.version = ecPublished]
               ELSE Written(ecCalls[i], answer),
         ecCalls' = [ecCalls EXCEPT ![i] = new], UNCHANGED <<ecQueue, ecLanded, ecLoop, ecPublished>>
  PROVE CallsInv'
<1> DEFINE c == ecCalls[i]
           row == ecLanded \o ecQueue
           written == Written(c, answer)
<1>1. /\ c \in CallRecs /\ ecPublished \in Nat
      /\ PlaceOf(c, ecPublished) /\ SentAsAsked(i, c, row, ecLoop)
      /\ AnsweredTruly(i, c, row, Len(ecLanded), ecLoop)
      /\ \A j \in 1..Len(ecCalls) : ecCalls[j].version <= ecPublished
  <2>1. CallTurn(i)
    BY ATurn
  <2>2. ecPublished \in Nat
    BY RowFacts DEF CallsInv, Sound, Numbered
  <2> QED BY <2>1, <2>2 DEF CallTurn, CallFits
<1>2. /\ written \in CallRecs
      /\ written.caller = c.caller /\ written.kind = c.kind
      /\ written.told = c.told /\ written.version = c.version
      /\ \/ c.told = "nothing" /\ written.at = "answered" /\ written.answer = answer
         \/ c.told # "nothing" /\ written.at = "over" /\ written.answer = "none"
  BY <1>1, WrittenIs
<1>3. new = IF c.kind = "snapshot" THEN [written EXCEPT !.version = ecPublished] ELSE written
  OBVIOUS
<1>4. (c.at = "accepted" /\ c.kind = "snapshot") \/ c.at = "awaits"
  OBVIOUS
<1>5. answer = "ok" /\ c.kind # "snapshot" => c.answer = "ok"
  OBVIOUS
<1>6. ecCalls' = [ecCalls EXCEPT ![i] = new]
  OBVIOUS
<1> HIDE DEF written, c, row
<1>7. /\ new.caller = c.caller /\ new.kind = c.kind /\ new.told = c.told
      /\ new.version = IF c.kind = "snapshot" THEN ecPublished ELSE c.version
      /\ \/ c.told = "nothing" /\ new.at = "answered" /\ new.answer = answer
         \/ c.told # "nothing" /\ new.at = "over" /\ new.answer = "none"
  BY <1>1, <1>2, <1>3 DEF CallRecs
<1>8. c.told \in {"nothing", "abandoned"}
  BY <1>1, <1>4 DEF PlaceOf
<1>9. /\ c.kind = "snapshot" => Never(i, row)
      /\ c.kind # "replace" => Once(i, row)
      /\ NotThrice(i, row)
  BY <1>1 DEF SentAsAsked
<1>10. answer = "ok" =>
         /\ c.kind \in Posted => ecLoop = "gone" \/ Has(i, row, Len(row))
         /\ c.kind \in Confirmed => Has(i, row, Len(ecLanded))
         /\ c.kind = "replace" => HasTwice(i, row, Len(ecLanded))
  BY <1>1, <1>5 DEF AnsweredTruly, Posted, Confirmed
<1>11. CallFits(i, new, row, Len(ecLanded), ecLoop, ecPublished)
  <2>1. new.version = c.version \/ (c.kind = "snapshot" /\ new.version <= ecPublished)
    BY <1>1, <1>7
  <2>2. /\ new.caller = c.caller /\ new.kind = c.kind /\ new.told = c.told
        /\ \/ c.told = "nothing" /\ new.at = "answered" /\ new.answer = answer
           \/ c.told # "nothing" /\ new.at = "over" /\ new.answer = "none"
    BY <1>7
  <2>3. PlaceOf(c, ecPublished) /\ c \in CallRecs
    BY <1>1
  <2> QED BY <1>8, <1>9, <1>10, <2>1, <2>2, <2>3, WrittenFits
<1>12. \A j \in 1..Len(ecCalls) : ecCalls[j].caller = c.caller => ecCalls[j].version <= new.version
  <2>1. CASE c.kind = "snapshot"
    BY <1>1, <1>7, <2>1
  <2>2. CASE c.kind # "snapshot"
    <3>1. \A j \in 1..Len(ecCalls) : PlaceOf(ecCalls[j], ecPublished)
      BY DEF CallsInv, Sound, CallFits
    <3>2. \A j \in 1..Len(ecCalls) : ecCalls[j].caller = c.caller => ecCalls[j].version = 0
      BY <1>1, <2>2, <3>1 DEF PlaceOf
    <3>3. new.version = 0
      BY <1>1, <1>7, <2>2 DEF PlaceOf
    <3> QED BY <3>2, <3>3
  <2> QED BY <2>1, <2>2
<1> QED BY <1>6, <1>7, <1>8, <1>11, <1>12, GetsOn DEF c, row

LEMMA Responding == ASSUME CallsInv, NEW i \in Calls, Respond(i) PROVE CallsInv'
<1> DEFINE c == ecCalls[i]
           answer == IF c.answer = "none" THEN "failed" ELSE c.answer
<1>1. c \in CallRecs /\ PlaceOf(c, ecPublished) /\ c.at = "awaits"
  BY ATurn DEF CallTurn, CallFits, Respond
<1>2. answer \in {"ok", "failed"} /\ c.kind # "snapshot" /\ (answer = "ok" => c.answer = "ok")
  BY <1>1 DEF CallRecs, PlaceOf, Confirmed
<1>3. Written(c, answer) \in CallRecs
  BY <1>1, <1>2, WrittenIs
<1>4. ecCalls' = [ecCalls EXCEPT ![i] = Written(c, answer)] /\ UNCHANGED <<ecQueue, ecLanded, ecLoop, ecPublished>>
  BY DEF Respond
<1> HIDE DEF answer
<1> QED BY <1>1, <1>2, <1>3, <1>4, Answering

\* What the row and the request say once the request is posted.
LEMMA PostedFits ==
  ASSUME CallsInv, NEW i \in Calls, Post(i), ecLanded' = ecLanded
  PROVE LET c == ecCalls[i]
            row == ecLanded' \o ecQueue'
        IN /\ c.at = "accepted" => Once(i, row)
           /\ c.at = "accepted" \/ c.at = "replacing" => NotThrice(i, row)
           /\ c.at = "accepted" => ecLoop = "gone" \/ Has(i, row, Len(row))
           /\ c.at = "replacing" => ecLoop = "gone" \/ HasTwice(i, row, Len(row))
<1> DEFINE c == ecCalls[i]
           before == ecLanded \o ecQueue
           row == ecLanded' \o ecQueue'
<1>1. i \in Nat /\ before \in Seq(Nat) /\ SentAsAsked(i, c, before, ecLoop)
  BY ATurn, RowOfTwo DEF CallTurn, CallFits
<1>2. (ecLoop = "gone" => row = before) /\ (ecLoop # "gone" => row = Append(before, i))
  BY <1>1, PostedRow
<1> HIDE DEF c, before, row
<1>3. c.at = "accepted" => Never(i, before)
  BY <1>1 DEF SentAsAsked
<1>4. c.at = "replacing" => Once(i, before) /\ (ecLoop # "gone" => Has(i, before, Len(before)))
  BY <1>1 DEF SentAsAsked
<1>5. Once(i, before) \/ c.at # "accepted"
  BY <1>3 DEF Never, Once
<1>6. NotThrice(i, before)
  BY <1>1 DEF SentAsAsked
<1>7. CASE ecLoop = "gone"
  BY <1>2, <1>5, <1>6, <1>7 DEF c, row
<1>8. CASE ecLoop # "gone"
  BY <1>1, <1>2, <1>3, <1>4, <1>8, OnceMore DEF c, row
<1> QED BY <1>7, <1>8

\* A request whose answer does not depend on the loop, or cannot any more.
LEMMA PostedAndWritten ==
  ASSUME CallsInv, NEW i \in Calls, Post(i), UNCHANGED <<ecLanded, ecLoop, ecPublished>>,
         NEW answer \in {"ok", "failed"},
         \/ ecCalls[i].at = "accepted" /\ ecCalls[i].kind \notin {"snapshot", "replace"}
         \/ ecCalls[i].at = "replacing",
         answer = "ok" => ecCalls[i].at = "accepted" /\ ecCalls[i].kind \in Posted,
         ecCalls' = [ecCalls EXCEPT ![i] = Written(ecCalls[i], answer)]
  PROVE CallsInv'
<1> DEFINE c == ecCalls[i]
           new == Written(c, answer)
           row == ecLanded' \o ecQueue'
<1>1. /\ c \in CallRecs /\ PlaceOf(c, ecPublished)
      /\ (c.at = "accepted" /\ c.kind \notin {"snapshot", "replace"}) \/ c.at = "replacing"
      /\ answer = "ok" => c.at = "accepted" /\ c.kind \in Posted
  BY ATurn DEF CallTurn, CallFits
<1>2. /\ c.at = "accepted" => Once(i, row)
      /\ c.at = "accepted" \/ c.at = "replacing" => NotThrice(i, row)
      /\ c.at = "accepted" => ecLoop = "gone" \/ Has(i, row, Len(row))
  BY PostedFits
<1>3. /\ new \in CallRecs /\ new.caller = c.caller /\ new.kind = c.kind
      /\ new.told = c.told /\ new.version = c.version
      /\ \/ c.told = "nothing" /\ new.at = "answered" /\ new.answer = answer
         \/ c.told # "nothing" /\ new.at = "over" /\ new.answer = "none"
  BY <1>1, WrittenIs
<1>4. ecCalls' = [ecCalls EXCEPT ![i] = new]
  OBVIOUS
<1> HIDE DEF c, new, row
<1>5. c.kind # "snapshot" /\ c.told \in {"nothing", "abandoned"} /\ (c.kind # "replace" => c.at = "accepted")
  BY <1>1 DEF PlaceOf
<1>6. /\ c.kind = "snapshot" => Never(i, row)
      /\ c.kind # "replace" => Once(i, row)
      /\ NotThrice(i, row)
  BY <1>1, <1>2, <1>5
<1>7. answer = "ok" =>
        /\ c.kind \in Posted => ecLoop = "gone" \/ Has(i, row, Len(row))
        /\ c.kind \in Confirmed => Has(i, row, Len(ecLanded))
        /\ c.kind = "replace" => HasTwice(i, row, Len(ecLanded))
  BY <1>1, <1>2 DEF Posted, Confirmed
<1>8. PlaceOf(c, ecPublished) /\ c \in CallRecs
  BY <1>1
<1>9. CallFits(i, new, row, Len(ecLanded), ecLoop, ecPublished)
  BY <1>3, <1>5, <1>6, <1>7, <1>8, WrittenFits
<1> QED BY <1>3, <1>4, <1>5, <1>9, GetsOnAndIsPosted DEF c, row

\* A request that waits for the loop.
LEMMA PostedAndMoved ==
  ASSUME CallsInv, NEW i \in Calls, Post(i), UNCHANGED <<ecLanded, ecLoop, ecPublished>>, NEW place,
         \/ /\ ecCalls[i].at = "accepted" /\ ecCalls[i].kind \in Confirmed
            /\ ecLoop # "gone" /\ place = "awaits"
         \/ ecCalls[i].at = "accepted" /\ ecCalls[i].kind = "replace" /\ place = "replacing"
         \/ ecCalls[i].at = "replacing" /\ ecLoop # "gone" /\ place = "awaits",
         ecCalls' = [ecCalls EXCEPT ![i] = [ecCalls[i] EXCEPT !.at = place]]
  PROVE CallsInv'
<1> DEFINE c == ecCalls[i]
           new == [c EXCEPT !.at = place]
           row == ecLanded' \o ecQueue'
<1>1. c \in CallRecs /\ PlaceOf(c, ecPublished)
  BY ATurn DEF CallTurn, CallFits
<1>2. \/ c.at = "accepted" /\ c.kind \in Confirmed /\ ecLoop # "gone" /\ place = "awaits"
      \/ c.at = "accepted" /\ c.kind = "replace" /\ place = "replacing"
      \/ c.at = "replacing" /\ ecLoop # "gone" /\ place = "awaits"
  OBVIOUS
<1>3. /\ c.at = "accepted" => Once(i, row)
      /\ c.at = "accepted" \/ c.at = "replacing" => NotThrice(i, row)
      /\ c.at = "accepted" => ecLoop = "gone" \/ Has(i, row, Len(row))
      /\ c.at = "replacing" => ecLoop = "gone" \/ HasTwice(i, row, Len(row))
  BY PostedFits
<1>4. ecCalls' = [ecCalls EXCEPT ![i] = new]
  OBVIOUS
<1> HIDE DEF c, row
<1>5. /\ new \in CallRecs /\ new.caller = c.caller /\ new.kind = c.kind /\ new.version = c.version
      /\ new.at = place /\ new.told = c.told /\ new.answer = c.answer
  BY <1>1, <1>2 DEF CallRecs, CallPlaces
<1> HIDE DEF new
<1>6. c.told \in {"nothing", "abandoned"} /\ c.answer = "none" /\ c.kind # "snapshot"
  BY <1>1, <1>2 DEF PlaceOf, Confirmed
<1>7. PlaceOf(new, ecPublished)
  BY <1>1, <1>2, <1>5, <1>6 DEF PlaceOf
<1>8. SentAsAsked(i, new, row, ecLoop)
  BY <1>1, <1>2, <1>3, <1>5, <1>6 DEF SentAsAsked, Confirmed, PlaceOf
<1>9. AnsweredTruly(i, new, row, Len(ecLanded), ecLoop)
  BY <1>5, <1>6 DEF AnsweredTruly
<1>10. CallFits(i, new, row, Len(ecLanded), ecLoop, ecPublished)
  BY <1>7, <1>8, <1>9 DEF CallFits
<1> QED BY <1>4, <1>5, <1>6, <1>10, GetsOnAndIsPosted DEF c, row

LEMMA Handling == ASSUME CallsInv, NEW i \in Calls, Handle(i) \/ HandleReplacement(i) PROVE CallsInv'
<1>1. ecCalls[i] \in CallRecs /\ PlaceOf(ecCalls[i], ecPublished) /\ ecPublished \in Nat
  BY ATurn, RowFacts DEF CallTurn, CallFits, CallsInv, Sound, Numbered
<1>2. UNCHANGED <<ecLoop, ecPublished, ecLanded>>
  BY DEF Handle, HandleReplacement
<1>3. CASE ecCalls[i].at = "accepted" /\ Post(i) /\ ecCalls[i].kind \in Posted
           /\ \/ ecCalls' = [ecCalls EXCEPT ![i] = Written(@, "ok")]
              \/ ecLoop = "gone" /\ ecCalls' = [ecCalls EXCEPT ![i] = Written(@, "failed")]
  BY <1>2, <1>3, PostedAndWritten DEF Posted
<1>4. CASE Post(i) /\ Awaits(i)
           /\ \/ ecCalls[i].at = "accepted" /\ ecCalls[i].kind \in Confirmed
              \/ ecCalls[i].at = "replacing"
  <2>1. CASE ecLoop = "gone"
    <3>1. ecCalls' = [ecCalls EXCEPT ![i] = Written(ecCalls[i], "failed")]
      BY <1>4, <2>1 DEF Awaits
    <3>2. (ecCalls[i].at = "accepted" /\ ecCalls[i].kind \notin {"snapshot", "replace"}) \/ ecCalls[i].at = "replacing"
      BY <1>4 DEF Confirmed
    <3> QED BY <1>2, <1>4, <3>1, <3>2, PostedAndWritten
  <2>2. CASE ecLoop # "gone"
    <3>1. ecCalls' = [ecCalls EXCEPT ![i] = [ecCalls[i] EXCEPT !.at = "awaits"]]
      BY <1>4, <2>2 DEF Awaits
    <3> QED BY <1>2, <1>4, <2>2, <3>1, PostedAndMoved
  <2> QED BY <2>1, <2>2
<1>5. CASE ecCalls[i].at = "accepted" /\ ecCalls[i].kind = "replace" /\ Post(i)
           /\ ecCalls' = [ecCalls EXCEPT ![i] = [@ EXCEPT !.at = "replacing"]]
  BY <1>2, <1>5, PostedAndMoved
<1>6. CASE /\ ecCalls[i].at = "accepted" /\ ecCalls[i].kind = "snapshot" /\ UNCHANGED ecQueue
           /\ ecCalls' = [ecCalls EXCEPT ![i] = [Written(@, "ok") EXCEPT !.version = ecPublished]]
  <2> DEFINE written == Written(ecCalls[i], "ok")
             new == [written EXCEPT !.version = ecPublished]
  <2>1. written \in CallRecs
    BY <1>1, WrittenIs
  <2> HIDE DEF written
  <2>2. new \in CallRecs
    BY <1>1, <2>1 DEF CallRecs
  <2>3. ecCalls' = [ecCalls EXCEPT ![i] = new]
    BY <1>6 DEF written
  <2>4. new = IF ecCalls[i].kind = "snapshot" THEN [Written(ecCalls[i], "ok") EXCEPT !.version = ecPublished]
              ELSE Written(ecCalls[i], "ok")
    BY <1>6 DEF written
  <2> HIDE DEF new
  <2> QED BY <1>2, <1>6, <2>2, <2>3, <2>4, Answering
<1>7. CASE Handle(i)
  BY <1>3, <1>4, <1>5, <1>6, <1>7 DEF Handle
<1>8. CASE HandleReplacement(i)
  BY <1>4, <1>8 DEF HandleReplacement
<1> QED BY <1>7, <1>8

LEMMA HeadIsLanded ==
  ASSUME NEW landed \in Seq(Nat), NEW queue \in Seq(Nat), queue # <<>>
  PROVE /\ Append(landed, Head(queue)) \o Tail(queue) = landed \o queue
        /\ Append(landed, Head(queue)) \in Seq(Nat) /\ Tail(queue) \in Seq(Nat) /\ Head(queue) \in Nat
        /\ Len(Append(landed, Head(queue))) = Len(landed) + 1
        /\ Len(landed) + 1 \in 1..Len(landed \o queue)
        /\ (landed \o queue)[Len(landed) + 1] = Head(queue)
        /\ \A n \in 1..Len(landed \o queue) :
             n > Len(landed) + 1 => \E k \in 2..Len(queue) : (landed \o queue)[n] = queue[k]
<1> DEFINE head == Head(queue)
           tail == Tail(queue)
<1>1. head \in Nat /\ tail \in Seq(Nat) /\ queue = <<head>> \o tail /\ <<head>> \in Seq(Nat)
  <2>1. head \in Nat /\ tail \in Seq(Nat) /\ Len(tail) = Len(queue) - 1 /\ Len(queue) \in Nat /\ Len(queue) > 0
        /\ head = queue[1] /\ \A n \in 1..Len(tail) : tail[n] = queue[n + 1]
    BY HeadTailProperties
  <2> HIDE DEF head, tail
  <2>2. <<head>> \in Seq(Nat) /\ Len(<<head>>) = 1 /\ <<head>>[1] = head
    BY <2>1
  <2>3. /\ <<head>> \o tail \in Seq(Nat) /\ Len(<<head>> \o tail) = Len(queue)
        /\ \A n \in 1..Len(queue) : (<<head>> \o tail)[n] = IF n <= 1 THEN <<head>>[n] ELSE tail[n - 1]
    BY <2>1, <2>2, ConcatProperties
  <2>4. \A n \in 1..Len(queue) : (<<head>> \o tail)[n] = queue[n]
    BY <2>1, <2>2, <2>3
  <2>5. <<head>> \o tail = queue
    BY <2>3, <2>4, SeqEqual
  <2> QED BY <2>1, <2>2, <2>5
<1>2. Append(landed, head) = landed \o <<head>> /\ Append(landed, head) \in Seq(Nat)
      /\ Len(Append(landed, head)) = Len(landed) + 1
  BY <1>1, AppendIsConcat, AppendProperties
<1> HIDE DEF head, tail
<1>3. Append(landed, head) \o tail = landed \o queue
  <2>1. (landed \o <<head>>) \o tail = landed \o (<<head>> \o tail)
    BY <1>1, ConcatAssociative
  <2> QED BY <1>1, <1>2, <2>1
<1>4. /\ Len(landed) \in Nat /\ Len(queue) \in Nat /\ Len(queue) > 0 /\ head = queue[1]
      /\ landed \o queue \in Seq(Nat) /\ Len(landed \o queue) = Len(landed) + Len(queue)
      /\ \A n \in 1..Len(landed) + Len(queue) :
           (landed \o queue)[n] = IF n <= Len(landed) THEN landed[n] ELSE queue[n - Len(landed)]
  BY ConcatProperties DEF head
<1>5. Len(landed) + 1 \in 1..Len(landed \o queue) /\ (landed \o queue)[Len(landed) + 1] = head
  BY <1>4
<1>6. ASSUME NEW n \in 1..Len(landed \o queue), n > Len(landed) + 1
      PROVE \E k \in 2..Len(queue) : (landed \o queue)[n] = queue[k]
  <2>1. n - Len(landed) \in 2..Len(queue) /\ (landed \o queue)[n] = queue[n - Len(landed)]
    BY <1>4, <1>6
  <2> QED BY <2>1
<1> QED BY <1>1, <1>2, <1>3, <1>5, <1>6 DEF head, tail

\* The loop handles the first command of the channel.
LEMMA Landing == ASSUME CallsInv, HandleCommand PROVE CallsInv'
<1> DEFINE i == Head(ecQueue)
           row == ecLanded \o ecQueue
           landed == Len(ecLanded) + 1
           c == ecCalls[i]
<1>1. /\ ecLanded \in Seq(Nat) /\ ecQueue \in Seq(Nat) /\ ecQueue # <<>>
      /\ ecLoop # "gone" /\ i # 0 /\ ecLoop' = "publish" /\ ecPublished' = ecPublished
      /\ ecLanded' = Append(ecLanded, i) /\ ecQueue' = Tail(ecQueue)
      /\ Sound(ecCalls, row, Len(ecLanded), ecLoop, ecPublished)
  BY DEF HandleCommand, Shutdown, CallsInv
<1>2. /\ ecLanded' \o ecQueue' = row /\ ecLanded' \in Seq(Nat) /\ ecQueue' \in Seq(Nat)
      /\ i \in Nat /\ Len(ecLanded') = landed /\ landed \in 1..Len(row) /\ row[landed] = i
      /\ \A n \in 1..Len(row) : n > landed => \E k \in 2..Len(ecQueue) : row[n] = ecQueue[k]
  BY <1>1, HeadIsLanded
<1>3. \/ ecCalls' = ecCalls
      \/ /\ c.at = "awaits" /\ i \notin {ecQueue[n] : n \in 2..Len(ecQueue)}
         /\ \E answer \in {"ok", "failed"} : ecCalls' = [ecCalls EXCEPT ![i] = [c EXCEPT !.answer = answer]]
  BY DEF HandleCommand
<1>4. /\ ecCalls \in Seq(CallRecs) /\ Numbered(ecCalls, row, Len(ecLanded), ecPublished)
      /\ \A j \in 1..Len(ecCalls) : ecCalls[j].version <= ecPublished
  BY <1>1, RowFacts DEF Sound, RowTypes, CallFits, PlaceOf
<1> HIDE DEF i, row, landed
<1>5. Sound(ecCalls, row, landed, "publish", ecPublished)
  <2>1. landed = Len(ecLanded) + 1 /\ landed \in 1..Len(row) /\ row[landed] # 0
    BY <1>1, <1>2 DEF landed
  <2> QED BY <1>1, <2>1, LoopGetsOn
<1>6. CASE ecCalls' = ecCalls
  BY <1>1, <1>2, <1>5, <1>6 DEF CallsInv
<1>7. CASE /\ c.at = "awaits" /\ i \notin {ecQueue[n] : n \in 2..Len(ecQueue)}
           /\ \E answer \in {"ok", "failed"} : ecCalls' = [ecCalls EXCEPT ![i] = [c EXCEPT !.answer = answer]]
  <2>1. i \in 1..Len(ecCalls)
    BY <1>1, <1>2, <1>4 DEF Numbered
  <2>2. c \in CallRecs /\ CallFits(i, c, row, landed, "publish", ecPublished)
    BY <1>4, <1>5, <2>1 DEF Numbered, Sound
  <2>3. PICK answer \in {"ok", "failed"} : ecCalls' = [ecCalls EXCEPT ![i] = [c EXCEPT !.answer = answer]]
    BY <1>7
  <2> DEFINE new == [c EXCEPT !.answer = answer]
  <2> HIDE DEF c
  <2>4. /\ new \in CallRecs /\ new.caller = c.caller /\ new.kind = c.kind /\ new.version = c.version
        /\ new.at = c.at /\ new.told = c.told /\ new.answer = answer
    BY <2>2 DEF CallRecs
  <2> HIDE DEF new
  <2>5. PlaceOf(new, ecPublished)
    BY <1>7, <2>2, <2>4 DEF CallFits, PlaceOf
  <2>6. SentAsAsked(i, new, row, "publish")
    BY <2>2, <2>4 DEF CallFits, SentAsAsked
  <2>7. new.kind \in Confirmed \cup {"replace"}
    BY <1>7, <2>2, <2>4 DEF CallFits, PlaceOf
  <2>8. Has(i, row, landed)
    BY <1>2 DEF Has
  <2>9. ASSUME new.kind = "replace" PROVE HasTwice(i, row, landed)
    <3>1. HasTwice(i, row, Len(row))
      BY <1>7, <2>4, <2>6, <2>9 DEF SentAsAsked
    <3>2. PICK m, n \in 1..Len(row) : m < n /\ row[m] = i /\ row[n] = i
      BY <3>1 DEF HasTwice
    <3>3. ~(n > landed)
      BY <1>2, <1>7, <3>2
    <3>4. landed \in Nat /\ Len(row) \in Nat
      BY <1>2, <1>4 DEF Numbered
    <3>5. m \in 1..landed /\ n \in 1..landed
      BY <3>2, <3>3, <3>4
    <3> QED BY <3>2, <3>5 DEF HasTwice
  <2>10. AnsweredTruly(i, new, row, landed, "publish")
    BY <2>7, <2>8, <2>9 DEF AnsweredTruly, Posted, Confirmed
  <2>11. CallFits(i, new, row, landed, "publish", ecPublished)
    BY <2>5, <2>6, <2>10 DEF CallFits
  <2>12. SoundBut(i, ecCalls, row, landed, "publish", ecPublished)
    BY <1>5 DEF Sound, SoundBut
  <2>13. new.caller = ecCalls[i].caller /\ new.told = ecCalls[i].told /\ new.version = ecCalls[i].version
         /\ new.at # "answered"
    BY <1>7, <2>4 DEF c
  <2>14. Sound([ecCalls EXCEPT ![i] = new], row, landed, "publish", ecPublished)
    BY <2>1, <2>4, <2>11, <2>12, <2>13, OneGetsOn
  <2>15. Sound(ecCalls', ecLanded' \o ecQueue', Len(ecLanded'), ecLoop', ecPublished')
    BY <1>1, <1>2, <2>3, <2>14 DEF new
  <2> QED BY <1>2, <2>15 DEF CallsInv
<1> QED BY <1>3, <1>6, <1>7

LEMMA Looping == ASSUME CallsInv, Publishes \/ EngineStopping \/ LoopQuits PROVE CallsInv'
<1> DEFINE row == ecLanded \o ecQueue
<1>1. /\ ecLanded \in Seq(Nat) /\ ecQueue \in Seq(Nat) /\ row \in Seq(Nat)
      /\ Sound(ecCalls, row, Len(ecLanded), ecLoop, ecPublished)
      /\ \A n \in 1..Len(ecLanded) : row[n] = ecLanded[n]
  BY RowOfTwo DEF CallsInv
<1>2. CASE Publishes
  <2>1. Sound(ecCalls, row, Len(ecLanded), "rest", Len(ecLanded))
    BY <1>1, <1>2, LoopGetsOn DEF Publishes
  <2> QED BY <1>1, <1>2, <2>1 DEF Publishes, CallsInv
<1>3. CASE EngineStopping
  <2>1. UNCHANGED <<ecCalls, ecLoop, ecPublished, ecLanded>> /\ Post(0)
    BY <1>3 DEF EngineStopping, Shutdown
  <2>2. CASE ecLoop = "gone"
    BY <1>1, <2>1, <2>2, PostedRow DEF CallsInv
  <2>3. CASE ecLoop # "gone"
    <3>1. SoundBut(0, ecCalls, row, Len(ecLanded), ecLoop, ecPublished) /\ Len(ecCalls) \in Nat
      BY <1>1, RowFacts DEF Sound, SoundBut, Numbered
    <3>2. SoundBut(0, ecCalls, Append(row, 0), Len(ecLanded), ecLoop, ecPublished)
      BY <2>3, <3>1, OneIsSent
    <3>3. Sound(ecCalls, Append(row, 0), Len(ecLanded), ecLoop, ecPublished)
      BY <3>1, <3>2 DEF Sound, SoundBut
    <3>4. ecLanded' \o ecQueue' = Append(row, 0) /\ ecQueue' \in Seq(Nat)
      BY <2>1, <2>3, PostedRow
    <3> QED BY <1>1, <2>1, <3>3, <3>4 DEF CallsInv
  <2> QED BY <2>2, <2>3
<1>4. CASE LoopQuits
  <2>1. /\ ecLoop' = "gone" /\ ecQueue' = <<>> /\ UNCHANGED <<ecCalls, ecPublished, ecLanded>>
    BY <1>4 DEF LoopQuits
  <2>2. Sound(ecCalls, ecLanded, Len(ecLanded), "gone", ecPublished)
    BY <1>1, LoopIsGone
  <2>3. ecLanded' \o ecQueue' = ecLanded
    BY <1>1, <2>1, ConcatEmptySeq
  <2>4. ecQueue' \in Seq(Nat)
    BY <2>1
  <2> QED BY <1>1, <2>1, <2>2, <2>3, <2>4 DEF CallsInv
<1> QED BY <1>2, <1>3, <1>4

LEMMA EngineIsGone == ASSUME CallsInv, EngineEnded PROVE CallsInv'
<1>1. /\ ecLanded \in Seq(Nat) /\ ecQueue \in Seq(Nat)
      /\ Sound(ecCalls, ecLanded \o ecQueue, Len(ecLanded), ecLoop, ecPublished)
      /\ \A n \in 1..Len(ecLanded) : (ecLanded \o ecQueue)[n] = ecLanded[n]
  BY RowOfTwo DEF CallsInv
<1>2. Sound(ecCalls, ecLanded, Len(ecLanded), "gone", ecPublished)
  BY <1>1, LoopIsGone
<1>3. ecCalls \in Seq(CallRecs) /\ Len(ecCalls) \in Nat /\ \A j \in 1..Len(ecCalls) : ecCalls[j] \in CallRecs
  BY <1>1, RowFacts DEF Sound, RowTypes, Numbered
<1>4. /\ ecLoop' = "gone" /\ ecQueue' = <<>> /\ UNCHANGED <<ecPublished, ecLanded>>
      /\ ecCalls' = [j \in 1..Len(ecCalls) |->
           IF ecCalls[j].at \in {"answered", "over"} THEN ecCalls[j]
           ELSE [ecCalls[j] EXCEPT !.at = "over", !.told = IF @ = "nothing" THEN "failed" ELSE @]]
  <2>1. Calls = 1..Len(ecCalls)
    BY <1>3 DEF Calls
  <2> QED BY <2>1 DEF EngineEnded
<1>5. \A c \in CallRecs :
        LET new == [c EXCEPT !.at = "over", !.told = IF @ = "nothing" THEN "failed" ELSE @]
        IN /\ new \in CallRecs /\ new.caller = c.caller /\ new.kind = c.kind /\ new.version = c.version
           /\ new.at = "over" /\ new.answer = c.answer
           /\ new.told = IF c.told = "nothing" THEN "failed" ELSE c.told
  <2> SUFFICES ASSUME NEW c \in CallRecs
               PROVE LET new == [c EXCEPT !.at = "over", !.told = IF @ = "nothing" THEN "failed" ELSE @]
                     IN /\ new \in CallRecs /\ new.caller = c.caller /\ new.kind = c.kind
                        /\ new.version = c.version /\ new.at = "over" /\ new.answer = c.answer
                        /\ new.told = IF c.told = "nothing" THEN "failed" ELSE c.told
    OBVIOUS
  <2> DEFINE told == IF c.told = "nothing" THEN "failed" ELSE c.told
             new == [c EXCEPT !.at = "over", !.told = told]
  <2>1. told \in Tellings
    BY DEF CallRecs, Tellings
  <2> HIDE DEF told
  <2>2. /\ new \in CallRecs /\ new.caller = c.caller /\ new.kind = c.kind
        /\ new.version = c.version /\ new.at = "over" /\ new.answer = c.answer /\ new.told = told
    BY <2>1 DEF CallRecs, CallPlaces
  <2> QED BY <2>2 DEF told
<1>6. ASSUME NEW j \in 1..Len(ecCalls)
      PROVE /\ ecCalls'[j] \in CallRecs
            /\ \/ ecCalls'[j] = ecCalls[j]
               \/ /\ ecCalls'[j].caller = ecCalls[j].caller /\ ecCalls'[j].kind = ecCalls[j].kind
                  /\ ecCalls'[j].answer = ecCalls[j].answer /\ ecCalls'[j].version = ecCalls[j].version
                  /\ ecCalls'[j].at = "over"
                  /\ ecCalls'[j].told = IF ecCalls[j].told = "nothing" THEN "failed" ELSE ecCalls[j].told
  <2>1. ecCalls[j] \in CallRecs
    BY <1>3
  <2>2. \/ ecCalls'[j] = ecCalls[j]
        \/ ecCalls'[j] = [ecCalls[j] EXCEPT !.at = "over", !.told = IF @ = "nothing" THEN "failed" ELSE @]
    BY <1>4
  <2> QED BY <1>5, <2>1, <2>2
<1>7. ecCalls' \in Seq(CallRecs) /\ Len(ecCalls') = Len(ecCalls)
  <2>1. ecCalls' \in [1..Len(ecCalls) -> CallRecs]
    BY <1>4, <1>6
  <2> QED BY <1>3, <2>1
<1>8. Sound(ecCalls', ecLanded, Len(ecLanded), "gone", ecPublished)
  BY <1>2, <1>6, <1>7, AllAreOver
<1>9. ecLanded' \o ecQueue' = ecLanded /\ ecQueue' \in Seq(Nat)
  <2>1. ecLanded' = ecLanded /\ ecQueue' = <<>>
    BY <1>4
  <2> QED BY <1>1, <2>1, ConcatEmptySeq
<1> QED BY <1>1, <1>4, <1>8, <1>9 DEF CallsInv

LEMMA Asking == ASSUME CallsInv, AskRequest \/ AskSnapshot PROVE CallsInv'
<1>1. PICK caller \in EcCallers \cup {EcPoller}, kind \in EcKinds \cup {"snapshot"} :
        ((caller = EcPoller) <=> (kind = "snapshot")) /\ Ask(caller, kind)
  BY CallAssumption DEF AskRequest, AskSnapshot, EcKinds, Posted, Confirmed
<1> DEFINE fresh == [caller |-> caller, kind |-> kind, at |-> "sent", told |-> "nothing",
                     answer |-> "none", version |-> 0]
           new == IF ecEngine = "gone" THEN [fresh EXCEPT !.at = "over", !.told = "failed"] ELSE fresh
<1>2. /\ new \in CallRecs /\ new.caller = caller /\ new.kind = kind /\ new.version = 0 /\ new.answer = "none"
      /\ \/ new.at = "sent" /\ new.told = "nothing"
         \/ new.at = "over" /\ new.told = "failed"
  BY <1>1 DEF CallRecs, CallPlaces, Tellings
<1>3. ecCalls' = Append(ecCalls, new) /\ UNCHANGED <<ecQueue, ecLoop, ecPublished, ecLanded>>
  BY <1>1 DEF Ask
<1> HIDE DEF fresh, new
<1>4. /\ Sound(ecCalls, ecLanded \o ecQueue, Len(ecLanded), ecLoop, ecPublished)
      /\ ecCalls \in Seq(CallRecs) /\ ecPublished \in Nat
  BY RowFacts DEF CallsInv, Sound, RowTypes, Numbered
<1>5. \A j \in 1..Len(ecCalls) : ecCalls[j].caller = new.caller => ecCalls[j].told # "nothing"
  BY <1>1, <1>2, <1>4 DEF Ask, Ready, Calls
<1>6. PlaceOf(new, ecPublished)
  BY <1>1, <1>2, <1>4 DEF PlaceOf
<1>7. Sound(Append(ecCalls, new), ecLanded \o ecQueue, Len(ecLanded), ecLoop, ecPublished)
  BY <1>2, <1>4, <1>5, <1>6, OneIsAsked
<1>8. Sound(ecCalls', ecLanded' \o ecQueue', Len(ecLanded'), ecLoop', ecPublished')
  BY <1>3, <1>7
<1> QED BY <1>3, <1>8 DEF CallsInv

LEMMA CallsStep == ASSUME CallsInv, [EcNext]_ecVars PROVE CallsInv'
<1>1. CASE AskRequest \/ AskSnapshot
  BY <1>1, Asking
<1>2. CASE \E i \in Calls : ReadAnswer(i) \/ GiveUp(i) \/ Accept(i) \/ Handle(i) \/ HandleReplacement(i) \/ Respond(i)
  BY <1>2, Reading, Handling, Responding
<1>3. CASE HandleCommand \/ Publishes \/ EngineStopping \/ LoopQuits \/ EngineEnded
  BY <1>3, Landing, Looping, EngineIsGone
<1>4. CASE UNCHANGED ecVars
  BY <1>4 DEF ecVars, CallsInv
<1> QED BY <1>1, <1>2, <1>3, <1>4 DEF EcNext

LEMMA FewElements ==
  ASSUME NEW S
  PROVE /\ (\A m, n \in S : m = n) => Cardinality(S) <= 1
        /\ \A m, n : S = {m, n} /\ m # n => Cardinality(S) = 2
<1>1. ASSUME \A m, n \in S : m = n PROVE Cardinality(S) <= 1
  <2>1. S = {} \/ \E m \in S : S = {m}
    BY <1>1
  <2>2. Cardinality({}) = 0
    BY FS_EmptySet
  <2>3. \A m : Cardinality({m}) = 1
    BY FS_Singleton
  <2>4. CASE S = {}
    BY <2>2, <2>4
  <2>5. CASE S # {}
    <3>1. PICK m \in S : S = {m}
      BY <2>1, <2>5
    <3>2. Cardinality(S) = 1
      BY <2>3, <3>1
    <3> QED BY <3>2
  <2> QED BY <2>4, <2>5
<1>2. ASSUME NEW m, NEW n, S = {m, n}, m # n PROVE Cardinality(S) = 2
  <2>1. IsFiniteSet({m}) /\ Cardinality({m}) = 1
    BY FS_Singleton
  <2>2. S = {m} \cup {n} /\ n \notin {m}
    BY <1>2
  <2> QED BY <2>1, <2>2, FS_AddElement
<1> QED BY <1>1, <1>2

LEMMA CallsInvSuffices == ASSUME CallsInv PROVE AnswersAreTrue
<1> DEFINE row == ecLanded \o ecQueue
           last == Len(ecLanded)
<1>1. /\ Sound(ecCalls, row, last, ecLoop, ecPublished) /\ ecLanded \in Seq(Nat) /\ ecQueue \in Seq(Nat)
      /\ Numbered(ecCalls, row, last, ecPublished) /\ ecCalls \in Seq(CallRecs)
      /\ \A n \in 1..last : row[n] = ecLanded[n]
      /\ DOMAIN ecLanded = 1..last /\ Calls = 1..Len(ecCalls) /\ DOMAIN ecQueue = 1..Len(ecQueue)
  <2>1. Sound(ecCalls, row, last, ecLoop, ecPublished) /\ ecLanded \in Seq(Nat) /\ ecQueue \in Seq(Nat)
    BY DEF CallsInv
  <2>2. RowTypes(ecCalls, row, last, ecLoop, ecPublished)
    BY <2>1 DEF Sound
  <2>3. Numbered(ecCalls, row, last, ecPublished) /\ ecCalls \in Seq(CallRecs)
    BY <2>2, RowFacts DEF RowTypes
  <2>4. \A n \in 1..last : row[n] = ecLanded[n]
    BY RowOfTwo
  <2>5. DOMAIN ecLanded = 1..last /\ DOMAIN ecCalls = 1..Len(ecCalls) /\ DOMAIN ecQueue = 1..Len(ecQueue)
    BY <2>1, <2>3, LenProperties
  <2> QED BY <2>1, <2>3, <2>4, <2>5 DEF Calls
<1>2. /\ Len(row) = last + Len(ecQueue) /\ Len(ecQueue) \in Nat
      /\ \A n \in 1..Len(row) : n \in 1..last \/ (n - last \in 1..Len(ecQueue) /\ row[n] = ecQueue[n - last])
  <2>1. /\ Len(row) = last + Len(ecQueue)
        /\ \A n \in 1..last + Len(ecQueue) : row[n] = IF n <= last THEN ecLanded[n] ELSE ecQueue[n - last]
    BY <1>1, ConcatProperties
  <2> QED BY <1>1, <2>1
<1> HIDE DEF row, last
<1>3. ASSUME NEW m \in DOMAIN ecLanded, NEW n \in DOMAIN ecLanded, m < n,
             OfOne(ecLanded[m], ecLanded[n]), ecLanded[m] > ecLanded[n]
      PROVE ecCalls[ecLanded[n]].told = "abandoned"
  <2>1. m \in 1..Len(row) /\ n \in 1..Len(row) /\ row[m] = ecLanded[m] /\ row[n] = ecLanded[n]
    BY <1>1 DEF Numbered
  <2>2. row[n] # 0 /\ row[n] < row[m]
    BY <1>1, <1>3, <2>1 DEF Sound, RowTypes, Numbered
  <2> QED BY <1>1, <1>3, <2>1, <2>2 DEF Sound, TurnsAreKept, OfOne
<1>4. ASSUME NEW i \in Calls
      PROVE /\ Cardinality(LandingsOf(i)) <= IF ecCalls[i].kind = "replace" THEN 2 ELSE 1
            /\ ecCalls[i].told = "ok" /\ ecCalls[i].kind \in Posted =>
                 LandingsOf(i) # {} \/ ecLoop = "gone" \/ i \in {ecQueue[n] : n \in DOMAIN ecQueue}
            /\ ecCalls[i].told = "ok" /\ ecCalls[i].kind \in Confirmed => LandingsOf(i) # {}
            /\ ecCalls[i].told = "ok" /\ ecCalls[i].kind = "replace" => Cardinality(LandingsOf(i)) = 2
  <2> DEFINE c == ecCalls[i]
             S == LandingsOf(i)
  <2>1. SentAsAsked(i, c, row, ecLoop) /\ AnsweredTruly(i, c, row, last, ecLoop)
    BY <1>1 DEF Sound, CallFits
  <2>2. \A n : n \in S <=> n \in 1..last /\ row[n] = i
    BY <1>1 DEF LandingsOf
  <2>3. \A n \in 1..last : n \in 1..Len(row) /\ n \in Nat
    BY <1>1 DEF Numbered
  <2> HIDE DEF S, c
  <2>4. c.kind # "replace" => Cardinality(S) <= 1
    <3>1. c.kind # "replace" => \A m, n \in S : m = n
      BY <2>1, <2>2, <2>3 DEF SentAsAsked, Once
    <3> QED BY <3>1, FewElements
  <2>5. ASSUME NEW m \in S, NEW n \in S, m < n PROVE Cardinality(S) = 2
    <3>1. ASSUME NEW l \in S PROVE l = m \/ l = n
      <4>1. l \in Nat /\ m \in Nat /\ n \in Nat
        BY <2>2, <2>3
      <4>2. l < m \/ l = m \/ (m < l /\ l < n) \/ l = n \/ n < l
        BY <2>5, <4>1
      <4> QED BY <2>1, <2>2, <2>3, <2>5, <4>2 DEF SentAsAsked, NotThrice
    <3>2. S = {m, n} /\ m # n
      BY <2>2, <2>3, <2>5, <3>1
    <3> QED BY <3>2, FewElements
  <2>6. Cardinality(S) <= 2
    <3>1. CASE \A m, n \in S : m = n
      <4>1. Cardinality(S) <= 1
        BY <3>1, FewElements
      <4>2. IsFiniteSet(S)
        <5>1. IsFiniteSet(1..last) /\ S \subseteq 1..last
          BY <1>1, <2>2, FS_Interval DEF Numbered
        <5> QED BY <5>1, FS_Subset
      <4>3. Cardinality(S) \in Nat
        BY <4>2, FS_CardinalityType
      <4> QED BY <4>1, <4>3
    <3>2. CASE \E m, n \in S : m # n
      <4>1. PICK m, n \in S : m # n
        BY <3>2
      <4>2. m < n \/ n < m
        BY <2>2, <2>3, <4>1
      <4> QED BY <2>5, <4>1, <4>2
    <3> QED BY <3>1, <3>2
  <2>7. c.told = "ok" /\ c.kind \in Confirmed => S # {}
    BY <2>1, <2>2 DEF AnsweredTruly, Has
  <2>8. c.told = "ok" /\ c.kind = "replace" => Cardinality(S) = 2
    <3> SUFFICES ASSUME c.told = "ok", c.kind = "replace" PROVE Cardinality(S) = 2
      OBVIOUS
    <3>1. PICK m, n \in 1..last : m < n /\ row[m] = i /\ row[n] = i
      BY <2>1 DEF AnsweredTruly, HasTwice
    <3> QED BY <2>2, <2>5, <3>1
  <2>9. c.told = "ok" /\ c.kind \in Posted =>
          S # {} \/ ecLoop = "gone" \/ i \in {ecQueue[n] : n \in DOMAIN ecQueue}
    <3> SUFFICES ASSUME NEW n \in 1..Len(row), row[n] = i PROVE S # {} \/ i \in {ecQueue[k] : k \in DOMAIN ecQueue}
      BY <2>1 DEF AnsweredTruly, Has
    <3> QED BY <1>1, <1>2, <2>2
  <2> QED BY <2>4, <2>6, <2>7, <2>8, <2>9 DEF S, c
<1>5. ASSUME NEW i \in Calls, ecCalls[i].at = "answered", NEW j \in Calls, OfOne(i, j)
      PROVE ecCalls[j].version <= ecCalls[i].version \/ ecCalls[j].told = "abandoned"
  BY <1>1, <1>5 DEF Sound, TurnsAreKept, OfOne
<1>6. \A i \in Calls : ecCalls[i].kind \in EcKinds \cup {"snapshot"}
  BY <1>1 DEF Numbered, CallRecs
<1> QED BY <1>3, <1>4, <1>5, <1>6 DEF AnswersAreTrue, EcKinds, Posted, Confirmed

\* Whatever threads of the window ask at once, and whoever gives up or ends.
THEOREM AnswersHoldTrue == EcSpec => []AnswersAreTrue
<1>1. EcInit => CallsInv
  <2> SUFFICES ASSUME EcInit PROVE CallsInv
    OBVIOUS
  <2>1. ecLanded = <<>> /\ ecQueue = <<>> /\ ecCalls = <<>> /\ ecLoop = "rest" /\ ecPublished = 0
    BY DEF EcInit
  <2>2. <<>> \o <<>> = <<>> /\ Len(<<>>) = 0 /\ <<>> \in Seq(Nat) /\ <<>> \in Seq(CallRecs)
    BY ConcatEmptySeq
  <2>3. RowTypes(<<>>, <<>>, 0, "rest", 0) /\ TurnsAreKept(<<>>, <<>>)
    BY <2>2 DEF RowTypes, TurnsAreKept
  <2>4. \A i \in 1..Len(<<>>) : FALSE
    OBVIOUS
  <2> QED BY <2>1, <2>2, <2>3, <2>4 DEF CallsInv, Sound
<1>2. CallsInv /\ [EcNext]_ecVars => CallsInv'
  BY CallsStep
<1>3. CallsInv => AnswersAreTrue
  BY CallsInvSuffices
<1> QED BY <1>1, <1>2, <1>3, PTL DEF EcSpec
===============================================================================
