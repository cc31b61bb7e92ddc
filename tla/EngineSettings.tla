---------------------------- MODULE EngineSettings ----------------------------
(***************************************************************************)
(* Three copies of a setting: the configuration of the window, the file    *)
(* config.json, and the runtime of the engine, which reads the file when   *)
(* it starts and is told of changes by requests.                           *)
(*                                                                         *)
(* Modelled are the settings that are not simply saved and then sent: the  *)
(* headphone volume, which a slider sends at once and saves once it rests; *)
(* headphone mute, which the engine knows as volume 0; and microphone      *)
(* passthrough, which the engine must accept first.  A save writes the     *)
(* whole configuration.                                                    *)
(*                                                                         *)
(* Handlers run on the GTK thread and wait for the engine's answer; the    *)
(* passthrough button leaves that to a worker.                             *)
(***************************************************************************)
EXTENDS Naturals

CONSTANTS
  EsVolumes,   \* positions of the slider
  EsNone,      \* model value: no command
  EsMaxEdits,  \* bound: changes by the user
  EsMaxFaults  \* bound: requests or saves that fail, processes that end

ASSUME SettingsAssumption ==
  /\ EsVolumes \subseteq Nat \ {0} /\ EsVolumes # {}
  /\ EsNone \notin [on : BOOLEAN, step : {"engine", "memory"}]
  /\ {EsMaxEdits, EsMaxFaults} \subseteq Nat

EsSettings == [volume : EsVolumes, mute : BOOLEAN, mic : BOOLEAN]

VARIABLES
  esOpen,     \* does the window exist?
  esMemory,   \* AppState.config
  esFile,     \* config.json
  esRunning,  \* does the engine run?
  esEngine,   \* the engine's local volume and mic_passthrough
  esTimers,   \* volumes of the debounce timers that have not fired
  esWorker,   \* the passthrough button's command: value and step
  esHotkey,   \* the passthrough hotkey's command, for which GTK waits
  esLost,     \* history: copies that a fault may have left behind
  esEdits, esFaults

esVars == <<esOpen, esMemory, esFile, esRunning, esEngine, esTimers, esWorker, esHotkey, esLost,
            esEdits, esFaults>>

EngineCopies == {"volume", "mic"}
\* What the engine is sent, or reads from the file.
Heard(settings) == IF settings.mute THEN 0 ELSE settings.volume
AsEngine(settings) == [volume |-> Heard(settings), mic |-> settings.mic]

EsInit ==
  /\ esOpen = TRUE /\ esRunning = TRUE
  /\ esMemory \in EsSettings
  /\ esFile = esMemory
  /\ esEngine = AsEngine(esMemory)
  /\ esTimers = {} /\ esWorker = EsNone /\ esHotkey = EsNone
  /\ esLost = {}
  /\ esEdits = 0 /\ esFaults = 0

(***************************************************************************)
(* Saving and sending, either of which may fail.                           *)
(***************************************************************************)

Fault == esFaults < EsMaxFaults /\ esFaults' = esFaults + 1
NoFault == UNCHANGED esFaults

Saved(settings, lost) == NoFault /\ esFile' = settings /\ esLost' = lost \ {"file"}
NotSaved(lost) == Fault /\ UNCHANGED esFile /\ esLost' = lost \cup {"file"}

\* set_local_volume; the answer is ignored.
Told(volume) ==
  IF esRunning THEN esEngine' = [esEngine EXCEPT !.volume = volume] ELSE UNCHANGED esEngine

UserActs ==
  /\ esOpen /\ esHotkey = EsNone
  /\ esEdits < EsMaxEdits
  /\ esEdits' = esEdits + 1
  /\ UNCHANGED <<esOpen, esRunning>>

(***************************************************************************)
(* The headphone volume.                                                   *)
(***************************************************************************)

\* replace_debounce_timeout
TimerReplaced(volume) == {volume}
\* Faulty variant: the earlier timer is not removed.
TimerAdded(volume) == esTimers \cup {volume}
Debounced(volume) == TimerReplaced(volume)

\* set_local_volume_live: a muted engine is not told.
MoveSlider ==
  /\ UserActs
  /\ \E volume \in EsVolumes \ {esMemory.volume} :
       /\ esMemory' = [esMemory EXCEPT !.volume = volume]
       /\ esTimers' = Debounced(volume)
       /\ IF esMemory.mute THEN NoFault /\ UNCHANGED <<esEngine, esLost>>
          ELSE \/ NoFault /\ Told(volume) /\ esLost' = esLost \ {"volume"}
               \/ Fault /\ UNCHANGED esEngine /\ esLost' = esLost \cup {"volume"}
  /\ UNCHANGED <<esFile, esWorker, esHotkey>>

\* save_local_volume
TimerFires ==
  /\ esOpen /\ esHotkey = EsNone
  /\ \E volume \in esTimers :
       /\ esTimers' = esTimers \ {volume}
       /\ esMemory' = [esMemory EXCEPT !.volume = volume]
       /\ Saved(esMemory', esLost) \/ NotSaved(esLost)
  /\ UNCHANGED <<esOpen, esRunning, esEngine, esWorker, esHotkey, esEdits>>

\* toggle_local_mute: if the save fails the engine is not told; the engine's
\* answer is ignored here too.
ToggleMute ==
  /\ UserActs
  /\ esMemory' = [esMemory EXCEPT !.mute = ~@]
  /\ \/ Saved(esMemory', esLost \ {"volume"}) /\ Told(Heard(esMemory'))
     \/ NotSaved(esLost \cup {"volume"}) /\ UNCHANGED esEngine
     \/ Fault /\ esFile' = esMemory' /\ UNCHANGED esEngine
        /\ esLost' = (esLost \ {"file"}) \cup {"volume"}
  /\ UNCHANGED <<esTimers, esWorker, esHotkey>>

(***************************************************************************)
(* Microphone passthrough: the engine first, then memory and file.         *)
(***************************************************************************)

PressButton ==
  /\ UserActs /\ esWorker = EsNone
  /\ \E on \in BOOLEAN : esWorker' = [on |-> on, step |-> "engine"]
  /\ UNCHANGED <<esMemory, esFile, esEngine, esTimers, esHotkey, esLost, esFaults>>

\* toggle_mic_passthrough
PressHotkey ==
  /\ UserActs
  /\ esHotkey' = [on |-> ~esMemory.mic, step |-> "engine"]
  /\ UNCHANGED <<esMemory, esFile, esEngine, esTimers, esWorker, esLost, esFaults>>

\* The engine applies a request before it opens the capture stream, so it may
\* have applied one that it reports as failed, or answers too late.  Two
\* commands at a time may end in another order in memory than in the engine.
EngineAnswers(command, other) ==
  IF ~esRunning THEN command' = EsNone /\ NoFault /\ UNCHANGED <<esEngine, esLost>>
  ELSE \/ /\ NoFault
          /\ esEngine' = [esEngine EXCEPT !.mic = command.on]
          /\ command' = [command EXCEPT !.step = "memory"]
          /\ esLost' = IF other = EsNone THEN esLost \ {"mic"} ELSE esLost \cup {"mic"}
       \/ /\ Fault
          /\ command' = EsNone
          /\ \/ esEngine' = [esEngine EXCEPT !.mic = command.on] /\ esLost' = esLost \cup {"mic"}
             \/ UNCHANGED <<esEngine, esLost>>

\* A save that fails is ignored.
Remember(command) ==
  /\ esMemory' = [esMemory EXCEPT !.mic = command.on]
  /\ Saved(esMemory', esLost) \/ NotSaved(esLost)
  /\ command' = EsNone

PassthroughStep ==
  /\ \/ /\ esWorker # EsNone /\ UNCHANGED esHotkey
        /\ \/ esWorker.step = "engine" /\ EngineAnswers(esWorker, esHotkey) /\ UNCHANGED <<esMemory, esFile>>
           \/ esWorker.step = "memory" /\ Remember(esWorker) /\ UNCHANGED esEngine
     \/ /\ esHotkey # EsNone /\ UNCHANGED esWorker
        /\ \/ esHotkey.step = "engine" /\ EngineAnswers(esHotkey, esWorker) /\ UNCHANGED <<esMemory, esFile>>
           \/ esHotkey.step = "memory" /\ Remember(esHotkey) /\ UNCHANGED esEngine
  /\ UNCHANGED <<esOpen, esRunning, esTimers, esEdits>>

(***************************************************************************)
(* Processes end and start again.                                          *)
(***************************************************************************)

EngineEnds ==
  /\ esRunning /\ Fault
  /\ esRunning' = FALSE
  /\ UNCHANGED <<esOpen, esMemory, esFile, esEngine, esTimers, esWorker, esHotkey, esLost, esEdits>>

\* The new engine reads the file, which the window may be ahead of.
EngineStarts ==
  /\ ~esRunning
  /\ esRunning' = TRUE
  /\ esEngine' = AsEngine(esFile)
  /\ esLost' = (esLost \ EngineCopies)
                 \cup (IF esOpen /\ (esTimers # {} \/ "file" \in esLost) THEN EngineCopies ELSE {})
                 \cup (IF {esWorker, esHotkey} # {EsNone} THEN {"mic"} ELSE {})
  /\ UNCHANGED <<esOpen, esMemory, esFile, esTimers, esWorker, esHotkey, esEdits, esFaults>>

\* TransportBar::cleanup; the engine plays on.  (A window that closes while a
\* command is under way is taken for one that is killed.)
CleanUp ==
  /\ esOpen /\ esHotkey = EsNone /\ esWorker = EsNone
  /\ esOpen' = FALSE
  /\ esTimers' = {}
  /\ IF esTimers = {} THEN NoFault /\ UNCHANGED <<esFile, esLost>>
     ELSE Saved(esMemory, esLost) \/ NotSaved(esLost)
  /\ UNCHANGED <<esMemory, esRunning, esEngine, esWorker, esHotkey, esEdits>>

KillApplication ==
  /\ esOpen /\ Fault
  /\ esOpen' = FALSE
  /\ esTimers' = {} /\ esWorker' = EsNone /\ esHotkey' = EsNone
  /\ esLost' = esLost \cup (IF esTimers # {} THEN {"file"} ELSE {})
                      \cup (IF {esWorker, esHotkey} # {EsNone} THEN {"mic"} ELSE {})
  /\ UNCHANGED <<esMemory, esFile, esRunning, esEngine, esEdits>>

\* A new window reads the file and tells the engine nothing.
OpenAgain ==
  /\ ~esOpen
  /\ esOpen' = TRUE
  /\ esMemory' = esFile
  /\ esLost' = (esLost \ {"file"}) \cup (IF "file" \in esLost THEN EngineCopies ELSE {})
  /\ UNCHANGED <<esFile, esRunning, esEngine, esTimers, esWorker, esHotkey, esEdits, esFaults>>

EsNext ==
  \/ MoveSlider \/ TimerFires \/ ToggleMute
  \/ PressButton \/ PressHotkey \/ PassthroughStep
  \/ EngineEnds \/ EngineStarts \/ CleanUp \/ KillApplication \/ OpenAgain

EsSpec == EsInit /\ [][EsNext]_esVars

(***************************************************************************)
(* Properties.                                                             *)
(***************************************************************************)

SettingsTypeOK ==
  /\ {esOpen, esRunning} \subseteq BOOLEAN
  /\ {esMemory, esFile} \subseteq EsSettings
  /\ esEngine \in [volume : EsVolumes \cup {0}, mic : BOOLEAN]
  /\ esTimers \subseteq EsVolumes
  /\ {esWorker, esHotkey} \subseteq [on : BOOLEAN, step : {"engine", "memory"}] \cup {EsNone}
  /\ esLost \subseteq EngineCopies \cup {"file"}

\* The copies agree: whenever the window and the engine run and no timer or
\* command is under way, the engine plays what the window shows and the file
\* holds both, unless a fault has touched that copy and nothing has been sent or
\* saved since.
CopiesAgree ==
  esOpen /\ esRunning /\ esTimers = {} /\ esWorker = EsNone /\ esHotkey = EsNone =>
    /\ "volume" \notin esLost => esEngine.volume = Heard(esMemory)
    /\ "mic" \notin esLost => esEngine.mic = esMemory.mic
    /\ "file" \notin esLost => esFile = esMemory
===============================================================================
