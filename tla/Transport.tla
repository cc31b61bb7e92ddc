----------------------------- MODULE Transport -----------------------------
(***************************************************************************)
(* Playing sounds from the window: who starts the next one, and when       *)
(* (ui/transport, ui_event_bridge.rs, commands/playback/mod.rs and the     *)
(* Play and StopAll commands of audio/player).                             *)
(*                                                                         *)
(*   - the GTK thread handles the user's input, the snapshots of the       *)
(*     engine and the answers of its workers, one at a time;               *)
(*   - each play is a job of a UI worker, which sends StopAll and then     *)
(*     Play to the engine and waits for the engine's answer;               *)
(*   - the engine's loop handles its commands in order;                    *)
(*   - a poller reads the engine's state and queues it for the GTK thread. *)
(*                                                                         *)
(* A play is named by the job that asked for it; which sound it plays      *)
(* makes no difference here, except to the debounce, where a second click  *)
(* on the same sound counts as the click it repeats.  Loop mode is a play  *)
(* that never finishes, in mode "Default".                                 *)
(***************************************************************************)
EXTENDS Naturals, Sequences, FiniteSets, SequencesExt

CONSTANTS
  MaxJobs,       \* bound on the plays dispatched
  MaxCommands,   \* bound on the queued engine commands at which Stop All waits
  MaxSnapshots,  \* bound on the snapshots queued for the GTK thread
  PlaysMayFail,  \* may a play fail or time out?
  RepeatedClicks,\* may a click be repeated before its debounce of 30 ms is over?
  QuickEnds      \* may a play end before the poller has seen it, in 100 ms?

ASSUME TransportAssumption ==
  /\ MaxJobs \in Nat /\ MaxCommands \in Nat /\ MaxSnapshots \in Nat
  /\ PlaysMayFail \in BOOLEAN /\ RepeatedClicks \in BOOLEAN /\ QuickEnds \in BOOLEAN

VARIABLES
  active,          \* state.active_playback of the engine
  commands,        \* the commands on their way to the engine's loop
  jobs,            \* the jobs of the UI workers
  snapshots,       \* snapshots queued for the GTK thread
  mode,            \* settings.play_mode
  activeTrack,     \* the play the transport bar shows
  cursor,          \* continue_cursor: the play Continue advances from
  suppressed,      \* continue_suppressed_play_id
  explicitPending, \* EXPLICIT_PLAY_PENDING
  advancePending,  \* continue_advance_pending
  recent,          \* is the last dispatch in play_dispatch_debounce < 30 ms old?
  unseen,          \* must the poller look before a play may end?
  stopped          \* history: Stop All pressed while activeTrack was shown, and
                   \* no Next or Previous since

engineVars == <<active, commands>>
flagVars == <<suppressed, explicitPending, advancePending>>
shownVars == <<activeTrack, cursor>>
vars == <<engineVars, jobs, snapshots, mode, shownVars, flagVars, recent,
          unseen, stopped>>

Plays == 1 .. MaxJobs
None == 0
MaybePlay == Plays \cup {None}
StopAll == 0  \* in commands; Play is the number of its job

Steps == {"free", "resolve", "play", "wait", "err", "done"}
Job == [step : Steps, why : {"explicit", "adjacent", "continue"}, after : MaybePlay]

InFlight(j) == jobs[j].step \in {"resolve", "play", "wait"}

TypeOK ==
  /\ active \in MaybePlay
  /\ commands \in Seq(MaybePlay)
  /\ jobs \in [Plays -> Job]
  /\ snapshots \in Seq(MaybePlay)
  /\ mode \in {"Default", "Continue"}
  /\ activeTrack \in MaybePlay
  /\ cursor = activeTrack
  /\ suppressed \in MaybePlay
  /\ explicitPending \in BOOLEAN
  /\ advancePending \in BOOLEAN
  /\ recent \in BOOLEAN
  /\ unseen \in BOOLEAN
  /\ stopped \in BOOLEAN

Init ==
  /\ active = None
  /\ commands = <<>>
  /\ jobs = [j \in Plays |-> [step |-> "free", why |-> "explicit", after |-> None]]
  /\ snapshots = <<>>
  /\ mode \in {"Default", "Continue"}
  /\ activeTrack = None
  /\ cursor = None
  /\ suppressed = None
  /\ explicitPending = FALSE
  /\ advancePending = FALSE
  /\ recent = FALSE
  /\ unseen = FALSE
  /\ stopped = FALSE

-----------------------------------------------------------------------------
(* Dispatching. *)

Free == {j \in Plays : jobs[j].step = "free"}

\* dispatch_async_result hands a play to the UI workers. Jobs are numbered in
\* the order they are dispatched.
Dispatch(why, after) ==
  LET j == CHOOSE i \in Free : \A k \in Free : i <= k
  IN  /\ Free # {}
      /\ jobs' = [jobs EXCEPT ![j] = [step |-> "resolve", why |-> why, after |-> after]]

\* A sound row is activated or a hotkey pressed: flagged, then dispatched.
ExplicitPlay ==
  /\ explicitPending' = TRUE
  /\ Dispatch("explicit", None)
  /\ recent' = RepeatedClicks
  /\ UNCHANGED <<engineVars, snapshots, mode, shownVars, suppressed,
                 advancePending, unseen, stopped>>

\* The same of a sound dispatched less than 30 ms ago: flagged, then dropped.
DebouncedPlay ==
  /\ recent
  /\ explicitPending' = TRUE
  /\ UNCHANGED <<engineVars, jobs, snapshots, mode, shownVars, suppressed,
                 advancePending, recent, unseen, stopped>>

DebounceExpires ==
  /\ recent
  /\ recent' = FALSE
  /\ UNCHANGED <<engineVars, jobs, snapshots, mode, shownVars, flagVars,
                 unseen, stopped>>

\* play_adjacent_sound: Next and Previous.
PlayAdjacent ==
  /\ suppressed' = None
  /\ stopped' = FALSE
  /\ commands' = Append(commands, StopAll)
  /\ Dispatch("adjacent", None)
  /\ UNCHANGED <<active, snapshots, mode, shownVars, explicitPending,
                 advancePending, recent, unseen>>

\* Fault: nothing is suppressed.
StopAllOnly ==
  /\ Len(commands) < MaxCommands
  /\ stopped' = (activeTrack # None)
  /\ commands' = Append(commands, StopAll)
  /\ UNCHANGED <<active, jobs, snapshots, mode, shownVars, flagVars, recent,
                 unseen>>

\* stop_all_playback
StopAllPlayback ==
  /\ Len(commands) < MaxCommands
  /\ suppressed' = activeTrack
  /\ stopped' = (activeTrack # None)
  /\ commands' = Append(commands, StopAll)
  /\ UNCHANGED <<active, jobs, snapshots, mode, shownVars, explicitPending,
                 advancePending, recent, unseen>>

SetPlayMode(m) ==
  /\ mode' = m
  /\ UNCHANGED <<engineVars, jobs, snapshots, shownVars, flagVars, recent,
                 unseen, stopped>>

-----------------------------------------------------------------------------
(* The GTK thread handles a snapshot or an answer. *)

StoppedStays == stopped' = (stopped /\ activeTrack' = activeTrack)

Snapshot(p) == snapshots # <<>> /\ Head(snapshots) = p /\ snapshots' = Tail(snapshots)

\* Fault: the cursor is left behind.
ResetTrackOnly ==
  /\ activeTrack' = None
  /\ advancePending' = FALSE
  /\ UNCHANGED cursor

\* reset_idle_playback_ui
ResetIdle ==
  /\ activeTrack' = None
  /\ cursor' = None
  /\ advancePending' = FALSE

\* should_continue_playback, of a list that has sounds.
ShouldContinue == cursor # None /\ mode = "Continue" /\ suppressed = None

\* Nothing plays and nothing will be started: the bar becomes idle.
ShowIdle ==
  /\ explicitPending' = FALSE
  /\ suppressed' = None
  /\ ResetIdle

\* continue_to_next_sound, when a job can be dispatched.
Continue ==
  /\ advancePending' = TRUE
  /\ commands' = Append(commands, StopAll)
  /\ Dispatch("continue", cursor)
  /\ UNCHANGED <<shownVars, suppressed, explicitPending>>

\* Its error path: the bound on the jobs takes the place of a failed dispatch.
ContinueFails ==
  /\ Free = {}
  /\ commands' = Append(commands, StopAll)
  /\ ShowIdle
  /\ UNCHANGED jobs

\* Fault: a continuation that is on its way is not looked at.
EmptyUnguarded ==
  /\ Snapshot(None)
  /\ IF ShouldContinue /\ ~explicitPending
       THEN Continue \/ ContinueFails
       ELSE IF ShouldContinue
              THEN UNCHANGED <<commands, jobs, shownVars, flagVars>>
              ELSE ShowIdle /\ UNCHANGED <<commands, jobs>>
  /\ StoppedStays
  /\ UNCHANGED <<active, mode, recent, unseen>>

\* handle_snapshot of a snapshot without a playback, or with finished ones
\* only. It shows idle in Continue mode too when the list has no sounds.
HandleEmpty ==
  /\ Snapshot(None)
  /\ \/ /\ ShouldContinue
        /\ explicitPending \/ advancePending
        /\ UNCHANGED <<commands, jobs, shownVars, flagVars>>
     \/ /\ ShouldContinue
        /\ ~explicitPending /\ ~advancePending
        /\ Continue \/ ContinueFails
     \/ /\ ShowIdle
        /\ UNCHANGED <<commands, jobs>>
  /\ StoppedStays
  /\ UNCHANGED <<active, mode, recent, unseen>>

\* Fault: a play that is shown does not count as the one waited for.
HandleActiveQuietly(p) ==
  /\ Snapshot(p)
  /\ suppressed' = IF suppressed = p THEN p ELSE None
  /\ activeTrack' = p
  /\ cursor' = p
  /\ StoppedStays
  /\ UNCHANGED <<engineVars, jobs, mode, explicitPending, advancePending,
                 recent, unseen>>

\* handle_snapshot of a snapshot with an active playback.
HandleActive(p) ==
  /\ Snapshot(p)
  /\ advancePending' = FALSE
  /\ explicitPending' = FALSE
  /\ suppressed' = IF suppressed = p THEN p ELSE None
  /\ activeTrack' = p
  /\ cursor' = p
  /\ StoppedStays
  /\ UNCHANGED <<engineVars, jobs, mode, recent, unseen>>

\* The on_complete of a job that failed; one that succeeded does nothing here.
HandleAnswer(j) ==
  /\ jobs[j].step = "err"
  /\ jobs' = [jobs EXCEPT ![j].step = "done"]
  /\ IF jobs[j].why = "continue"
       THEN ResetIdle
       ELSE UNCHANGED <<shownVars, advancePending>>
  /\ explicitPending' = (explicitPending /\ jobs[j].why # "explicit")
  /\ StoppedStays
  /\ UNCHANGED <<engineVars, snapshots, mode, suppressed, recent, unseen>>

-----------------------------------------------------------------------------
(* The UI workers. *)

Goto(j, step) == jobs' = [jobs EXCEPT ![j].step = step]

\* The sound is looked up, and everything that plays is stopped for it.
JobStops(j) ==
  /\ jobs[j].step = "resolve" /\ Goto(j, "play")
  /\ commands' = Append(commands, StopAll)
  /\ UNCHANGED <<active, snapshots, mode, shownVars, flagVars, recent, unseen, stopped>>

\* The sound is gone, disabled or its file is missing.
JobFails(j) ==
  /\ PlaysMayFail
  /\ jobs[j].step = "resolve" /\ Goto(j, "err")
  /\ UNCHANGED <<engineVars, snapshots, mode, shownVars, flagVars, recent, unseen, stopped>>

JobPlays(j) ==
  /\ jobs[j].step = "play" /\ Goto(j, "wait")
  /\ commands' = Append(commands, j)
  /\ UNCHANGED <<active, snapshots, mode, shownVars, flagVars, recent, unseen, stopped>>

\* The answer does not come in time; the command stays in the queue.
JobTimesOut(j) ==
  /\ PlaysMayFail
  /\ jobs[j].step = "wait" /\ Goto(j, "err")
  /\ UNCHANGED <<engineVars, snapshots, mode, shownVars, flagVars, recent, unseen, stopped>>

-----------------------------------------------------------------------------
(* The engine and its poller. *)

LoopStopAll ==
  /\ commands # <<>> /\ Head(commands) = StopAll
  /\ commands' = Tail(commands)
  /\ active' = None
  /\ UNCHANGED <<jobs, snapshots, mode, shownVars, flagVars, recent, unseen, stopped>>

\* Play answers a worker that still waits. A play that fails leaves whatever
\* is active alone.
LoopPlay(j) ==
  /\ commands # <<>> /\ Head(commands) = j
  /\ commands' = Tail(commands)
  /\ \/ /\ active' = j
        /\ unseen' = ~QuickEnds
        /\ IF jobs[j].step = "wait" THEN Goto(j, "done") ELSE UNCHANGED jobs
     \/ /\ PlaysMayFail
        /\ UNCHANGED <<active, unseen>>
        /\ IF jobs[j].step = "wait" THEN Goto(j, "err") ELSE UNCHANGED jobs
  /\ UNCHANGED <<snapshots, mode, shownVars, flagVars, recent, stopped>>

\* mix_tick moves a playback that has come to its end to the finished ones.
Finish ==
  /\ active # None
  /\ QuickEnds \/ ~unseen
  /\ active' = None
  /\ UNCHANGED <<commands, jobs, snapshots, mode, shownVars, flagVars, recent,
                 unseen, stopped>>

\* Fault: snapshots are handed over without an order.
PollToFront ==
  /\ Len(snapshots) < MaxSnapshots
  /\ snapshots' = <<active>> \o snapshots
  /\ unseen' = FALSE
  /\ UNCHANGED <<engineVars, jobs, mode, shownVars, flagVars, recent, stopped>>

\* The lsb-engine-snapshot-poll thread.
Poll ==
  /\ Len(snapshots) < MaxSnapshots
  /\ snapshots' = Append(snapshots, active)
  /\ unseen' = FALSE
  /\ UNCHANGED <<engineVars, jobs, mode, shownVars, flagVars, recent, stopped>>

-----------------------------------------------------------------------------
User ==
  \/ ExplicitPlay
  \/ DebouncedPlay
  \/ PlayAdjacent
  \/ StopAllPlayback
  \/ \E m \in {"Default", "Continue"} : SetPlayMode(m)

GtkThread ==
  \/ HandleEmpty
  \/ \E p \in Plays : HandleActive(p)

Worker(j) == JobStops(j) \/ JobFails(j) \/ JobPlays(j) \/ JobTimesOut(j) \/ HandleAnswer(j)

EngineLoop == LoopStopAll \/ \E j \in Plays : LoopPlay(j)

Next ==
  \/ User
  \/ GtkThread
  \/ \E j \in Plays : Worker(j)
  \/ EngineLoop
  \/ Finish
  \/ Poll
  \/ DebounceExpires

Spec == Init /\ [][Next]_vars

\* The threads run. Nobody has to click, and a sound need not end.
Fairness ==
  /\ WF_vars(GtkThread) /\ WF_vars(EngineLoop) /\ WF_vars(Poll)
  /\ \A j \in Plays : WF_vars(Worker(j))

FairSpec == Spec /\ Fairness

-----------------------------------------------------------------------------
(* Properties. *)

Advances == advancePending' /\ ~advancePending

\* A playback is continued at most once, however many snapshots report its
\* end, and also when clicks, failed plays and late answers come in between.
OneContinuationPerPlay ==
  \A j, k \in Plays :
    jobs[j].after # None /\ jobs[j].after = jobs[k].after => j = k

\* FEATURE_REFERENCE.md:180: a playback that was shown when Stop All was
\* pressed is not continued, whatever snapshots were still under way (Next and
\* Previous lift this).
StoppedIsNotContinued ==
  [][Advances => ~stopped]_vars

\* In Continue mode silence does not last: the next sound is started, or the
\* bar shows that nothing plays.
ContinueNeverStalls ==
  (mode = "Continue" /\ active = None /\ activeTrack # None)
    ~> (active # None \/ activeTrack = None \/ mode # "Continue")

\* CHANGELOG.md:242: "clicking a sound while Continue mode is active no longer
\* causes the app to advance to the next sound instead of replaying the clicked
\* one": no advance while a clicked play is on its way.
ClickIsNotOvertaken ==
  [][Advances => \A j \in Plays : jobs[j].why = "explicit" => ~InFlight(j)]_vars
=============================================================================
