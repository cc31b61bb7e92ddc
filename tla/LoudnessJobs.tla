----------------------------- MODULE LoudnessJobs -----------------------------
(***************************************************************************)
(* The two loudness jobs of the application: commands/playback/loudness.rs *)
(* under the coordinators of audio/analysis_worker.rs.                     *)
(*                                                                         *)
(* The backfill gives every sound a first loudness, by a preview or by a   *)
(* full analysis; the refinement analyses in full the sounds of which only *)
(* an estimate is known.  Each job runs once at a time, in a thread of its *)
(* own.  It is asked for when the application starts, after a change of    *)
(* the library, and by a button, which stops both jobs if one is running.  *)
(* The backfill asks for a refinement when it ends.                        *)
(*                                                                         *)
(* A loudness is known by its state alone; an estimate is "estimated" up   *)
(* to the confidence below which it is refined unasked, "confident" above. *)
(***************************************************************************)
EXTENDS Naturals, FiniteSets, FiniteSetsExt

CONSTANTS
  LjCount,      \* how many sounds there may be; a sound is its place in id order
  LjPageSize,   \* PAGE_SIZE and MAX_BATCH_ROWS
  LjRunLimit,   \* FAST_LUFS_REFINEMENT_MAX_SOUNDS_PER_RUN
  LjFlushRows,  \* LOUDNESS_PROGRESS_FLUSH_ROWS
  LjThreads,    \* threads of the backfill's pool
  LjMaxEvents,  \* bound: triggers by the application
  LjMaxChanges  \* bound: sounds added or analysed alone, clicks, requests that fail

ASSUME LoudnessAssumption ==
  /\ {LjPageSize, LjRunLimit, LjFlushRows, LjThreads} \subseteq Nat \ {0}
  /\ {LjCount, LjMaxEvents, LjMaxChanges} \subseteq Nat

LjSounds == 1 .. LjCount
LjJobs == {"backfill", "refinement"}
LjAskers == {"window", "worker", "backfill"}  \* threads that may start a job

VARIABLES
  ljLoudness,  \* sounds.loudness_state of each sound, "absent" without a row
  ljAutoGain,  \* settings.auto_gain
  ljInFlight,  \* MissingLoudnessAnalysisCoordinator.in_flight
  ljCancelled, \* MissingLoudnessAnalysisCoordinator.cancelled
  ljAsked,     \* of each asker: the job it is starting
  ljRun,       \* of each job: the run of its thread
  ljClick,     \* the jobs the clicked button has still to stop
  ljStopped,   \* history: the jobs that were running when they were stopped
  ljEvents, ljChanges

ljVars == <<ljLoudness, ljAutoGain, ljInFlight, ljCancelled, ljAsked, ljRun, ljClick, ljStopped,
            ljEvents, ljChanges>>

NoJob == [job |-> "none"]
NoRun == [step |-> "none", force |-> FALSE, gain |-> FALSE, after |-> 0, todo |-> {}, busy |-> {},
          updates |-> {}, taken |-> {}]

Missing == {s \in LjSounds : ljLoudness[s] = "pending"}
\* load_loudness_refinement_candidates, of which unforced ones are not paged.
Candidates(force) ==
  {s \in LjSounds : ljLoudness[s] \in {"estimated"} \cup (IF force THEN {"confident"} ELSE {})}

FirstOf(sounds, limit) == {s \in sounds : Cardinality({t \in sounds : t < s}) < limit}
After(sounds, cursor) == {s \in sounds : s > cursor}

\* The pages a run may be given next; an unforced refinement takes the sounds it
\* is least sure of.
NextPages(job, run) ==
  IF job = "backfill" THEN {FirstOf(After(Missing, run.after), LjPageSize)}
  ELSE IF run.force THEN {FirstOf(After(Candidates(TRUE), run.after), LjPageSize)}
  ELSE LET all == Candidates(FALSE)
       IN {p \in SUBSET all : Cardinality(p) = Min({LjRunLimit, Cardinality(all)})}
PagesOf(job, run) == NextPages(job, run)

LjInit ==
  /\ ljLoudness \in [LjSounds -> {"absent", "pending", "estimated"}]
  /\ ljAutoGain \in BOOLEAN
  /\ ljInFlight = [j \in LjJobs |-> FALSE]
  /\ ljCancelled = [j \in LjJobs |-> FALSE]
  /\ ljAsked = [a \in LjAskers |-> NoJob]
  /\ ljRun = [j \in LjJobs |-> NoRun]
  /\ ljClick = {} /\ ljStopped = {}
  /\ ljEvents = 0 /\ ljChanges = 0

(***************************************************************************)
(* Asking for a job and starting it.                                       *)
(***************************************************************************)

Asking(job, force) == [job |-> job, force |-> force, gain |-> ljAutoGain, claimed |-> FALSE]

\* maybe_trigger_estimated_loudness_refinement_with_store
RefinementAsked(gain, force) ==
  IF (force \/ gain) /\ Candidates(force) # {} /\ ~ljInFlight["refinement"]
  THEN Asking("refinement", force) ELSE NoJob

\* trigger_missing_loudness_analysis_with_store
BackfillAsked(force) ==
  IF ~force /\ ~ljAutoGain THEN NoJob
  ELSE IF Missing = {} THEN RefinementAsked(ljAutoGain, force)
  ELSE IF ljInFlight["backfill"] THEN NoJob
  ELSE Asking("backfill", force)

\* At startup and after changes of the library, on a worker.
AskUnforced ==
  /\ ljEvents < LjMaxEvents /\ ljAsked["worker"] = NoJob
  /\ ljEvents' = ljEvents + 1
  /\ ljAsked' = [ljAsked EXCEPT !["worker"] = BackfillAsked(FALSE)]
  /\ UNCHANGED <<ljLoudness, ljAutoGain, ljInFlight, ljCancelled, ljRun, ljClick, ljStopped, ljChanges>>

\* Either button of the settings: cancelled_running_analysis, or its own job.
Click ==
  /\ ljChanges < LjMaxChanges /\ ljAsked["window"] = NoJob /\ ljClick = {}
  /\ ljChanges' = ljChanges + 1
  /\ IF \E j \in LjJobs : ljInFlight[j]
     THEN ljClick' = LjJobs /\ UNCHANGED ljAsked
     ELSE /\ \E ask \in {BackfillAsked(TRUE), RefinementAsked(ljAutoGain, TRUE)} :
               ljAsked' = [ljAsked EXCEPT !["window"] = ask]
          /\ UNCHANGED ljClick
  /\ UNCHANGED <<ljLoudness, ljAutoGain, ljInFlight, ljCancelled, ljRun, ljStopped, ljEvents>>

\* cancel_loudness_analysis: the backfill first.
StopJob ==
  /\ ljClick # {}
  /\ LET job == IF "backfill" \in ljClick THEN "backfill" ELSE "refinement" IN
     /\ ljClick' = ljClick \ {job}
     /\ ljCancelled' = [ljCancelled EXCEPT ![job] = TRUE]
     /\ ljStopped' = IF ljRun[job] = NoRun THEN ljStopped ELSE ljStopped \cup {job}
  /\ UNCHANGED <<ljLoudness, ljAutoGain, ljInFlight, ljAsked, ljRun, ljEvents, ljChanges>>

\* try_start: compare_exchange of in_flight.
ClaimFirst(job) == UNCHANGED ljCancelled
\* Faulty variant: the flag is cleared before it is known whether the job runs.
ClearFirst(job) == ljCancelled' = [ljCancelled EXCEPT ![job] = FALSE]
BeforeClaim(job) == ClaimFirst(job)

Claim(a) ==
  LET ask == ljAsked[a] IN
  /\ ask # NoJob /\ ~ask.claimed
  /\ BeforeClaim(ask.job)
  /\ IF ljInFlight[ask.job]
     THEN ljAsked' = [ljAsked EXCEPT ![a] = NoJob] /\ UNCHANGED ljInFlight
     ELSE /\ ljInFlight' = [ljInFlight EXCEPT ![ask.job] = TRUE]
          /\ ljAsked' = [ljAsked EXCEPT ![a].claimed = TRUE]
  /\ UNCHANGED <<ljLoudness, ljAutoGain, ljRun, ljClick, ljStopped, ljEvents, ljChanges>>

\* The rest of try_start: the cancelled flag is cleared and the thread spawned,
\* which may fail.
Spawn(a) ==
  LET ask == ljAsked[a] IN
  /\ ask # NoJob /\ ask.claimed
  /\ ljAsked' = [ljAsked EXCEPT ![a] = NoJob]
  /\ ljCancelled' = [ljCancelled EXCEPT ![ask.job] = FALSE]
  /\ \/ /\ ljRun' = [ljRun EXCEPT ![ask.job] = [NoRun EXCEPT !.step = "fetch", !.force = ask.force,
                                                             !.gain = ask.gain]]
        /\ UNCHANGED <<ljInFlight, ljChanges>>
     \/ /\ ljChanges < LjMaxChanges
        /\ ljChanges' = ljChanges + 1
        /\ ljInFlight' = [ljInFlight EXCEPT ![ask.job] = FALSE]
        /\ UNCHANGED ljRun
  /\ UNCHANGED <<ljLoudness, ljAutoGain, ljClick, ljStopped, ljEvents>>

(***************************************************************************)
(* A run.                                                                  *)
(***************************************************************************)

RunStep(job, run) ==
  /\ ljRun' = [ljRun EXCEPT ![job] = run]
  /\ UNCHANGED <<ljAutoGain, ljInFlight, ljCancelled, ljAsked, ljClick, ljStopped, ljEvents>>

Left(job) == IF job = "backfill" THEN "tail" ELSE "end"

\* The cursor of the next page is the last sound of this one.
Fetch(job) ==
  LET run == ljRun[job] IN
  /\ run.step = "fetch"
  /\ \E page \in PagesOf(job, run) :
       IF page = {} THEN RunStep(job, [run EXCEPT !.step = Left(job)])
       ELSE \E last \in page :
              /\ \A s \in page : s <= last
              /\ RunStep(job, [run EXCEPT !.step = "page", !.after = last, !.todo = page])
  /\ UNCHANGED <<ljLoudness, ljChanges>>

\* A stopped backfill skips every sound that is left, a stopped refinement
\* leaves its page.
Take(job) ==
  LET run == ljRun[job] IN
  /\ run.step = "page"
  /\ job = "refinement" => Cardinality(run.updates) < LjFlushRows
  /\ \E s \in run.todo :
       IF ljCancelled[job]
       THEN RunStep(job, [run EXCEPT !.todo = IF job = "backfill" THEN @ \ {s} ELSE {}])
       ELSE /\ Cardinality(run.busy) < IF job = "backfill" THEN LjThreads ELSE 1
            /\ RunStep(job, [run EXCEPT !.todo = @ \ {s}, !.busy = @ \cup {s},
                                        !.taken = @ \cup {s}])
  /\ UNCHANGED <<ljLoudness, ljChanges>>

\* What an analysis comes to; of a backfill that cannot read the file, nothing.
\* A refinement that cannot, or is stopped, raises the confidence instead.
Outcomes(job) ==
  {"refined", "unavailable", "confident"} \cup (IF job = "backfill" THEN {"estimated", "unknown"} ELSE {})

Analysed(job) ==
  LET run == ljRun[job] IN
  /\ \E s \in run.busy, outcome \in Outcomes(job) :
       RunStep(job, [run EXCEPT !.busy = @ \ {s},
                                !.updates = @ \cup ({<<s, outcome>>} \ {<<s, "unknown">>})])
  /\ UNCHANGED <<ljLoudness, ljChanges>>

\* apply_loudness_updates
Updated(updates) ==
  [s \in LjSounds |-> IF \E u \in updates : u[1] = s
                      THEN (CHOOSE u \in updates : u[1] = s)[2] ELSE ljLoudness[s]]

\* A refinement writes what it has every few sounds.
Flush ==
  LET run == ljRun["refinement"] IN
  /\ Cardinality(run.updates) >= LjFlushRows
  /\ RunStep("refinement", [run EXCEPT !.updates = {}])
  /\ ljLoudness' = Updated(run.updates)
  /\ UNCHANGED ljChanges

PageDone(job) ==
  LET run == ljRun[job] IN
  /\ run.step = "page" /\ run.todo \cup run.busy = {}
  /\ job = "refinement" => Cardinality(run.updates) < LjFlushRows
  /\ RunStep(job, [run EXCEPT !.updates = {},
                     !.step = IF ljCancelled[job] \/ (job = "refinement" /\ ~run.force)
                              THEN Left(job) ELSE "fetch"])
  /\ ljLoudness' = Updated(run.updates)
  /\ UNCHANGED ljChanges

\* A page cannot be read or updates cannot be written: the run gives up.
RequestFails(job) ==
  /\ ljChanges < LjMaxChanges
  /\ \/ ljRun[job].step = "fetch"
     \/ ljRun[job].step = "page" /\ ljRun[job].todo \cup ljRun[job].busy = {} /\ ljRun[job].updates # {}
  /\ ljChanges' = ljChanges + 1
  /\ RunStep(job, [ljRun[job] EXCEPT !.step = "end", !.updates = {}])
  /\ UNCHANGED ljLoudness

\* The end of analyze_all_loudness_with_store, stopped or not.
BackfillTail ==
  LET run == ljRun["backfill"] IN
  /\ run.step = "tail"
  /\ ljRun' = [ljRun EXCEPT !["backfill"].step = "end"]
  /\ ljAsked' = [ljAsked EXCEPT !["backfill"] = RefinementAsked(run.gain, FALSE)]
  /\ UNCHANGED <<ljLoudness, ljAutoGain, ljInFlight, ljCancelled, ljClick, ljStopped, ljEvents, ljChanges>>

EndRun(job) ==
  /\ ljRun[job].step = "end" /\ (job = "backfill" => ljAsked["backfill"] = NoJob)
  /\ ljRun' = [ljRun EXCEPT ![job] = NoRun]
  /\ ljInFlight' = [ljInFlight EXCEPT ![job] = FALSE]
  /\ ljStopped' = ljStopped \ {job}
  /\ UNCHANGED <<ljLoudness, ljAutoGain, ljCancelled, ljAsked, ljClick, ljEvents, ljChanges>>

(***************************************************************************)
(* Others.                                                                 *)
(***************************************************************************)

LjOther ==
  /\ ljChanges < LjMaxChanges
  /\ ljChanges' = ljChanges + 1
  /\ UNCHANGED <<ljInFlight, ljCancelled, ljAsked, ljRun, ljClick, ljStopped, ljEvents>>

SoundAdded ==
  /\ LjOther /\ UNCHANGED ljAutoGain
  /\ \E s \in LjSounds : ljLoudness[s] = "absent" /\ ljLoudness' = [ljLoudness EXCEPT ![s] = "pending"]

\* analyze_sound_loudness_with_store_async writes its result.
AnalysedAlone ==
  /\ LjOther /\ UNCHANGED ljAutoGain
  /\ \E s \in LjSounds, outcome \in {"refined", "unavailable"} :
       ljLoudness[s] # "absent" /\ ljLoudness' = [ljLoudness EXCEPT ![s] = outcome]

ToggleAutoGain == LjOther /\ ljAutoGain' = ~ljAutoGain /\ UNCHANGED ljLoudness

LjNext ==
  \/ AskUnforced \/ Click \/ StopJob
  \/ \E a \in LjAskers : Claim(a) \/ Spawn(a)
  \/ \E job \in LjJobs : Fetch(job) \/ Take(job) \/ Analysed(job) \/ PageDone(job) \/ RequestFails(job) \/ EndRun(job)
  \/ Flush \/ BackfillTail
  \/ SoundAdded \/ AnalysedAlone \/ ToggleAutoGain

LjSpec == LjInit /\ [][LjNext]_ljVars

(***************************************************************************)
(* Properties.                                                             *)
(***************************************************************************)

LoudnessTypeOK ==
  /\ ljLoudness \in [LjSounds -> {"absent", "pending", "estimated", "confident", "refined", "unavailable"}]
  /\ ljAutoGain \in BOOLEAN
  /\ ljInFlight \in [LjJobs -> BOOLEAN] /\ ljCancelled \in [LjJobs -> BOOLEAN]
  /\ \A j \in LjJobs :
       /\ ljRun[j].step \in {"none", "fetch", "page", "tail", "end"}
       /\ ljRun[j].after \in 0 .. LjCount
       /\ {ljRun[j].todo, ljRun[j].busy, ljRun[j].taken} \subseteq SUBSET LjSounds
       /\ ljRun[j].updates \subseteq LjSounds \X Outcomes(j)
  /\ ljClick \subseteq LjJobs
  /\ ljStopped \subseteq {j \in LjJobs : ljRun[j] # NoRun}

\* A run ends and the Stop button stops it: however its analyses fail and
\* whatever is added meanwhile, it takes no sound a second time; when it was
\* running as it was told to stop it takes none at all, whoever asks for the
\* job again.
RunsComeToAnEnd ==
  [][/\ \A j \in LjJobs : (ljRun'[j].busy \ ljRun[j].busy) \cap ljRun[j].taken = {}
     /\ \A j \in ljStopped : ljRun'[j].taken \subseteq ljRun[j].taken]_ljVars
===============================================================================
