---------------------------- MODULE WindowProofs ----------------------------
(***************************************************************************)
(* What the window shows: the play it goes on from, the sound that follows *)
(* in its list, the tabs and folders of its sidebar, the pages of its list *)
(* of sounds.                                                              *)
(***************************************************************************)
EXTENDS Transport, SidebarTabs, SidebarTree, AdjacentPlay, PagedList, FiniteSetTheorems,
        SequenceTheorems, WellFoundedInduction, TLAPS

-----------------------------------------------------------------------------
(***************************************************************************)
(* Transport.                                                              *)
(*                                                                         *)
(* Types, the suppression of Continue and that a play is continued once,   *)
(* for any number of plays and any queue lengths.                          *)
(***************************************************************************)

\* A dispatch adds a well-typed job, whichever number it takes.
LEMMA DispatchType ==
  ASSUME TypeOK, NEW why \in {"explicit", "adjacent", "continue"},
         NEW after \in MaybePlay, Dispatch(why, after)
  PROVE  jobs' \in [Plays -> Job]
<1>1. [step |-> "resolve", why |-> why, after |-> after] \in Job
  BY DEF Job, Steps
<1> QED BY <1>1 DEF Dispatch, TypeOK

\* A job moves along its steps only.
LEMMA GotoType ==
  ASSUME TypeOK, NEW j \in Plays, NEW step \in Steps, Goto(j, step)
  PROVE  jobs' \in [Plays -> Job]
<1>1. [jobs[j] EXCEPT !.step = step] \in Job
  BY DEF TypeOK, Job
<1> QED BY <1>1 DEF Goto, TypeOK

\* Every variable of the transport keeps its type; the cursor and the track
\* the bar shows always belong to the same play.
THEOREM TypeInvariant == Spec => []TypeOK
<1> USE TransportAssumption
<1>1. ASSUME Init PROVE TypeOK
  <2>1. [step |-> "free", why |-> "explicit", after |-> None] \in Job
    BY DEF Job, Steps, MaybePlay
  <2>2. jobs \in [Plays -> Job]
    BY <1>1, <2>1 DEF Init
  <2>3. None \in MaybePlay
    BY DEF MaybePlay
  <2>4. <<>> \in Seq(MaybePlay)
    OBVIOUS
  <2> QED BY <1>1, <2>2, <2>3, <2>4 DEF Init, TypeOK
<1>2. TypeOK /\ [Next]_vars => TypeOK'
  <2> SUFFICES ASSUME TypeOK, [Next]_vars PROVE TypeOK'
    OBVIOUS
  <2>0. StopAll \in MaybePlay /\ None \in MaybePlay /\ Plays \subseteq MaybePlay
    BY DEF StopAll, None, MaybePlay
  <2>s. Append(commands, StopAll) \in Seq(MaybePlay)
    BY <2>0 DEF TypeOK
  <2> USE DEF engineVars, shownVars, flagVars
  <2>1. ASSUME ExplicitPlay PROVE TypeOK'
    BY <2>1, <2>0, DispatchType DEF ExplicitPlay, TypeOK
  <2>2. ASSUME DebouncedPlay \/ DebounceExpires PROVE TypeOK'
    BY <2>2 DEF DebouncedPlay, DebounceExpires, TypeOK
  <2>3. ASSUME PlayAdjacent PROVE TypeOK'
    BY <2>3, <2>0, <2>s, DispatchType DEF PlayAdjacent, TypeOK
  <2>4. ASSUME StopAllPlayback PROVE TypeOK'
    BY <2>4, <2>s DEF StopAllPlayback, TypeOK
  <2>5. ASSUME NEW m \in {"Default", "Continue"}, SetPlayMode(m) PROVE TypeOK'
    BY <2>5 DEF SetPlayMode, TypeOK
  <2>6. ASSUME HandleEmpty PROVE TypeOK'
    <3>1. snapshots' \in Seq(MaybePlay) /\ stopped' \in BOOLEAN
      BY <2>6 DEF HandleEmpty, Snapshot, StoppedStays, TypeOK
    <3>2. CASE UNCHANGED <<commands, jobs, shownVars, flagVars>>
      BY <2>6, <3>1, <3>2 DEF HandleEmpty, TypeOK
    <3>3. CASE Continue
      <4>1. jobs' \in [Plays -> Job]
        BY <3>3, DispatchType DEF Continue, TypeOK
      <4> QED BY <2>6, <3>1, <3>3, <4>1, <2>s DEF HandleEmpty, Continue, TypeOK
    <3>4. CASE ContinueFails
      BY <2>6, <3>1, <3>4, <2>0, <2>s
      DEF HandleEmpty, ContinueFails, ShowIdle, ResetIdle, TypeOK
    <3>5. CASE ShowIdle /\ UNCHANGED <<commands, jobs>>
      BY <2>6, <3>1, <3>5, <2>0 DEF HandleEmpty, ShowIdle, ResetIdle, TypeOK
    <3> QED BY <2>6, <3>2, <3>3, <3>4, <3>5 DEF HandleEmpty
  <2>7. ASSUME NEW p \in Plays, HandleActive(p) PROVE TypeOK'
    <3>1. snapshots' \in Seq(MaybePlay) /\ stopped' \in BOOLEAN
      BY <2>7 DEF HandleActive, Snapshot, StoppedStays, TypeOK
    <3> QED BY <2>7, <3>1, <2>0 DEF HandleActive, TypeOK
  <2>8. ASSUME NEW j \in Plays, JobStops(j) PROVE TypeOK'
    <3>1. jobs' \in [Plays -> Job]
      BY <2>8, GotoType DEF JobStops, Steps
    <3> QED BY <2>8, <3>1, <2>s DEF JobStops, TypeOK
  <2>9. ASSUME NEW j \in Plays, JobFails(j) \/ JobTimesOut(j) PROVE TypeOK'
    <3>1. jobs' \in [Plays -> Job]
      BY <2>9, GotoType DEF JobFails, JobTimesOut, Steps
    <3> QED BY <2>9, <3>1 DEF JobFails, JobTimesOut, TypeOK
  <2>10. ASSUME NEW j \in Plays, JobPlays(j) PROVE TypeOK'
    <3>1. jobs' \in [Plays -> Job]
      BY <2>10, GotoType DEF JobPlays, Steps
    <3>2. commands' \in Seq(MaybePlay)
      BY <2>10, <2>0 DEF JobPlays, TypeOK
    <3> QED BY <2>10, <3>1, <3>2 DEF JobPlays, TypeOK
  <2>11. ASSUME NEW j \in Plays, HandleAnswer(j) PROVE TypeOK'
    <3>1. jobs' \in [Plays -> Job]
      BY <2>11, GotoType DEF HandleAnswer, Goto, Steps
    <3>2. stopped' \in BOOLEAN
      BY <2>11 DEF HandleAnswer, StoppedStays
    <3>3. explicitPending' \in BOOLEAN
      BY <2>11 DEF HandleAnswer
    <3> QED BY <2>11, <3>1, <3>2, <3>3, <2>0 DEF HandleAnswer, ResetIdle, TypeOK
  <2>12. ASSUME LoopStopAll PROVE TypeOK'
    BY <2>12, <2>0 DEF LoopStopAll, TypeOK
  <2>13. ASSUME NEW j \in Plays, LoopPlay(j) PROVE TypeOK'
    <3>1. jobs' \in [Plays -> Job]
      BY <2>13, GotoType DEF LoopPlay, Steps, TypeOK
    <3>2. commands' \in Seq(MaybePlay)
      BY <2>13 DEF LoopPlay, TypeOK
    <3>3. active' \in MaybePlay /\ unseen' \in BOOLEAN
      BY <2>13, <2>0 DEF LoopPlay, TypeOK
    <3> QED BY <2>13, <3>1, <3>2, <3>3 DEF LoopPlay, TypeOK
  <2>14. ASSUME Finish PROVE TypeOK'
    BY <2>14, <2>0 DEF Finish, TypeOK
  <2>15. ASSUME Poll PROVE TypeOK'
    <3>1. Append(snapshots, active) \in Seq(MaybePlay)
      BY DEF TypeOK
    <3> QED BY <2>15, <3>1 DEF Poll, TypeOK
  <2>16. CASE UNCHANGED vars
    BY <2>16 DEF vars, TypeOK
  <2>17. CASE User
    BY <2>1, <2>2, <2>3, <2>4, <2>5, <2>17 DEF User
  <2>18. CASE GtkThread
    BY <2>6, <2>7, <2>18 DEF GtkThread
  <2>19. ASSUME NEW j \in Plays, Worker(j) PROVE TypeOK'
    BY <2>8, <2>9, <2>10, <2>11, <2>19 DEF Worker
  <2>20. CASE EngineLoop
    BY <2>12, <2>13, <2>20 DEF EngineLoop
  <2> QED BY <2>2, <2>14, <2>15, <2>16, <2>17, <2>18, <2>19, <2>20 DEF Next
<1> QED BY <1>1, <1>2, PTL DEF Spec

\* As long as the play shown at a Stop All is still shown, it is the suppressed
\* one: only another play, an idle bar, or Next and Previous lift it.
SuppressedInv == stopped => activeTrack # None /\ suppressed = activeTrack


\* Every step keeps it.
LEMMA SuppressedStep == TypeOK /\ SuppressedInv /\ [Next]_vars => SuppressedInv'
<1> SUFFICES ASSUME TypeOK, SuppressedInv, [Next]_vars PROVE SuppressedInv'
  OBVIOUS
<1> USE DEF SuppressedInv, shownVars, flagVars
<1>1. ASSUME UNCHANGED <<activeTrack, suppressed, stopped>> PROVE SuppressedInv'
  BY <1>1
<1>2. CASE PlayAdjacent \/ StopAllPlayback
  BY <1>2 DEF PlayAdjacent, StopAllPlayback
<1>3. CASE HandleEmpty
  <2>1. CASE Continue \/ UNCHANGED <<commands, jobs, shownVars, flagVars>>
    BY <1>3, <2>1 DEF HandleEmpty, Continue, StoppedStays
  <2>2. CASE ShowIdle
    BY <1>3, <2>2 DEF HandleEmpty, ShowIdle, ResetIdle, StoppedStays
  <2> QED BY <1>3, <2>1, <2>2 DEF HandleEmpty, ContinueFails
<1>4. ASSUME NEW p \in Plays, HandleActive(p) PROVE SuppressedInv'
  BY <1>4 DEF HandleActive, StoppedStays
<1>5. ASSUME NEW j \in Plays, HandleAnswer(j) PROVE SuppressedInv'
  <2>1. suppressed' = suppressed /\ (activeTrack' = None \/ activeTrack' = activeTrack)
    BY <1>5 DEF HandleAnswer, ResetIdle
  <2>2. stopped' = (stopped /\ activeTrack' = activeTrack)
    BY <1>5 DEF HandleAnswer, StoppedStays
  <2> QED BY <2>1, <2>2
<1>6. ASSUME ExplicitPlay \/ DebouncedPlay \/ DebounceExpires \/ Finish \/ Poll
             \/ LoopStopAll \/ (\E m \in {"Default", "Continue"} : SetPlayMode(m))
             \/ (\E j \in Plays : LoopPlay(j) \/ JobStops(j) \/ JobFails(j)
                                    \/ JobPlays(j) \/ JobTimesOut(j))
      PROVE  UNCHANGED <<activeTrack, suppressed, stopped>>
  BY <1>6 DEF ExplicitPlay, DebouncedPlay, DebounceExpires, Finish, Poll, LoopStopAll,
              SetPlayMode, LoopPlay, JobStops, JobFails, JobPlays, JobTimesOut
<1>7. CASE UNCHANGED vars
  BY <1>7 DEF vars
<1> QED BY <1>1, <1>2, <1>3, <1>4, <1>5, <1>6, <1>7
        DEF Next, User, GtkThread, Worker, EngineLoop

\* Continue advances only from the handler of an empty snapshot, and there only
\* when nothing is suppressed.
LEMMA AdvanceGuard == TypeOK /\ [Next]_vars /\ Advances => suppressed = None
<1> SUFFICES ASSUME TypeOK, [Next]_vars, Advances PROVE suppressed = None
  OBVIOUS
<1> USE DEF Advances, shownVars, flagVars
<1>1. CASE HandleEmpty
  BY <1>1 DEF HandleEmpty, ShouldContinue, ShowIdle, ResetIdle
<1>2. ASSUME NEW p \in Plays, HandleActive(p) PROVE FALSE
  BY <1>2 DEF HandleActive
<1>3. ASSUME NEW j \in Plays, HandleAnswer(j) PROVE FALSE
  BY <1>3 DEF HandleAnswer, ResetIdle
<1>4. ASSUME User \/ Finish \/ Poll \/ DebounceExpires \/ EngineLoop
             \/ (\E j \in Plays : JobStops(j) \/ JobFails(j) \/ JobPlays(j) \/ JobTimesOut(j))
      PROVE  FALSE
  BY <1>4 DEF User, ExplicitPlay, DebouncedPlay, PlayAdjacent, StopAllPlayback,
              SetPlayMode, DebounceExpires, Finish, Poll, EngineLoop, LoopStopAll,
              LoopPlay, JobStops, JobFails, JobPlays, JobTimesOut
<1>5. CASE UNCHANGED vars
  BY <1>5 DEF vars
<1> QED BY <1>1, <1>2, <1>3, <1>4, <1>5 DEF Next, GtkThread, Worker

\* Whatever snapshots, answers and clicks are under way, Continue does not go
\* on from a playback that was shown when Stop All was pressed.
THEOREM StopSuppressesContinue == Spec => StoppedIsNotContinued
<1>1. Init => SuppressedInv
  BY DEF Init, SuppressedInv
<1>2. TypeOK /\ SuppressedInv /\ [Next]_vars => [Advances => ~stopped]_vars
  BY AdvanceGuard DEF SuppressedInv
<1> QED BY <1>1, <1>2, TypeInvariant, SuppressedStep, PTL DEF Spec, StoppedIsNotContinued

-----------------------------------------------------------------------------
(* A play goes from its job to the commands, from there to the engine, and   *)
(* then through the snapshots to the window.  It does so once: what has been *)
(* seen to be over does not come again.                                      *)

Unsent == {"free", "resolve", "play"}

\* The engine has played p, as far as anybody can still tell.
HasPlayed(p) == p \in {active, activeTrack} \/ \E i \in DOMAIN snapshots : snapshots[i] = p

CommandsAreSentOnce ==
  /\ \A i \in DOMAIN commands : commands[i] # StopAll => jobs[commands[i]].step \notin Unsent
  /\ \A i, k \in DOMAIN commands : commands[i] # StopAll /\ commands[i] = commands[k] => i = k

PlayedWasSent ==
  \A p \in Plays : HasPlayed(p) =>
    /\ jobs[p].step \notin Unsent
    /\ \A i \in DOMAIN commands : commands[i] # p

\* A snapshot that does not show p any more is not followed by one that does.
GoneIsGone ==
  \A p \in Plays, k \in DOMAIN snapshots :
    /\ snapshots[k] # p
    /\ activeTrack = p \/ \E i \in DOMAIN snapshots : i < k /\ snapshots[i] = p
    => active # p /\ \A m \in DOMAIN snapshots : k < m => snapshots[m] # p

\* A play that has gone all the way, but for the bar.
IsOver(p) ==
  /\ jobs[p].step \notin Unsent /\ p # active
  /\ \A i \in DOMAIN snapshots : snapshots[i] # p
  /\ \A i \in DOMAIN commands : commands[i] # p

\* What Continue has gone on from is over; while the bar still shows it, the
\* next play is known to be on its way.
ContinuedIsOver ==
  \A j, p \in Plays : jobs[j].after = p => IsOver(p) /\ (p = activeTrack => advancePending)

ContinueInv ==
  /\ TypeOK /\ CommandsAreSentOnce /\ PlayedWasSent /\ GoneIsGone /\ ContinuedIsOver
  /\ OneContinuationPerPlay

\* A set of numbers has a least one, so that a dispatch takes a free job.
LEMMA LeastExists ==
  ASSUME NEW S \in SUBSET Nat, S # {}
  PROVE  \E m \in S : \A n \in S : m <= n
<1> DEFINE Below == {ss \in Nat \X Nat : ss[1] < ss[2]}
<1>1. IsWellFoundedOn(Below, Nat)
  BY NatLessThanWellFounded DEF OpToRel
<1>2. \A n, m \in Nat : n < m => <<n, m>> \in Below
  OBVIOUS
<1> HIDE DEF Below
<1>3. PICK m \in S : \A n \in S : ~(<<n, m>> \in Below)
  BY <1>1, WFMin
<1>4. \A n \in S : ~(n < m)
  BY <1>2, <1>3
<1> QED BY <1>4

LEMMA DispatchIs ==
  ASSUME TypeOK, NEW why, NEW after, Dispatch(why, after)
  PROVE  \E j \in Plays : /\ jobs[j].step = "free"
                          /\ jobs' = [jobs EXCEPT ![j] = [step |-> "resolve", why |-> why, after |-> after]]
<1>1. Free # {} /\ Free \in SUBSET Nat
  BY TransportAssumption DEF Dispatch, Free, Plays
<1>2. \E j \in Free : \A l \in Free : j <= l
  BY <1>1, LeastExists
<1> DEFINE j == CHOOSE i \in Free : \A k \in Free : i <= k
<1>3. j \in Free
  BY <1>2
<1>4. jobs' = [jobs EXCEPT ![j] = [step |-> "resolve", why |-> why, after |-> after]]
  BY DEF Dispatch
<1> HIDE DEF j
<1> QED BY <1>3, <1>4 DEF Free

\* Nothing new is played, shown or sent: of the snapshots and the commands one
\* may be taken ("d", "e"), Stop Alls may be added.
Onward(d, e) ==
  /\ active' \in {active, None} /\ activeTrack' \in {activeTrack, None}
  /\ Len(snapshots') = Len(snapshots) - d
  /\ \A k \in DOMAIN snapshots' : k + d \in DOMAIN snapshots /\ snapshots'[k] = snapshots[k + d]
  /\ \A i \in DOMAIN commands' : commands'[i] # StopAll =>
       i + e \in DOMAIN commands /\ commands'[i] = commands[i + e]
  /\ \A p \in Plays : jobs'[p].step \in Unsent => jobs[p].step \in Unsent

LEMMA PlaysGoOn ==
  ASSUME ContinueInv, TypeOK', NEW d \in {0, 1}, NEW e \in {0, 1}, Onward(d, e)
  PROVE  CommandsAreSentOnce' /\ PlayedWasSent' /\ GoneIsGone'
<1> USE DEF ContinueInv, Onward
<1>0. /\ \A p \in Plays : p \in Nat /\ p # None /\ p # StopAll
      /\ \A i \in DOMAIN commands' : commands'[i] # StopAll => commands'[i] \in Plays
      /\ DOMAIN snapshots = 1 .. Len(snapshots) /\ DOMAIN snapshots' = 1 .. Len(snapshots')
      /\ Len(snapshots) \in Nat /\ Len(snapshots') \in Nat
      /\ DOMAIN commands \subseteq Nat /\ DOMAIN commands' \subseteq Nat
  BY TransportAssumption DEF Plays, None, StopAll, MaybePlay, TypeOK
<1>1. CommandsAreSentOnce'
  <2>1. ASSUME NEW i \in DOMAIN commands', commands'[i] # StopAll PROVE jobs'[commands'[i]].step \notin Unsent
    BY <1>0, <2>1 DEF CommandsAreSentOnce
  <2>2. ASSUME NEW i \in DOMAIN commands', NEW k \in DOMAIN commands', commands'[i] # StopAll, commands'[i] = commands'[k]
        PROVE i = k
    <3>1. i + e = k + e
      BY <2>2 DEF CommandsAreSentOnce
    <3> QED BY <1>0, <3>1
  <2> QED BY <2>1, <2>2 DEF CommandsAreSentOnce
<1>2. PlayedWasSent'
  <2>1. ASSUME NEW p \in Plays, HasPlayed(p)' PROVE HasPlayed(p)
    <3>1. CASE p \in {active', activeTrack'}
      BY <1>0, <3>1 DEF HasPlayed
    <3>2. CASE \E i \in DOMAIN snapshots' : snapshots'[i] = p
      BY <3>2 DEF HasPlayed
    <3> QED BY <2>1, <3>1, <3>2 DEF HasPlayed
  <2> QED BY <1>0, <2>1 DEF PlayedWasSent
<1>3. GoneIsGone'
  <2> SUFFICES ASSUME NEW p \in Plays, NEW k \in DOMAIN snapshots', snapshots'[k] # p,
                      activeTrack' = p \/ \E i \in DOMAIN snapshots' : i < k /\ snapshots'[i] = p
               PROVE  active' # p /\ \A m \in DOMAIN snapshots' : k < m => snapshots'[m] # p
    BY DEF GoneIsGone
  <2>1. k + d \in DOMAIN snapshots /\ snapshots[k + d] # p
    OBVIOUS
  <2>2. activeTrack = p \/ \E i \in DOMAIN snapshots : i < k + d /\ snapshots[i] = p
    <3>1. CASE activeTrack' = p
      BY <1>0, <3>1
    <3>2. ASSUME NEW i \in DOMAIN snapshots', i < k, snapshots'[i] = p
          PROVE  i + d \in DOMAIN snapshots /\ i + d < k + d /\ snapshots[i + d] = p
      BY <1>0, <3>2
    <3> QED BY <3>1, <3>2
  <2>3. active # p /\ \A m \in DOMAIN snapshots : k + d < m => snapshots[m] # p
    BY <2>1, <2>2 DEF GoneIsGone
  <2>4. ASSUME NEW m \in DOMAIN snapshots', k < m PROVE snapshots'[m] # p
    BY <1>0, <2>3, <2>4
  <2> QED BY <1>0, <2>3, <2>4
<1> QED BY <1>1, <1>2, <1>3

LEMMA OverStays ==
  ASSUME ContinueInv, NEW d \in {0, 1}, NEW e \in {0, 1}, Onward(d, e), NEW p \in Plays, IsOver(p)
  PROVE  IsOver(p)'
<1>1. p # None /\ p # StopAll
  BY TransportAssumption DEF Plays, None, StopAll
<1> QED BY <1>1 DEF IsOver, Onward

\* A step that moves on and continues nothing.
LEMMA MovesOn ==
  ASSUME ContinueInv, TypeOK', NEW d \in {0, 1}, NEW e \in {0, 1}, Onward(d, e),
         \A p \in Plays : jobs'[p].after \in {jobs[p].after, None},
         activeTrack' # None => (advancePending => advancePending')
  PROVE  ContinueInv'
<1>1. CommandsAreSentOnce' /\ PlayedWasSent' /\ GoneIsGone'
  BY PlaysGoOn
<1>2. \A p \in Plays : p # None
  BY TransportAssumption DEF Plays, None
<1>3. ContinuedIsOver'
  <2> SUFFICES ASSUME NEW j \in Plays, NEW p \in Plays, jobs'[j].after = p
               PROVE  IsOver(p)' /\ (p = activeTrack' => advancePending')
    BY DEF ContinuedIsOver
  <2>1. jobs[j].after = p
    BY <1>2
  <2>2. IsOver(p) /\ (p = activeTrack => advancePending)
    BY <2>1 DEF ContinueInv, ContinuedIsOver
  <2>3. IsOver(p)'
    BY <2>2, OverStays
  <2> QED BY <1>2, <2>2, <2>3 DEF Onward
<1>4. OneContinuationPerPlay'
  BY DEF ContinueInv, OneContinuationPerPlay
<1> QED BY <1>1, <1>3, <1>4 DEF ContinueInv

\* How the queues move.
LEMMA QueuesMove ==
  ASSUME TypeOK
  PROVE  /\ snapshots' = snapshots =>
              /\ Len(snapshots') = Len(snapshots) - 0
              /\ \A k \in DOMAIN snapshots' : k + 0 \in DOMAIN snapshots /\ snapshots'[k] = snapshots[k + 0]
         /\ (snapshots # <<>> /\ snapshots' = Tail(snapshots)) =>
              /\ Len(snapshots') = Len(snapshots) - 1
              /\ \A k \in DOMAIN snapshots' : k + 1 \in DOMAIN snapshots /\ snapshots'[k] = snapshots[k + 1]
         /\ (commands' = commands \/ commands' = Append(commands, StopAll)) =>
              \A i \in DOMAIN commands' : commands'[i] # StopAll =>
                i + 0 \in DOMAIN commands /\ commands'[i] = commands[i + 0]
         /\ (commands # <<>> /\ commands' = Tail(commands)) =>
              \A i \in DOMAIN commands' : commands'[i] # StopAll =>
                i + 1 \in DOMAIN commands /\ commands'[i] = commands[i + 1]
<1>1. snapshots \in Seq(MaybePlay) /\ commands \in Seq(MaybePlay) /\ StopAll \in MaybePlay
  BY DEF TypeOK, MaybePlay, StopAll, None
<1>2. ASSUME snapshots' = snapshots
      PROVE  /\ Len(snapshots') = Len(snapshots) - 0
             /\ \A k \in DOMAIN snapshots' : k + 0 \in DOMAIN snapshots /\ snapshots'[k] = snapshots[k + 0]
  BY <1>1, <1>2
<1>3. ASSUME snapshots # <<>>, snapshots' = Tail(snapshots)
      PROVE  /\ Len(snapshots') = Len(snapshots) - 1
             /\ \A k \in DOMAIN snapshots' : k + 1 \in DOMAIN snapshots /\ snapshots'[k] = snapshots[k + 1]
  BY <1>1, <1>3
<1>4. ASSUME commands' = commands \/ commands' = Append(commands, StopAll)
      PROVE  \A i \in DOMAIN commands' : commands'[i] # StopAll =>
                i + 0 \in DOMAIN commands /\ commands'[i] = commands[i + 0]
  BY <1>1, <1>4
<1>5. ASSUME commands # <<>>, commands' = Tail(commands)
      PROVE  \A i \in DOMAIN commands' : commands'[i] # StopAll =>
                i + 1 \in DOMAIN commands /\ commands'[i] = commands[i + 1]
  BY <1>1, <1>5
<1> QED BY <1>2, <1>3, <1>4, <1>5

\* A job that is dispatched, or goes to a place it does not send a play from.
LEMMA DispatchMoves ==
  ASSUME TypeOK, NEW why, Dispatch(why, None)
  PROVE  \A p \in Plays : /\ jobs'[p].step \in Unsent => jobs[p].step \in Unsent
                          /\ jobs'[p].after \in {jobs[p].after, None}
<1>1. PICK j \in Plays : /\ jobs[j].step = "free"
                         /\ jobs' = [jobs EXCEPT ![j] = [step |-> "resolve", why |-> why, after |-> None]]
  BY DispatchIs
<1> QED BY <1>1 DEF TypeOK, Unsent

LEMMA GotoMoves ==
  ASSUME TypeOK, NEW j \in Plays, NEW step, Goto(j, step), step \notin Unsent \/ jobs[j].step \in Unsent
  PROVE  \A p \in Plays : /\ jobs'[p].step \in Unsent => jobs[p].step \in Unsent
                          /\ jobs'[p].after = jobs[p].after
BY DEF Goto, TypeOK, Job

LEMMA UserContinue == ASSUME ContinueInv, TypeOK', User PROVE ContinueInv'
<1> USE DEF shownVars, flagVars, engineVars
<1>0. TypeOK
  BY DEF ContinueInv
<1>1. CASE ExplicitPlay \/ PlayAdjacent
  <2>1. \A p \in Plays : /\ jobs'[p].step \in Unsent => jobs[p].step \in Unsent
                         /\ jobs'[p].after \in {jobs[p].after, None}
    BY <1>0, <1>1, DispatchMoves DEF ExplicitPlay, PlayAdjacent
  <2>2. /\ UNCHANGED <<active, activeTrack, snapshots, advancePending>>
        /\ commands' = commands \/ commands' = Append(commands, StopAll)
    BY <1>1 DEF ExplicitPlay, PlayAdjacent
  <2>3. Onward(0, 0)
    BY <1>0, <2>1, <2>2, QueuesMove DEF Onward
  <2> QED BY <2>1, <2>2, <2>3, MovesOn
<1>2. CASE DebouncedPlay \/ StopAllPlayback \/ (\E m \in {"Default", "Continue"} : SetPlayMode(m))
  <2>1. /\ UNCHANGED <<active, activeTrack, snapshots, jobs, advancePending>>
        /\ commands' = commands \/ commands' = Append(commands, StopAll)
    BY <1>2 DEF DebouncedPlay, StopAllPlayback, SetPlayMode
  <2>2. Onward(0, 0)
    BY <1>0, <2>1, QueuesMove DEF Onward
  <2> QED BY <2>1, <2>2, MovesOn
<1> QED BY <1>1, <1>2 DEF User

\* The play of the cursor has ended, as the empty snapshot says, and is continued
\* for the first time.
LEMMA ContinueOnce ==
  ASSUME ContinueInv, TypeOK', Snapshot(None), ShouldContinue, ~advancePending, Continue, active' = active
  PROVE  ContinueInv'
<1> USE DEF shownVars
<1>0. TypeOK /\ cursor = activeTrack /\ activeTrack \in Plays
  BY DEF ContinueInv, TypeOK, ShouldContinue, MaybePlay
<1>1. PICK j \in Plays : /\ jobs[j].step = "free"
                         /\ jobs' = [jobs EXCEPT ![j] = [step |-> "resolve", why |-> "continue", after |-> cursor]]
  BY <1>0, DispatchIs DEF Continue
<1>2. Len(snapshots) \in Nat /\ 1 \in DOMAIN snapshots /\ DOMAIN snapshots = 1 .. Len(snapshots)
      /\ snapshots[1] = None /\ snapshots' = Tail(snapshots) /\ snapshots # <<>>
  BY <1>0 DEF TypeOK, Snapshot
<1>3. jobs'[j].after = activeTrack /\ jobs'[j].step = "resolve"
      /\ \A k \in Plays \ {j} : jobs'[k] = jobs[k]
  BY <1>0, <1>1 DEF TypeOK
<1>4. \A p \in Plays : jobs'[p].step \in Unsent => jobs[p].step \in Unsent
  BY <1>1, <1>3 DEF Unsent
<1>5. Onward(1, 0)
  BY <1>0, <1>2, <1>4, QueuesMove DEF Onward, Continue
<1>6. CommandsAreSentOnce' /\ PlayedWasSent' /\ GoneIsGone'
  BY <1>5, PlaysGoOn
<1>7. IsOver(activeTrack)
  <2>1. jobs[activeTrack].step \notin Unsent /\ \A i \in DOMAIN commands : commands[i] # activeTrack
    BY <1>0 DEF ContinueInv, PlayedWasSent, HasPlayed
  <2>2. activeTrack # None
    BY DEF ShouldContinue, ContinueInv, TypeOK
  <2>3. active # activeTrack /\ \A m \in DOMAIN snapshots : 1 < m => snapshots[m] # activeTrack
    BY <1>0, <1>2, <2>2 DEF ContinueInv, GoneIsGone
  <2>4. \A m \in DOMAIN snapshots : snapshots[m] # activeTrack
    BY <1>2, <2>2, <2>3
  <2> QED BY <2>1, <2>3, <2>4 DEF IsOver
<1>8. \A k \in Plays : jobs[k].after # activeTrack
  BY <1>0 DEF ContinueInv, ContinuedIsOver
<1>9. ContinuedIsOver'
  <2> SUFFICES ASSUME NEW k \in Plays, NEW p \in Plays, jobs'[k].after = p
               PROVE  IsOver(p)' /\ (p = activeTrack' => advancePending')
    BY DEF ContinuedIsOver
  <2>1. IsOver(p)
    <3>1. CASE k = j
      BY <1>3, <1>7, <3>1
    <3>2. CASE k # j
      BY <1>3, <3>2 DEF ContinueInv, ContinuedIsOver
    <3> QED BY <3>1, <3>2
  <2> QED BY <1>5, <2>1, OverStays DEF Continue
<1>10. OneContinuationPerPlay'
  BY <1>3, <1>8 DEF ContinueInv, OneContinuationPerPlay
<1> QED BY <1>6, <1>9, <1>10 DEF ContinueInv

LEMMA EmptyContinue == ASSUME ContinueInv, TypeOK', HandleEmpty PROVE ContinueInv'
<1> USE DEF shownVars, flagVars
<1>0. TypeOK /\ Snapshot(None) /\ active' = active
  BY DEF ContinueInv, HandleEmpty
<1>1. ASSUME activeTrack' \in {activeTrack, None}, UNCHANGED jobs,
             commands' = commands \/ commands' = Append(commands, StopAll),
             activeTrack' # None => (advancePending => advancePending')
      PROVE  ContinueInv'
  <2>1. Onward(1, 0)
    BY <1>0, <1>1, QueuesMove DEF Onward, Snapshot
  <2> QED BY <1>1, <2>1, MovesOn
<1>2. CASE ShouldContinue /\ ~advancePending /\ Continue
  BY <1>0, <1>2, ContinueOnce
<1>3. CASE UNCHANGED <<commands, jobs, shownVars, flagVars>>
  BY <1>1, <1>3
<1>4. CASE ContinueFails \/ (ShowIdle /\ UNCHANGED <<commands, jobs>>)
  BY <1>1, <1>4 DEF ContinueFails, ShowIdle, ResetIdle
<1> QED BY <1>2, <1>3, <1>4 DEF HandleEmpty

\* What the bar shows next has come before anything that is still in the queue.
LEMMA ActiveContinue == ASSUME ContinueInv, TypeOK', NEW p \in Plays, HandleActive(p) PROVE ContinueInv'
<1>0. /\ snapshots # <<>> /\ snapshots[1] = p /\ snapshots' = Tail(snapshots) /\ activeTrack' = p
      /\ UNCHANGED <<active, commands, jobs>>
  BY DEF HandleActive, Snapshot, engineVars, ContinueInv, TypeOK
<1>1. /\ DOMAIN snapshots = 1 .. Len(snapshots) /\ DOMAIN snapshots' = 1 .. Len(snapshots')
      /\ Len(snapshots) \in Nat /\ Len(snapshots') \in Nat /\ 1 \in DOMAIN snapshots
      /\ \A k \in DOMAIN snapshots' : k + 1 \in DOMAIN snapshots /\ snapshots'[k] = snapshots[k + 1]
      /\ \A q \in Plays : q # None
  BY <1>0, QueuesMove, TransportAssumption DEF ContinueInv, TypeOK, Plays, None
<1>2. CommandsAreSentOnce'
  BY <1>0 DEF ContinueInv, CommandsAreSentOnce
<1>3. PlayedWasSent'
  <2>1. ASSUME NEW q \in Plays, HasPlayed(q)' PROVE HasPlayed(q)
    BY <1>0, <1>1, <2>1 DEF HasPlayed
  <2> QED BY <1>0, <2>1 DEF ContinueInv, PlayedWasSent
<1>4. GoneIsGone'
  <2> SUFFICES ASSUME NEW q \in Plays, NEW k \in DOMAIN snapshots', snapshots'[k] # q,
                      activeTrack' = q \/ \E i \in DOMAIN snapshots' : i < k /\ snapshots'[i] = q
               PROVE  active' # q /\ \A m \in DOMAIN snapshots' : k < m => snapshots'[m] # q
    BY DEF GoneIsGone
  <2>1. k + 1 \in DOMAIN snapshots /\ snapshots[k + 1] # q
    BY <1>1
  <2>2. \E i \in DOMAIN snapshots : i < k + 1 /\ snapshots[i] = q
    <3>1. CASE q = p
      BY <1>0, <1>1, <3>1
    <3>2. ASSUME NEW i \in DOMAIN snapshots', i < k, snapshots'[i] = q
          PROVE  i + 1 \in DOMAIN snapshots /\ i + 1 < k + 1 /\ snapshots[i + 1] = q
      BY <1>1, <3>2
    <3> QED BY <1>0, <3>1, <3>2
  <2>3. active # q /\ \A m \in DOMAIN snapshots : k + 1 < m => snapshots[m] # q
    BY <2>1, <2>2 DEF ContinueInv, GoneIsGone
  <2>4. ASSUME NEW m \in DOMAIN snapshots', k < m PROVE snapshots'[m] # q
    BY <1>1, <2>3, <2>4
  <2> QED BY <1>0, <2>3, <2>4
<1>5. ContinuedIsOver'
  <2> SUFFICES ASSUME NEW j \in Plays, NEW q \in Plays, jobs'[j].after = q PROVE IsOver(q)' /\ q # activeTrack'
    BY DEF ContinuedIsOver
  <2>1. IsOver(q)
    BY <1>0 DEF ContinueInv, ContinuedIsOver
  <2> QED BY <1>0, <1>1, <2>1 DEF IsOver
<1>6. OneContinuationPerPlay'
  BY <1>0 DEF ContinueInv, OneContinuationPerPlay
<1> QED BY <1>2, <1>3, <1>4, <1>5, <1>6 DEF ContinueInv

LEMMA WorkerContinue == ASSUME ContinueInv, TypeOK', NEW j \in Plays, Worker(j) PROVE ContinueInv'
<1> USE DEF shownVars, flagVars, engineVars
<1>0. TypeOK
  BY DEF ContinueInv
<1>1. CASE JobStops(j) \/ JobFails(j) \/ JobTimesOut(j)
  <2>1. \A p \in Plays : /\ jobs'[p].step \in Unsent => jobs[p].step \in Unsent
                         /\ jobs'[p].after = jobs[p].after
    BY <1>0, <1>1, GotoMoves DEF JobStops, JobFails, JobTimesOut, Unsent
  <2>2. /\ UNCHANGED <<active, activeTrack, snapshots, advancePending>>
        /\ commands' = commands \/ commands' = Append(commands, StopAll)
    BY <1>1 DEF JobStops, JobFails, JobTimesOut
  <2>3. Onward(0, 0)
    BY <1>0, <2>1, <2>2, QueuesMove DEF Onward
  <2> QED BY <2>1, <2>2, <2>3, MovesOn
<1>2. CASE HandleAnswer(j)
  <2>1. \A p \in Plays : /\ jobs'[p].step \in Unsent => jobs[p].step \in Unsent
                         /\ jobs'[p].after = jobs[p].after
    BY <1>0, <1>2, GotoMoves DEF HandleAnswer, Goto, Unsent
  <2>2. /\ UNCHANGED <<active, snapshots, commands>> /\ activeTrack' \in {activeTrack, None}
        /\ activeTrack' # None => (advancePending => advancePending')
    BY <1>2 DEF HandleAnswer, ResetIdle
  <2>3. Onward(0, 0)
    BY <1>0, <2>1, <2>2, QueuesMove DEF Onward
  <2> QED BY <2>1, <2>2, <2>3, MovesOn
<1>3. CASE JobPlays(j)
  <2>1. /\ commands' = Append(commands, j) /\ jobs[j].step \in Unsent /\ jobs'[j].step \notin Unsent
        /\ jobs'[j].after = jobs[j].after /\ \A p \in Plays \ {j} : jobs'[p] = jobs[p]
        /\ UNCHANGED <<active, activeTrack, snapshots, advancePending>>
    BY <1>0, <1>3 DEF JobPlays, Goto, TypeOK, Job, Unsent
  <2>2. /\ Len(commands) \in Nat /\ DOMAIN commands = 1 .. Len(commands)
        /\ DOMAIN commands' = 1 .. Len(commands) + 1 /\ commands'[Len(commands) + 1] = j
        /\ \A i \in DOMAIN commands : commands'[i] = commands[i]
        /\ j \in MaybePlay
        /\ \A i \in DOMAIN commands : commands[i] # StopAll => commands[i] \in Plays
    BY <1>0, <2>1 DEF TypeOK, MaybePlay, StopAll, None
  <2>3. \A i \in DOMAIN commands : commands[i] # j
    BY <2>1, TransportAssumption DEF ContinueInv, CommandsAreSentOnce, Plays, StopAll
  <2>4. ~HasPlayed(j) /\ \A k \in Plays : jobs[k].after # j
    BY <2>1 DEF ContinueInv, PlayedWasSent, ContinuedIsOver, IsOver
  <2>5. CommandsAreSentOnce'
    <3>1. ASSUME NEW i \in DOMAIN commands', commands'[i] # StopAll PROVE jobs'[commands'[i]].step \notin Unsent
      BY <2>1, <2>2, <2>3, <3>1 DEF ContinueInv, CommandsAreSentOnce
    <3>2. ASSUME NEW i \in DOMAIN commands', NEW k \in DOMAIN commands', commands'[i] # StopAll, commands'[i] = commands'[k]
          PROVE i = k
      BY <2>2, <2>3, <3>2 DEF ContinueInv, CommandsAreSentOnce
    <3> QED BY <3>1, <3>2 DEF CommandsAreSentOnce
  <2>6. PlayedWasSent'
    <3>1. ASSUME NEW p \in Plays, HasPlayed(p)' PROVE p # j /\ HasPlayed(p)
      BY <2>1, <2>4, <3>1 DEF HasPlayed
    <3> QED BY <2>1, <2>2, <3>1 DEF ContinueInv, PlayedWasSent
  <2>7. GoneIsGone'
    BY <2>1 DEF ContinueInv, GoneIsGone
  <2>8. ContinuedIsOver'
    <3> SUFFICES ASSUME NEW k \in Plays, NEW p \in Plays, jobs'[k].after = p
                 PROVE  IsOver(p)' /\ (p = activeTrack' => advancePending')
      BY DEF ContinuedIsOver
    <3>1. jobs[k].after = p /\ p # j
      BY <2>1, <2>4
    <3>2. IsOver(p) /\ (p = activeTrack => advancePending)
      BY <3>1 DEF ContinueInv, ContinuedIsOver
    <3> QED BY <2>1, <2>2, <3>1, <3>2 DEF IsOver
  <2>9. OneContinuationPerPlay'
    BY <2>1 DEF ContinueInv, OneContinuationPerPlay
  <2> QED BY <2>5, <2>6, <2>7, <2>8, <2>9 DEF ContinueInv
<1> QED BY <1>1, <1>2, <1>3 DEF Worker

LEMMA EngineContinue == ASSUME ContinueInv, TypeOK', EngineLoop \/ Finish PROVE ContinueInv'
<1> USE DEF shownVars, flagVars, engineVars
<1>0. TypeOK
  BY DEF ContinueInv
<1>1. CASE Finish
  <2>1. UNCHANGED <<activeTrack, snapshots, jobs, commands, advancePending>> /\ active' = None
    BY <1>1 DEF Finish
  <2>2. Onward(0, 0)
    BY <1>0, <2>1, QueuesMove DEF Onward
  <2> QED BY <2>1, <2>2, MovesOn
<1>2. CASE LoopStopAll
  <2>1. UNCHANGED <<activeTrack, snapshots, jobs, advancePending>> /\ active' = None
        /\ commands # <<>> /\ commands' = Tail(commands)
    BY <1>2 DEF LoopStopAll
  <2>2. Onward(0, 1)
    BY <1>0, <2>1, QueuesMove DEF Onward
  <2> QED BY <2>1, <2>2, MovesOn
<1>3. ASSUME NEW j \in Plays, LoopPlay(j) PROVE ContinueInv'
  <2>1. \A p \in Plays : /\ jobs'[p].step \in Unsent => jobs[p].step \in Unsent
                         /\ jobs'[p].after = jobs[p].after
    BY <1>0, <1>3, GotoMoves DEF LoopPlay, Unsent
  <2>2. /\ UNCHANGED <<activeTrack, snapshots, advancePending>> /\ active' \in {active, j}
        /\ commands # <<>> /\ commands' = Tail(commands) /\ commands[1] = j
    BY <1>0, <1>3 DEF LoopPlay, TypeOK
  <2>3. CASE active' = active
    <3>1. Onward(0, 1)
      BY <1>0, <2>1, <2>2, <2>3, QueuesMove DEF Onward
    <3> QED BY <2>1, <2>2, <3>1, MovesOn
  <2>4. CASE active' = j
    <3>1. /\ Len(commands) \in Nat /\ DOMAIN commands = 1 .. Len(commands) /\ 1 \in DOMAIN commands
          /\ DOMAIN commands' = 1 .. Len(commands) - 1
          /\ \A i \in DOMAIN commands' : i \in Nat /\ i + 1 # 1 /\ i + 1 \in DOMAIN commands
                                         /\ commands'[i] = commands[i + 1]
          /\ j # StopAll
      BY <1>0, <2>2, TransportAssumption DEF TypeOK, Plays, StopAll
    <3>2. ~HasPlayed(j) /\ (\A k \in Plays : jobs[k].after # j) /\ jobs[j].step \notin Unsent
      BY <2>2, <3>1 DEF ContinueInv, CommandsAreSentOnce, PlayedWasSent, ContinuedIsOver, IsOver
    <3>3. \A i \in DOMAIN commands' : commands'[i] # j
      BY <2>2, <3>1 DEF ContinueInv, CommandsAreSentOnce
    <3>4. CommandsAreSentOnce'
      <4>0. \A i \in DOMAIN commands : commands[i] # StopAll => commands[i] \in Plays
        BY <1>0 DEF TypeOK, MaybePlay, StopAll, None
      <4>1. ASSUME NEW i \in DOMAIN commands', commands'[i] # StopAll PROVE jobs'[commands'[i]].step \notin Unsent
        BY <2>1, <3>1, <4>0, <4>1 DEF ContinueInv, CommandsAreSentOnce
      <4>2. ASSUME NEW i \in DOMAIN commands', NEW k \in DOMAIN commands', commands'[i] # StopAll, commands'[i] = commands'[k]
            PROVE i = k
        <5>1. i + 1 = k + 1
          BY <3>1, <4>2 DEF ContinueInv, CommandsAreSentOnce
        <5> QED BY <3>1, <5>1
      <4> QED BY <4>1, <4>2 DEF CommandsAreSentOnce
    <3>5. PlayedWasSent'
      <4>1. ASSUME NEW p \in Plays, HasPlayed(p)' PROVE p = j \/ HasPlayed(p)
        BY <2>2, <2>4, <4>1 DEF HasPlayed
      <4> QED BY <2>1, <3>1, <3>2, <3>3, <4>1 DEF ContinueInv, PlayedWasSent
    <3>6. GoneIsGone'
      BY <2>2, <2>4, <3>2 DEF ContinueInv, GoneIsGone, HasPlayed
    <3>7. ContinuedIsOver'
      <4> SUFFICES ASSUME NEW k \in Plays, NEW p \in Plays, jobs'[k].after = p
                   PROVE  IsOver(p)' /\ (p = activeTrack' => advancePending')
        BY DEF ContinuedIsOver
      <4>1. jobs[k].after = p /\ p # j
        BY <2>1, <3>2
      <4>2. IsOver(p) /\ (p = activeTrack => advancePending)
        BY <4>1 DEF ContinueInv, ContinuedIsOver
      <4> QED BY <2>1, <2>2, <2>4, <3>1, <4>1, <4>2 DEF IsOver
    <3>8. OneContinuationPerPlay'
      BY <2>1 DEF ContinueInv, OneContinuationPerPlay
    <3> QED BY <3>4, <3>5, <3>6, <3>7, <3>8 DEF ContinueInv
  <2> QED BY <2>2, <2>3, <2>4
<1> QED BY <1>1, <1>2, <1>3 DEF EngineLoop

LEMMA PollContinue == ASSUME ContinueInv, TypeOK', Poll PROVE ContinueInv'
<1>0. snapshots' = Append(snapshots, active) /\ UNCHANGED <<active, commands, activeTrack, jobs, advancePending>>
  BY DEF Poll, engineVars, shownVars, flagVars
<1>1. /\ Len(snapshots) \in Nat /\ DOMAIN snapshots = 1 .. Len(snapshots)
      /\ DOMAIN snapshots' = 1 .. Len(snapshots) + 1 /\ snapshots'[Len(snapshots) + 1] = active
      /\ \A k \in DOMAIN snapshots : snapshots'[k] = snapshots[k]
  BY <1>0 DEF ContinueInv, TypeOK
<1>2. CommandsAreSentOnce' /\ OneContinuationPerPlay'
  BY <1>0 DEF ContinueInv, CommandsAreSentOnce, OneContinuationPerPlay
<1>3. PlayedWasSent'
  <2>1. ASSUME NEW p \in Plays, HasPlayed(p)' PROVE HasPlayed(p)
    BY <1>0, <1>1, <2>1 DEF HasPlayed
  <2> QED BY <1>0, <2>1 DEF ContinueInv, PlayedWasSent
<1>4. GoneIsGone'
  <2> SUFFICES ASSUME NEW p \in Plays, NEW k \in DOMAIN snapshots', snapshots'[k] # p,
                      activeTrack' = p \/ \E i \in DOMAIN snapshots' : i < k /\ snapshots'[i] = p
               PROVE  active' # p /\ \A m \in DOMAIN snapshots' : k < m => snapshots'[m] # p
    BY DEF GoneIsGone
  <2>1. CASE k \in DOMAIN snapshots
    <3>1. activeTrack = p \/ \E i \in DOMAIN snapshots : i < k /\ snapshots[i] = p
      BY <1>0, <1>1, <2>1
    <3>2. active # p /\ \A m \in DOMAIN snapshots : k < m => snapshots[m] # p
      BY <1>1, <2>1, <3>1 DEF ContinueInv, GoneIsGone
    <3> QED BY <1>0, <1>1, <3>2
  <2>2. CASE k = Len(snapshots) + 1
    BY <1>0, <1>1, <2>2
  <2> QED BY <1>1, <2>1, <2>2
<1>5. ContinuedIsOver'
  <2> SUFFICES ASSUME NEW j \in Plays, NEW p \in Plays, jobs'[j].after = p
               PROVE  IsOver(p)' /\ (p = activeTrack' => advancePending')
    BY DEF ContinuedIsOver
  <2>1. IsOver(p) /\ (p = activeTrack => advancePending)
    BY <1>0 DEF ContinueInv, ContinuedIsOver
  <2> QED BY <1>0, <1>1, <2>1 DEF IsOver
<1> QED BY <1>2, <1>3, <1>4, <1>5 DEF ContinueInv

\* However many snapshots say that a playback is over, and whatever clicks, failed
\* plays and late answers come in between, it is continued once.
THEOREM ContinuesOnce == Spec => []OneContinuationPerPlay
<1>1. Init /\ TypeOK => ContinueInv
  BY DEF Init, ContinueInv, CommandsAreSentOnce, PlayedWasSent, GoneIsGone, ContinuedIsOver,
         OneContinuationPerPlay, HasPlayed, Plays, None
<1>2. ContinueInv /\ TypeOK' /\ [Next]_vars => ContinueInv'
  <2> SUFFICES ASSUME ContinueInv, TypeOK', [Next]_vars PROVE ContinueInv'
    OBVIOUS
  <2>1. CASE DebounceExpires \/ UNCHANGED vars
    <3>1. UNCHANGED <<active, commands, jobs, snapshots, activeTrack, advancePending>>
      BY <2>1 DEF DebounceExpires, vars, engineVars, shownVars, flagVars
    <3>2. Onward(0, 0)
      BY <3>1, QueuesMove DEF Onward, ContinueInv
    <3> QED BY <3>1, <3>2, MovesOn
  <2>2. CASE User
    BY <2>2, UserContinue
  <2>3. CASE GtkThread
    BY <2>3, EmptyContinue, ActiveContinue DEF GtkThread
  <2>4. ASSUME NEW j \in Plays, Worker(j) PROVE ContinueInv'
    BY <2>4, WorkerContinue
  <2>5. CASE EngineLoop \/ Finish
    BY <2>5, EngineContinue
  <2>6. CASE Poll
    BY <2>6, PollContinue
  <2> QED BY <2>1, <2>2, <2>3, <2>4, <2>5, <2>6 DEF Next
<1>3. ContinueInv => OneContinuationPerPlay
  BY DEF ContinueInv
<1> QED BY <1>1, <1>2, <1>3, TypeInvariant, PTL DEF Spec

-----------------------------------------------------------------------------
(***************************************************************************)
(* SidebarTabs.                                                            *)
(*                                                                         *)
(* What is under way to a quiet list: the news of commands, the reloads    *)
(* that they bring, and how far a reload has come.                         *)
(***************************************************************************)

TabRecs == [id : Nat, place : Nat, content : Nat]
TabRows == Seq(TabRecs)
TabKinds == {"create", "rename", "delete", "add", "remove", "drop"}
TabTasks == [kind : TabKinds \cup {"none"}, tab : Int, from : Int, step : {"find", "write"}, place : Nat]
TabLoads == [generation : Nat, page : Nat, state : {"asked", "answered", "failed"}, tabs : TabRows, more : BOOLEAN, target : Int]

\* What the main loop will not reload the list for.
Silent(a) ==
  \/ a.kind = "delete" /\ a.outcome # "done"
  \/ a.kind = "drop" /\ a.outcome = "same"
Told == tbNews = 0 /\ tbOwed = <<>> /\ \A a \in tbAnswers : Silent(a)

PageEnd(page) == IF page * TbPageSize < Len(tbStored) THEN page * TbPageSize ELSE Len(tbStored)

\* A reload that goes on has listed the pages before its own.
ListedSoFar(l) ==
  /\ Len(tbListed) = (l.page - 1) * TbPageSize /\ Len(tbListed) <= Len(tbStored)
  /\ tbListed = SubSeq(tbStored, 1, Len(tbListed))
  /\ l.state = "answered" =>
       /\ l.tabs = SubSeq(tbStored, Len(tbListed) + 1, PageEnd(l.page))
       /\ l.more = (l.page * TbPageSize < Len(tbStored))
Loading(l) ==
  /\ l.page = 0 => tbRows = <<>> /\ tbListed = <<>> /\ l.state = "asked"
  /\ l.page # 0 => tbRows = <<GeneralRow>> \o tbListed
  /\ Told /\ l.page # 0 => ListedSoFar(l)
Settled ==
  /\ tbRows = <<GeneralRow>> \o tbListed
  /\ Told /\ ~tbPartial => tbListed = tbStored
  /\ tbOwed = <<>> =>
       /\ tbShown = tbActive
       /\ IF tbActive = Folder THEN tbSelected = NoTab ELSE tbSelected = tbActive /\ tbActive \in IdsIn(tbRows)

TabTypes ==
  /\ tbStored \in TabRows /\ tbListed \in TabRows
  /\ tbIds \in Nat /\ tbTask \in TabTasks /\ (tbTask.kind = "rename" => tbTask.tab \in Nat)
  /\ \A a \in tbAnswers : a.tab \in Int
  /\ tbNews \in Nat /\ tbOwed \in Seq(Int) /\ tbGeneration \in Nat /\ tbActive \in Int
  /\ tbLoads \subseteq TabLoads
  /\ \A l \in tbLoads : l.generation <= tbGeneration
  /\ \A k, l \in tbLoads : k.generation = tbGeneration /\ l.generation = tbGeneration => k = l
TabsInv ==
  /\ TabTypes
  /\ \A l \in tbLoads : l.generation = tbGeneration => Loading(l)
  /\ (\A l \in tbLoads : l.generation # tbGeneration) => Settled

LEMMA TouchedIs ==
  ASSUME tbStored \in TabRows, NEW tabs
  PROVE Touched(tabs) \in TabRows /\ (tabs \cap IdsIn(tbStored) = {} => Touched(tabs) = tbStored)
<1>1. Len(tbStored) \in Nat /\ DOMAIN tbStored = 1..Len(tbStored) /\ \A i \in DOMAIN tbStored : tbStored[i] \in TabRecs
  BY LenProperties, ElementOfSeq DEF TabRows
<1>2. ASSUME NEW row \in TabRecs PROVE [row EXCEPT !.content = @ + 1] \in TabRecs
  BY DEF TabRecs
<1>3. Touched(tabs) \in [1..Len(tbStored) -> TabRecs]
  BY <1>1, <1>2 DEF Touched
<1>4. Touched(tabs) \in TabRows
  BY <1>1, <1>3, IsASeq DEF TabRows
<1>5. ASSUME tabs \cap IdsIn(tbStored) = {} PROVE Touched(tabs) = tbStored
  <2>1. \A i \in DOMAIN tbStored : tbStored[i].id \notin tabs
    BY <1>5 DEF IdsIn
  <2>2. Touched(tabs) = [i \in DOMAIN tbStored |-> tbStored[i]]
    BY <2>1 DEF Touched
  <2> QED BY <1>1, <2>2 DEF TabRows
<1> QED BY <1>4, <1>5

LEMMA InsertedIs ==
  ASSUME tbStored \in TabRows, NEW tab \in TabRecs
  PROVE Inserted(tab) \in TabRows
<1> DEFINE before == {i \in DOMAIN tbStored : tbStored[i].place <= tab.place}
           at == Cardinality(before) + 1
<1>1. Len(tbStored) \in Nat /\ DOMAIN tbStored = 1..Len(tbStored)
  BY LenProperties DEF TabRows
<1>2. IsFiniteSet(1..Len(tbStored)) /\ Cardinality(1..Len(tbStored)) = Len(tbStored)
  <2> DEFINE last == Len(tbStored)
  <2>1. last \in Nat /\ 1 \in Int
    BY <1>1
  <2> HIDE DEF last
  <2>2. IsFiniteSet(1..last) /\ Cardinality(1..last) = IF 1 > last THEN 0 ELSE last - 1 + 1
    BY <2>1, FS_Interval
  <2>3. IsFiniteSet(1..last) /\ Cardinality(1..last) = last
    BY <2>1, <2>2
  <2> QED BY <2>3 DEF last
<1>3. Cardinality(before) \in Nat /\ Cardinality(before) <= Len(tbStored)
  BY <1>1, <1>2, FS_Subset, FS_CardinalityType
<1>4. Inserted(tab) = SubSeq(tbStored, 1, at - 1) \o <<tab>> \o SubSeq(tbStored, at, Len(tbStored))
  BY DEF Inserted, InsertAt
<1> HIDE DEF before
<1>5. at \in 1..Len(tbStored) + 1
  BY <1>1, <1>3
<1> HIDE DEF at
<1>6. SubSeq(tbStored, 1, at - 1) \in TabRows /\ SubSeq(tbStored, at, Len(tbStored)) \in TabRows /\ <<tab>> \in TabRows
  BY <1>1, <1>5 DEF TabRows
<1> QED BY <1>4, <1>6, ConcatProperties DEF TabRows

LEMMA RemovedIs ==
  ASSUME tbStored \in TabRows, NEW i \in DOMAIN tbStored
  PROVE RemoveAt(tbStored, i) \in TabRows
<1>1. Len(tbStored) \in Nat /\ i \in 1..Len(tbStored)
  BY LenProperties DEF TabRows
<1>2. SubSeq(tbStored, 1, i - 1) \in TabRows /\ SubSeq(tbStored, i + 1, Len(tbStored)) \in TabRows
  BY <1>1 DEF TabRows
<1> QED BY <1>2, ConcatProperties DEF RemoveAt, TabRows

\* A step of the others: the list stays as it is, and what they change is told.
OthersStep ==
  /\ UNCHANGED <<tbOwed, tbList, tbChoice>>
  /\ tbStored' \in TabRows /\ tbIds' \in Nat /\ tbNews' \in Nat
  /\ tbTask' \in TabTasks /\ (tbTask'.kind = "rename" => tbTask'.tab \in Nat)
  /\ \A a \in tbAnswers' : a.tab \in Int
  /\ Told' => Told /\ tbStored' = tbStored

LEMMA WorkerEndsIs ==
  ASSUME TabTypes, NEW outcome, NEW tab \in Int, WorkerEnds(outcome, tab)
  PROVE /\ tbTask' \in TabTasks /\ (tbTask'.kind = "rename" => tbTask'.tab \in Nat)
        /\ tbAnswers \subseteq tbAnswers' /\ \A a \in tbAnswers' : a.tab \in Int
        /\ \E a \in tbAnswers' : a.kind = tbTask.kind /\ a.outcome = outcome
<1> DEFINE answer == [kind |-> tbTask.kind, tab |-> tab, outcome |-> outcome, event |-> tbEvents]
<1>1. tbAnswers' = tbAnswers \cup {answer}
  BY DEF WorkerEnds
<1>2. answer.tab = tab /\ answer.kind = tbTask.kind /\ answer.outcome = outcome
  OBVIOUS
<1> HIDE DEF answer
<1>3. tbTask' = Idle
  BY DEF WorkerEnds
<1>4. Idle \in TabTasks /\ Idle.kind = "none"
  BY SMT DEF Idle, TabTasks, NoTab
<1> QED BY <1>1, <1>2, <1>3, <1>4 DEF TabTypes

LEMMA OthersKeep == ASSUME TabsInv, OthersStep PROVE TabsInv'
<1>1. TabTypes'
  BY DEF TabsInv, TabTypes, OthersStep, tbList, tbChoice
<1>2. ASSUME NEW l \in tbLoads', l.generation = tbGeneration' PROVE Loading(l)'
  <2>1. l \in tbLoads /\ Loading(l) /\ UNCHANGED <<tbRows, tbListed>>
    BY <1>2 DEF TabsInv, OthersStep, tbList
  <2>2. ASSUME Told', l.page # 0 PROVE ListedSoFar(l)'
    <3>1. ListedSoFar(l) /\ UNCHANGED <<tbStored, tbListed>>
      BY <2>1, <2>2 DEF OthersStep, Loading
    <3> QED BY <3>1 DEF ListedSoFar, PageEnd
  <2> QED BY <2>1, <2>2 DEF Loading
<1>3. ASSUME \A l \in tbLoads' : l.generation # tbGeneration' PROVE Settled'
  <2>1. Settled /\ UNCHANGED <<tbRows, tbListed, tbPartial, tbOwed, tbShown, tbActive, tbSelected>>
    BY <1>3 DEF TabsInv, OthersStep, tbList, tbChoice
  <2> QED BY <2>1 DEF Settled, OthersStep, IdsIn
<1> QED BY <1>1, <1>2, <1>3 DEF TabsInv

LEMMA Dispatched ==
  ASSUME TabTypes, NEW kind \in TabKinds, NEW tab \in Int, NEW from \in Int, (kind = "rename" => tab \in Nat),
         DispatchTab(kind, tab, from)
  PROVE OthersStep
<1>1. tbTask' \in TabTasks /\ (tbTask'.kind = "rename" => tbTask'.tab \in Nat)
  BY DEF DispatchTab, Idle, TabTasks, NoTab
<1>2. UNCHANGED <<tbStored, tbIds, tbAnswers, tbNews, tbOwed, tbList, tbChoice>>
  BY DEF DispatchTab
<1> QED BY <1>1, <1>2 DEF OthersStep, TabTypes, Told

LEMMA IdsAre ==
  ASSUME TabsInv
  PROVE /\ \A id \in IdsIn(tbListed) \cup IdsIn(tbRows) : id \in Nat
        /\ tbRows = <<>> \/ tbRows = <<GeneralRow>> \o tbListed
<1>1. tbRows = <<>> \/ tbRows = <<GeneralRow>> \o tbListed
  BY DEF TabsInv, Loading, Settled
<1>2. GeneralRow \in TabRecs
  BY DEF GeneralRow, TabRecs, General
<1>3. tbListed \in TabRows
  BY DEF TabsInv, TabTypes
<1>4. <<GeneralRow>> \in TabRows /\ <<>> \in TabRows
  BY <1>2 DEF TabRows
<1>5. tbRows \in TabRows
  BY <1>1, <1>3, <1>4, ConcatProperties DEF TabRows
<1>6. ASSUME NEW rows \in TabRows PROVE \A id \in IdsIn(rows) : id \in Nat
  <2>1. DOMAIN rows = 1..Len(rows) /\ Len(rows) \in Nat /\ \A i \in DOMAIN rows : rows[i] \in TabRecs
    BY LenProperties, ElementOfSeq DEF TabRows
  <2> QED BY <2>1 DEF TabRecs, IdsIn
<1> QED BY <1>1, <1>3, <1>5, <1>6

LEMMA CommandsStart == ASSUME TabsInv, StartCommand \/ ConfirmDeletion PROVE OthersStep
<1>1. TabTypes /\ \A id \in IdsIn(tbListed) \cup IdsIn(tbRows) : id \in Nat
  BY IdsAre DEF TabsInv
<1>2. General \in Int /\ Folder \in Int /\ NoTab \in Int
  BY DEF General, Folder, NoTab
<1>3. CASE CreateTab
  BY <1>1, <1>2, <1>3, Dispatched DEF CreateTab, TabKinds
<1>4. CASE RenameTab
  BY <1>1, <1>2, <1>4, Dispatched DEF RenameTab, TabKinds
<1>5. CASE AddOrRemove
  BY <1>1, <1>2, <1>5, Dispatched DEF AddOrRemove, TabKinds
<1>6. CASE DropOnTab
  BY <1>1, <1>2, <1>6, Dispatched DEF DropOnTab, TabKinds
<1>7. CASE ConfirmDeletion
  <2>1. PICK tab \in 1..tbIds : DispatchTab("delete", tab, NoTab)
    BY <1>7 DEF ConfirmDeletion
  <2>2. tab \in Int
    BY <1>1 DEF TabTypes
  <2> QED BY <1>1, <1>2, <2>1, <2>2, Dispatched DEF TabKinds
<1> QED BY <1>3, <1>4, <1>5, <1>6, <1>7 DEF StartCommand

\* The worker goes on with its command.
WorkerStep ==
  /\ tbStored' \in TabRows /\ tbIds' \in Nat
  /\ tbTask' \in TabTasks /\ (tbTask'.kind = "rename" => tbTask'.tab \in Nat)
  /\ tbAnswers \subseteq tbAnswers' /\ \A a \in tbAnswers' : a.tab \in Int
  /\ (\A a \in tbAnswers' : Silent(a)) => tbStored' = tbStored

LEMMA Answering ==
  ASSUME TabTypes, NEW outcome, NEW tab \in Int, WorkerEnds(outcome, tab),
         tbStored' \in TabRows, tbIds' \in Nat,
         \/ tbStored' = tbStored
         \/ outcome = "done"
         \/ tbTask.kind \notin {"delete", "drop"}
  PROVE WorkerStep
<1>1. tbTask' \in TabTasks /\ (tbTask'.kind = "rename" => tbTask'.tab \in Nat)
  BY WorkerEndsIs
<1>2. tbAnswers \subseteq tbAnswers' /\ \A a \in tbAnswers' : a.tab \in Int
  BY WorkerEndsIs
<1>3. PICK a \in tbAnswers' : a.kind = tbTask.kind /\ a.outcome = outcome
  BY WorkerEndsIs
<1>4. tbStored' = tbStored \/ ~Silent(a)
  BY <1>3 DEF Silent
<1> QED BY <1>1, <1>2, <1>4 DEF WorkerStep

LEMMA Finding == ASSUME TabTypes, FindTab PROVE WorkerStep
<1>1. UNCHANGED <<tbStored, tbIds>>
  BY DEF FindTab
<1>2. ASSUME NEW place \in Nat, tbTask' = [tbTask EXCEPT !.step = "write", !.place = place], UNCHANGED tbAnswers
      PROVE WorkerStep
  <2> DEFINE task == tbTask
  <2>1. task \in TabTasks /\ tbTask' = [task EXCEPT !.step = "write", !.place = place]
    BY <1>2 DEF TabTypes
  <2> HIDE DEF task
  <2>2. tbTask' \in TabTasks /\ tbTask'.kind = task.kind /\ tbTask'.tab = task.tab
    BY <2>1 DEF TabTasks
  <2> QED BY <1>1, <1>2, <2>2 DEF WorkerStep, TabTypes, task
<1>3. Len(tbStored) \in Nat
  BY LenProperties DEF TabTypes, TabRows
<1>4. ASSUME NEW t \in Range(tbStored) PROVE t.place \in Nat
  <2>1. DOMAIN tbStored = 1..Len(tbStored) /\ Len(tbStored) \in Nat /\ \A i \in DOMAIN tbStored : tbStored[i] \in TabRecs
    BY LenProperties, ElementOfSeq DEF TabTypes, TabRows
  <2> QED BY <1>4, <2>1 DEF TabRecs, Range
<1>5. CASE WorkerEnds("failed", tbTask.tab)
  BY <1>1, <1>5, Answering DEF TabTypes, TabTasks
<1>6. \/ WorkerEnds("failed", tbTask.tab)
      \/ \E place \in Nat : tbTask' = [tbTask EXCEPT !.step = "write", !.place = place] /\ UNCHANGED tbAnswers
  <2> DEFINE write(place) == tbTask' = [tbTask EXCEPT !.step = "write", !.place = place] /\ UNCHANGED tbAnswers
             found == {t \in Range(tbStored) : t.id = tbTask.tab}
  <2>1. \/ write(Len(tbStored)) \/ write(0)
        \/ IF found = {} THEN WorkerEnds("failed", tbTask.tab) ELSE \E t \in found : write(t.place)
    BY DEF FindTab
  <2> HIDE DEF write
  <2>2. WorkerEnds("failed", tbTask.tab) \/ \E place \in Nat : write(place)
    BY <1>3, <1>4, <2>1
  <2> QED BY <2>2 DEF write
<1> QED BY <1>2, <1>5, <1>6

LEMMA Writing == ASSUME TabTypes, WriteTab PROVE WorkerStep
<1> DEFINE tab == tbTask.tab
           held == IdsIn(tbStored)
           members(tabs) ==
             \/ tbStored' = Touched(tabs) /\ WorkerEnds(IF tabs \cap held = {} THEN "same" ELSE "done", tab)
             \/ UNCHANGED tbStored /\ WorkerEnds("same", tab)
           fresh(id) == [id |-> id, place |-> tbTask.place, content |-> 0]
<1>1. tbStored \in TabRows /\ tbIds \in Nat /\ tab \in Int /\ tbTask.place \in Nat
  BY DEF TabTypes, TabTasks
<1>2. ASSUME NEW id \in Nat PROVE fresh(id) \in TabRecs
  BY <1>1 DEF TabRecs
<1>3. ASSUME NEW tabs, members(tabs), UNCHANGED tbIds PROVE WorkerStep
  <2>1. CASE tabs \cap held = {}
    BY <1>1, <1>3, <2>1, TouchedIs, Answering
  <2>2. CASE tabs \cap held # {}
    BY <1>1, <1>3, <2>2, TouchedIs, Answering
  <2> QED BY <2>1, <2>2
<1>4. CASE tbTask.kind = "create"
  <2>1. tbIds' = tbIds + 1 /\ tbStored' = Inserted(fresh(tbIds')) /\ WorkerEnds("done", tbIds')
    BY <1>4 DEF WriteTab
  <2>2. tbIds' \in Nat /\ fresh(tbIds') \in TabRecs
    BY <1>1, <1>2, <2>1
  <2> HIDE DEF fresh
  <2>3. Inserted(fresh(tbIds')) \in TabRows
    BY <1>1, <2>2, InsertedIs
  <2> QED BY <1>1, <2>1, <2>2, <2>3, Answering
<1>5. CASE tbTask.kind = "rename"
  <2>1. /\ tbStored' = IF tab \in held THEN Touched({tab}) ELSE Inserted(fresh(tab))
        /\ WorkerEnds("done", tab) /\ UNCHANGED tbIds
    BY <1>5 DEF WriteTab
  <2>2. fresh(tab) \in TabRecs
    BY <1>2, <1>5 DEF TabTypes
  <2> HIDE DEF fresh
  <2>3. Touched({tab}) \in TabRows /\ Inserted(fresh(tab)) \in TabRows
    BY <1>1, <2>2, InsertedIs, TouchedIs
  <2> QED BY <1>1, <2>1, <2>3, Answering
<1>6. CASE tbTask.kind = "delete"
  <2>1. /\ UNCHANGED tbIds
        /\ \/ /\ \E i \in DOMAIN tbStored : tbStored' = RemoveAt(tbStored, i)
              /\ WorkerEnds("done", tab)
           \/ UNCHANGED tbStored /\ WorkerEnds("failed", tab)
    BY <1>6 DEF WriteTab
  <2> QED BY <1>1, <2>1, RemovedIs, Answering
<1>7. CASE tbTask.kind \in {"add", "remove"}
  <2>1. members({tab}) /\ UNCHANGED tbIds
    BY <1>7 DEF WriteTab
  <2> QED BY <1>3, <2>1
<1>8. CASE tbTask.kind = "drop"
  <2>1. members({tab, tbTask.from} \ {General, Folder}) /\ UNCHANGED tbIds
    BY <1>8 DEF WriteTab
  <2> QED BY <1>3, <2>1
<1>9. tbTask.kind \in TabKinds
  BY DEF WriteTab, TabTypes, TabTasks
<1> QED BY <1>4, <1>5, <1>6, <1>7, <1>8, <1>9 DEF TabKinds

LEMMA LoadFor ==
  ASSUME TabsInv, NEW l \in tbLoads
  PROVE /\ l \in TabLoads /\ l.generation \in Nat /\ l.page \in Nat /\ l.tabs \in TabRows /\ l.target \in Int
        /\ l.generation <= tbGeneration
        /\ l.generation = tbGeneration =>
              Loading(l) /\ \A k \in tbLoads : k.generation = tbGeneration => k = l
BY DEF TabsInv, TabTypes, TabLoads

\* Something is owed; the list goes on as it was.
OwedStep ==
  /\ UNCHANGED <<tbStored, tbIds, tbTask, tbList>>
  /\ tbAnswers' \subseteq tbAnswers /\ tbNews' \in Nat /\ tbActive' \in Int
  /\ \/ tbOwed' \in Seq(Int) /\ tbOwed' # <<>>
     \/ /\ UNCHANGED <<tbOwed, tbNews, tbActive, tbSelected, tbShown>>
        /\ \A a \in tbAnswers \ tbAnswers' : Silent(a)

LEMMA OwedKeeps == ASSUME TabsInv, OwedStep PROVE TabsInv'
<1>1. TabTypes'
  BY DEF TabsInv, TabTypes, OwedStep, tbList
<1>2. Told' => Told /\ UNCHANGED <<tbOwed, tbActive, tbSelected, tbShown>>
  BY DEF Told, OwedStep
<1>3. tbOwed' = <<>> => UNCHANGED <<tbOwed, tbActive, tbSelected, tbShown>>
  BY DEF OwedStep
<1>4. UNCHANGED <<tbStored, tbRows, tbListed, tbGeneration, tbLoads, tbPartial>>
  BY DEF OwedStep, tbList
<1>5. ASSUME NEW l \in tbLoads', l.generation = tbGeneration' PROVE Loading(l)'
  <2>1. l \in tbLoads /\ Loading(l)
    BY <1>4, <1>5 DEF TabsInv
  <2>2. ListedSoFar(l) => ListedSoFar(l)'
    BY <1>4 DEF ListedSoFar, PageEnd
  <2> QED BY <1>2, <1>4, <2>1, <2>2 DEF Loading
<1>6. ASSUME \A l \in tbLoads' : l.generation # tbGeneration' PROVE Settled'
  <2>1. Settled
    BY <1>4, <1>6 DEF TabsInv
  <2> QED BY <1>2, <1>3, <1>4, <2>1 DEF Settled, IdsIn
<1> QED BY <1>1, <1>5, <1>6 DEF TabsInv

LEMMA OwingIs ==
  ASSUME TabTypes, NEW target \in Int, Owe(target)
  PROVE tbOwed' \in Seq(Int) /\ tbOwed' # <<>>
BY AppendProperties DEF Owe, TabTypes

LEMMA AnswersSeen == ASSUME TabsInv, SeeAnswer PROVE OwedStep
<1>1. PICK a \in tbAnswers :
        /\ tbAnswers' = tbAnswers \ {a}
        /\ tbActive' = (IF a.outcome # "done" THEN tbActive
                        ELSE CASE a.kind = "create" -> a.tab [] a.kind = "delete" -> General [] OTHER -> tbActive)
        /\ OweFor(a)
        /\ UNCHANGED <<tbStored, tbIds, tbTask, tbNews, tbList, tbSelected, tbFolder, tbShown>>
  BY DEF SeeAnswer, Reloads
<1>2. TabTypes /\ a.tab \in Int /\ General \in Int /\ NoTab \in Int
  BY DEF TabsInv, TabTypes, General, NoTab
<1>3. tbNews \in Nat /\ tbActive \in Int /\ tbActive' \in Int
  BY <1>1, <1>2 DEF TabTypes
<1>4. CASE Owe(a.tab) \/ Owe(General) \/ Owe(NoTab)
  <2>1. tbOwed' \in Seq(Int) /\ tbOwed' # <<>>
    BY <1>2, <1>4, OwingIs
  <2> QED BY <1>1, <1>3, <2>1 DEF OwedStep
<1>5. CASE UNCHANGED tbOwed /\ Silent(a) /\ (a.kind = "delete" => a.outcome # "done") /\ (a.kind = "drop" => a.outcome # "done")
  <2>1. tbActive' = tbActive
    BY <1>1, <1>5 DEF Silent
  <2> QED BY <1>1, <1>3, <1>5, <2>1 DEF OwedStep
<1>6. \/ Owe(a.tab) \/ Owe(General) \/ Owe(NoTab)
      \/ UNCHANGED tbOwed /\ Silent(a) /\ (a.kind = "delete" => a.outcome # "done") /\ (a.kind = "drop" => a.outcome # "done")
  BY <1>1 DEF OweFor, Silent
<1> QED BY <1>4, <1>5, <1>6

LEMMA NewsSeen == ASSUME TabsInv, SeeNews PROVE OwedStep
<1>1. PICK target \in {NoTab, tbActive} : Owe(target)
  BY DEF SeeNews
<1>2. TabTypes /\ target \in Int /\ tbNews \in Nat /\ tbActive \in Int
  BY DEF TabsInv, TabTypes, NoTab
<1>3. tbOwed' \in Seq(Int) /\ tbOwed' # <<>>
  BY <1>1, <1>2, OwingIs
<1>4. tbNews' \in Nat /\ UNCHANGED <<tbStored, tbIds, tbTask, tbAnswers, tbList, tbActive>>
  BY <1>2 DEF SeeNews, tbCommands, tbChoice
<1> QED BY <1>2, <1>3, <1>4 DEF OwedStep

\* A row of the list is selected, or a folder of the tree.
LEMMA Selecting == ASSUME TabsInv, SelectTab \/ SelectFolder PROVE TabsInv'
<1>1. UNCHANGED <<tbStored, tbIds, tbTask, tbAnswers, tbNews, tbOwed, tbRows, tbListed, tbGeneration, tbLoads, tbPartial>>
  BY DEF SelectTab, SelectFolder, tbCommands, tbList
<1>2. /\ tbShown' = tbActive' /\ tbActive' \in Int
      /\ IF tbActive' = Folder THEN tbSelected' = NoTab ELSE tbSelected' = tbActive' /\ tbActive' \in IdsIn(tbRows)
  <2>1. CASE SelectTab
    <3>1. PICK id \in IdsIn(tbRows) : Selected(id)
      BY <2>1 DEF SelectTab
    <3>2. id \in Nat
      BY IdsAre
    <3> QED BY <3>1, <3>2 DEF Selected, Folder
  <2>2. CASE SelectFolder
    BY <2>2 DEF SelectFolder, Folder
  <2> QED BY <2>1, <2>2
<1>3. TabTypes'
  BY <1>1, <1>2 DEF TabsInv, TabTypes
<1>4. Told' <=> Told
  BY <1>1 DEF Told
<1>5. ASSUME NEW l \in tbLoads', l.generation = tbGeneration' PROVE Loading(l)'
  <2>1. l \in tbLoads /\ Loading(l)
    BY <1>1, <1>5 DEF TabsInv
  <2>2. ListedSoFar(l) => ListedSoFar(l)'
    BY <1>1 DEF ListedSoFar, PageEnd
  <2> QED BY <1>1, <1>4, <2>1, <2>2 DEF Loading
<1>6. ASSUME \A l \in tbLoads' : l.generation # tbGeneration' PROVE Settled'
  <2>1. Settled
    BY <1>1, <1>6 DEF TabsInv
  <2>2. IdsIn(tbRows)' = IdsIn(tbRows)
    BY <1>1 DEF IdsIn
  <2> QED BY <1>1, <1>2, <1>4, <2>1, <2>2 DEF Settled
<1> QED BY <1>3, <1>5, <1>6 DEF TabsInv

LEMMA Reloading == ASSUME TabsInv, ReloadTabs PROVE TabsInv'
<1> DEFINE target == IF Head(tbOwed) = NoTab THEN tbActive ELSE Head(tbOwed)
           load == TabRequest(tbGeneration + 1, 0, target)
<1>1. /\ tbGeneration \in Nat /\ tbOwed \in Seq(Int) /\ tbActive \in Int
      /\ tbLoads \subseteq TabLoads /\ \A l \in tbLoads : l.generation <= tbGeneration /\ l.generation \in Nat
  BY LoadFor DEF TabsInv, TabTypes
<1>2. target \in Int /\ Tail(tbOwed) \in Seq(Int)
  BY <1>1 DEF ReloadTabs
<1> HIDE DEF target
<1>3. /\ load \in TabLoads /\ load.generation = tbGeneration + 1 /\ load.page = 0 /\ load.state = "asked"
  <2>1. <<>> \in TabRows
    BY DEF TabRows
  <2> QED BY <1>1, <1>2, <2>1 DEF TabRequest, TabLoads
<1>4. /\ tbGeneration' = tbGeneration + 1 /\ tbLoads' = tbLoads \cup {load} /\ tbOwed' = Tail(tbOwed)
      /\ tbRows' = <<>> /\ tbListed' = <<>>
      /\ UNCHANGED <<tbStored, tbIds, tbTask, tbAnswers, tbNews, tbActive, tbShown>>
  BY DEF ReloadTabs, tbCommands, target
<1> HIDE DEF load
<1>5. TabTypes'
  <2>1. tbListed' \in TabRows
    BY <1>4 DEF TabRows
  <2>2. \A l \in tbLoads' : l.generation <= tbGeneration'
    BY <1>1, <1>3, <1>4
  <2>3. \A l \in tbLoads' : l.generation = tbGeneration' => l = load
    BY <1>1, <1>3, <1>4
  <2> QED BY <1>1, <1>2, <1>3, <1>4, <2>1, <2>2, <2>3 DEF TabsInv, TabTypes
<1>6. ASSUME NEW l \in tbLoads', l.generation = tbGeneration' PROVE Loading(l)'
  <2>1. l = load
    BY <1>1, <1>3, <1>4, <1>6
  <2> QED BY <1>3, <1>4, <2>1 DEF Loading
<1>7. load \in tbLoads' /\ load.generation = tbGeneration'
  BY <1>3, <1>4
<1> QED BY <1>5, <1>6, <1>7 DEF TabsInv

LEMMA Answered == ASSUME TabsInv, StoreAnswersTabs PROVE TabsInv'
<1>1. PICK l \in tbLoads :
        /\ l.state = "asked" /\ l.page > 0
        /\ tbLoads' = (tbLoads \ {l}) \cup {TabPage(l)} \/ tbLoads' = (tbLoads \ {l}) \cup {[l EXCEPT !.state = "failed"]}
  BY DEF StoreAnswersTabs
<1>2. UNCHANGED <<tbStored, tbIds, tbTask, tbAnswers, tbNews, tbOwed, tbRows, tbListed, tbGeneration, tbPartial,
                  tbSelected, tbActive, tbShown>>
  BY DEF StoreAnswersTabs, tbCommands, tbChoice
<1>3. l \in TabLoads /\ l.page \in Nat /\ tbStored \in TabRows /\ Len(tbStored) \in Nat
  BY LoadFor, LenProperties DEF TabsInv, TabTypes, TabRows
<1> DEFINE first == (l.page - 1) * TbPageSize + 1
           rows == SubSeq(tbStored, first, PageEnd(l.page))
<1>4. /\ first \in Nat \ {0} /\ PageEnd(l.page) \in Nat /\ PageEnd(l.page) <= Len(tbStored)
  BY <1>1, <1>3, SidebarTabsAssumption DEF PageEnd
<1>5. rows \in TabRows
  <2> DEFINE end == PageEnd(l.page)
  <2>1. end \in 0..Len(tbStored) /\ first \in 1..first
    BY <1>3, <1>4
  <2> HIDE DEF end, first
  <2>2. SubSeq(tbStored, first, end) \in TabRows
    BY <1>3, <1>4, <2>1, SubSeqProperties DEF TabRows
  <2> QED BY <2>2 DEF end
<1>6. TabPage(l) = [l EXCEPT !.state = "answered", !.tabs = rows, !.more = l.page * TbPageSize < Len(tbStored)]
  BY DEF TabPage, PageEnd
<1> HIDE DEF rows, first
<1>7. PICK k : /\ tbLoads' = (tbLoads \ {l}) \cup {k} /\ k \in TabLoads
               /\ k.generation = l.generation /\ k.page = l.page
               /\ k.state = "answered" => k.tabs = rows /\ k.more = (l.page * TbPageSize < Len(tbStored))
  <2> DEFINE more == l.page * TbPageSize < Len(tbStored)
             answer == [l EXCEPT !.state = "answered", !.tabs = rows, !.more = more]
             failure == [l EXCEPT !.state = "failed"]
  <2>1. more \in BOOLEAN
    OBVIOUS
  <2> HIDE DEF more
  <2>2. /\ answer \in TabLoads /\ answer.generation = l.generation /\ answer.page = l.page
        /\ answer.tabs = rows /\ answer.more = more
    BY <1>3, <1>5, <2>1 DEF TabLoads
  <2>3. /\ failure \in TabLoads /\ failure.generation = l.generation /\ failure.page = l.page
        /\ failure.state = "failed"
    BY <1>3 DEF TabLoads
  <2>4. TabPage(l) = answer
    BY <1>6 DEF more
  <2> HIDE DEF answer, failure
  <2>5. CASE tbLoads' = (tbLoads \ {l}) \cup {answer}
    BY <2>2, <2>5 DEF more
  <2>6. CASE tbLoads' = (tbLoads \ {l}) \cup {failure}
    BY <2>3, <2>6
  <2> QED BY <1>1, <2>4, <2>5, <2>6 DEF failure
<1>8. TabTypes'
  BY <1>2, <1>7 DEF TabsInv, TabTypes
<1>9. Told' <=> Told
  BY <1>2 DEF Told
<1>10. ASSUME NEW j \in tbLoads', j.generation = tbGeneration' PROVE Loading(j)'
  <2>1. CASE j # k
    <3>1. j \in tbLoads /\ Loading(j)
      BY <1>2, <1>7, <1>10, <2>1 DEF TabsInv
    <3>2. ListedSoFar(j) => ListedSoFar(j)'
      BY <1>2 DEF ListedSoFar, PageEnd
    <3> QED BY <1>2, <1>9, <3>1, <3>2 DEF Loading
  <2>2. CASE j = k
    <3>1. Loading(l)
      BY <1>2, <1>7, <1>10, <2>2 DEF TabsInv
    <3>2. ASSUME Told, ListedSoFar(l) PROVE ListedSoFar(k)'
      <4>1. first = Len(tbListed) + 1
        <5>1. Len(tbListed) = (l.page - 1) * TbPageSize
          BY <3>2 DEF ListedSoFar
        <5> QED BY <5>1 DEF first
      <4>2. PageEnd(l.page)' = PageEnd(l.page)
        BY <1>2 DEF PageEnd
      <4> QED BY <1>2, <1>7, <3>2, <4>1, <4>2 DEF ListedSoFar, rows
    <3>3. l.page # 0 /\ k.page # 0
      BY <1>1, <1>3, <1>7
    <3> QED BY <1>2, <1>7, <1>9, <2>2, <3>1, <3>2, <3>3 DEF Loading
  <2> QED BY <2>1, <2>2
<1>11. ASSUME \A j \in tbLoads' : j.generation # tbGeneration' PROVE Settled'
  <2>1. Settled
    BY <1>2, <1>7, <1>11 DEF TabsInv
  <2> QED BY <1>2, <1>9, <2>1 DEF Settled, IdsIn
<1> QED BY <1>8, <1>10, <1>11 DEF TabsInv

LEMMA FirstRows ==
  ASSUME NEW held \in Seq(TabRecs), NEW n \in 0..Len(held), NEW end \in n..Len(held)
  PROVE SubSeq(held, 1, n) \o SubSeq(held, n + 1, end) = SubSeq(held, 1, end)
<1>1. Len(held) \in Nat
  BY LenProperties
<1>2. 1 \in 1..Len(held) + 1 /\ n \in 1 - 1..Len(held)
  BY <1>1
<1> QED BY <1>2, ConcatAdjacentSubSeq

\* One page more behind the pages before it.
AddsPage(held, listed, page, end, rows) ==
  /\ held \in TabRows /\ page \in Nat \ {0}
  /\ Len(listed) = (page - 1) * TbPageSize /\ Len(listed) <= Len(held)
  /\ listed = SubSeq(held, 1, Len(listed))
  /\ end = IF page * TbPageSize < Len(held) THEN page * TbPageSize ELSE Len(held)
  /\ rows = listed \o SubSeq(held, Len(listed) + 1, end)
LEMMA PagesAdd ==
  ASSUME NEW held, NEW listed, NEW page, NEW end, NEW rows, AddsPage(held, listed, page, end, rows)
  PROVE /\ rows = SubSeq(held, 1, end) /\ Len(rows) = end /\ end <= Len(held)
        /\ page * TbPageSize < Len(held) => end = page * TbPageSize
        /\ ~(page * TbPageSize < Len(held)) => rows = held
<1> DEFINE n == Len(listed)
           total == Len(held)
           sum == page * TbPageSize
<1>0. /\ held \in TabRows /\ page \in Nat \ {0} /\ Len(listed) = (page - 1) * TbPageSize
      /\ Len(listed) <= Len(held) /\ listed = SubSeq(held, 1, Len(listed))
      /\ end = IF page * TbPageSize < Len(held) THEN page * TbPageSize ELSE Len(held)
      /\ rows = listed \o SubSeq(held, Len(listed) + 1, end)
  BY DEF AddsPage
<1>1. TbPageSize \in Nat \ {0} /\ total \in Nat
  BY <1>0, SidebarTabsAssumption, LenProperties DEF TabRows
<1>2. sum \in Nat /\ (page - 1) * TbPageSize \in Nat /\ sum = (page - 1) * TbPageSize + TbPageSize
  BY <1>0, <1>1
<1>3. n \in 0..total /\ end \in n..total /\ (sum < total => end = sum) /\ (~(sum < total) => end = total)
  BY <1>0, <1>1, <1>2
<1>4. SubSeq(held, 1, n) \o SubSeq(held, n + 1, end) = SubSeq(held, 1, end)
  BY <1>0, <1>3, FirstRows DEF TabRows
<1>5. rows = SubSeq(held, 1, end)
  BY <1>0, <1>4
<1> HIDE DEF sum, n, total
<1>6. end \in Nat /\ end <= total
  BY <1>1, <1>3
<1>7. Len(rows) = end
  <2>1. \A i \in 1..end : held[i] \in TabRecs
    BY <1>0, <1>1, <1>6, ElementOfSeq DEF TabRows, total
  <2>2. Len(SubSeq(held, 1, end)) = IF 1 <= end THEN end - 1 + 1 ELSE 0
    BY <1>6, <2>1, SubSeqProperties
  <2> QED BY <1>5, <1>6, <2>2
<1>8. ~(sum < total) => rows = held
  BY <1>0, <1>3, <1>5, SubSeqFull DEF TabRows, total
<1> QED BY <1>3, <1>5, <1>6, <1>7, <1>8 DEF sum, total

LEMMA FinishedIs ==
  ASSUME NEW listed \in TabRows, NEW rows, rows = <<GeneralRow>> \o listed, NEW target, TabsFinished(target, rows)
  PROVE /\ tbShown' = tbActive' /\ tbSelected' = tbActive' /\ tbActive' \in IdsIn(rows)
        /\ tbActive' \in Int /\ tbActive' # Folder
<1>1. GeneralRow \in TabRecs /\ GeneralRow.id = General
  BY DEF GeneralRow, TabRecs, General
<1>2. <<GeneralRow>> \in TabRows /\ Len(<<GeneralRow>>) = 1 /\ <<GeneralRow>>[1] = GeneralRow
  BY <1>1 DEF TabRows
<1> HIDE DEF GeneralRow
<1>3. rows \in TabRows /\ 1 \in DOMAIN rows /\ rows[1] = GeneralRow
  <2>1. Len(listed) \in Nat /\ 1 \in 1..1 + Len(listed)
    BY LenProperties DEF TabRows
  <2> QED BY <1>2, <2>1, ConcatProperties, LenProperties DEF TabRows
<1>4. General \in IdsIn(rows)
  BY <1>1, <1>3 DEF IdsIn
<1>5. \A id \in IdsIn(rows) : id \in Nat
  <2>1. DOMAIN rows = 1..Len(rows) /\ Len(rows) \in Nat /\ \A i \in DOMAIN rows : rows[i] \in TabRecs
    BY <1>3, LenProperties, ElementOfSeq DEF TabRows
  <2> QED BY <2>1 DEF TabRecs, IdsIn
<1>6. PICK id \in IdsIn(rows) : Selected(id)
  BY <1>4 DEF TabsFinished
<1> QED BY <1>5, <1>6 DEF Selected, Folder

LEMMA Arriving == ASSUME TabsInv, TabsArrive PROVE TabsInv'
<1>1. PICK l \in tbLoads :
        LET others == tbLoads \ {l}
            rows == tbRows \o l.tabs
            next == TabRequest(tbGeneration, l.page + 1, l.target)
        IN /\ l.state # "asked" \/ l.page = 0
           /\ IF ~IsCurrent(l) THEN tbLoads' = others /\ UNCHANGED <<tbRows, tbListed, tbPartial, tbChoice>>
              ELSE \/ /\ l.page = 0 /\ UNCHANGED <<tbListed, tbPartial, tbChoice>>
                      /\ tbRows' = Append(tbRows, GeneralRow) /\ tbLoads' = others \cup {next}
                   \/ /\ l.state = "answered" /\ UNCHANGED tbPartial
                      /\ tbRows' = rows /\ tbListed' = tbListed \o l.tabs
                      /\ IF l.more THEN tbLoads' = others \cup {next} /\ UNCHANGED tbChoice
                         ELSE tbLoads' = others /\ TabsFinished(l.target, rows)
                   \/ /\ l.state = "failed" /\ UNCHANGED <<tbRows, tbListed>>
                      /\ tbPartial' = TRUE /\ tbLoads' = others /\ TabsFinished(l.target, tbRows)
  BY DEF TabsArrive
<1>2. UNCHANGED <<tbStored, tbIds, tbTask, tbAnswers, tbNews, tbOwed, tbGeneration>>
  BY DEF TabsArrive, tbCommands
<1>3. /\ l \in TabLoads /\ l.generation \in Nat /\ l.page \in Nat /\ l.tabs \in TabRows /\ l.target \in Int
      /\ l.generation <= tbGeneration
      /\ l.generation = tbGeneration => Loading(l) /\ \A k \in tbLoads : k.generation = tbGeneration => k = l
  BY LoadFor
<1>4. tbStored \in TabRows /\ tbListed \in TabRows /\ tbGeneration \in Nat /\ tbActive \in Int
  BY DEF TabsInv, TabTypes
<1>5. Told' <=> Told
  BY <1>2 DEF Told
<1> DEFINE others == tbLoads \ {l}
           rows == tbRows \o l.tabs
<1>6. PICK next : /\ next = TabRequest(tbGeneration, l.page + 1, l.target)
                  /\ next \in TabLoads /\ next.generation = tbGeneration
                  /\ next.page = l.page + 1 /\ next.state = "asked"
  <2>1. <<>> \in TabRows /\ l.page + 1 \in Nat
    BY <1>3 DEF TabRows
  <2> DEFINE request == TabRequest(tbGeneration, l.page + 1, l.target)
  <2>2. request \in TabLoads /\ request.generation = tbGeneration /\ request.page = l.page + 1 /\ request.state = "asked"
    BY <1>3, <1>4, <2>1 DEF TabRequest, TabLoads
  <2> HIDE DEF request
  <2> QED BY <2>2 DEF request
<1>7. CASE l.generation # tbGeneration
  <2>1. tbLoads' = others /\ UNCHANGED <<tbRows, tbListed, tbPartial, tbSelected, tbActive, tbShown>>
    BY <1>1, <1>7 DEF IsCurrent, tbChoice
  <2>2. TabTypes'
    BY <1>2, <2>1 DEF TabsInv, TabTypes
  <2>3. ASSUME NEW j \in tbLoads', j.generation = tbGeneration' PROVE Loading(j)'
    <3>1. Loading(j)
      BY <1>2, <2>1, <2>3 DEF TabsInv
    <3>2. ListedSoFar(j) => ListedSoFar(j)'
      BY <1>2, <2>1 DEF ListedSoFar, PageEnd
    <3> QED BY <1>5, <2>1, <3>1, <3>2 DEF Loading
  <2>4. ASSUME \A j \in tbLoads' : j.generation # tbGeneration' PROVE Settled'
    <3>1. Settled
      BY <1>2, <1>7, <2>1, <2>4 DEF TabsInv
    <3> QED BY <1>2, <1>5, <2>1, <3>1 DEF Settled, IdsIn
  <2> QED BY <2>2, <2>3, <2>4 DEF TabsInv
<1>8. ASSUME l.generation = tbGeneration, tbListed' \in TabRows, tbActive' \in Int,
             tbLoads' = others \cup {next}, Loading(next)'
      PROVE TabsInv'
  <2>1. TabTypes'
    BY <1>2, <1>3, <1>6, <1>8 DEF TabsInv, TabTypes
  <2>2. \A j \in tbLoads' : j.generation = tbGeneration' => j = next
    BY <1>2, <1>3, <1>8
  <2>3. next \in tbLoads' /\ next.generation = tbGeneration'
    BY <1>2, <1>6, <1>8
  <2>4. \A j \in tbLoads' : j.generation = tbGeneration' => Loading(j)'
    BY <1>8, <2>2
  <2> QED BY <2>1, <2>3, <2>4 DEF TabsInv
<1>9. ASSUME l.generation = tbGeneration, tbListed' \in TabRows, tbActive' \in Int, tbLoads' = others, Settled'
      PROVE TabsInv'
  <2>1. TabTypes'
    BY <1>2, <1>3, <1>9 DEF TabsInv, TabTypes
  <2>2. \A j \in tbLoads' : j.generation # tbGeneration'
    BY <1>2, <1>3, <1>9
  <2> QED BY <1>9, <2>1, <2>2 DEF TabsInv
<1>10. CASE l.generation = tbGeneration /\ l.page = 0
  <2>1. tbRows = <<>> /\ tbListed = <<>> /\ l.state = "asked"
    BY <1>3, <1>10 DEF Loading
  <2>2. /\ UNCHANGED <<tbListed, tbActive>> /\ tbRows' = Append(tbRows, GeneralRow) /\ tbLoads' = others \cup {next}
    BY <1>1, <1>6, <1>10, <2>1 DEF IsCurrent, tbChoice
  <2>3. tbRows' = <<GeneralRow>> \o tbListed'
    BY <2>1, <2>2
  <2>4. Len(tbListed') = (next.page - 1) * TbPageSize /\ Len(tbListed') <= Len(tbStored)
    <3>1. next.page = 1 /\ Len(tbListed') = 0 /\ Len(tbStored) \in Nat
      BY <1>4, <1>6, <1>10, <2>1, <2>2, LenProperties DEF TabRows
    <3> QED BY <3>1, SidebarTabsAssumption
  <2>5. tbListed' = SubSeq(tbStored, 1, Len(tbListed'))
    BY <1>4, <2>1, <2>2, SubSeqEmpty DEF TabRows
  <2>6. next.page # 0
    BY <1>6, <1>10
  <2>7. Loading(next)'
    BY <1>2, <1>6, <2>3, <2>4, <2>5, <2>6 DEF Loading, ListedSoFar
  <2> QED BY <1>4, <1>8, <1>10, <2>2, <2>7
<1>11. CASE l.generation = tbGeneration /\ l.page # 0 /\ l.state = "answered"
  <2>1. tbRows = <<GeneralRow>> \o tbListed /\ (Told => ListedSoFar(l))
    BY <1>3, <1>11 DEF Loading
  <2>2. /\ UNCHANGED tbPartial /\ tbRows' = rows /\ tbListed' = tbListed \o l.tabs
        /\ IF l.more THEN tbLoads' = others \cup {next} /\ UNCHANGED tbChoice
           ELSE tbLoads' = others /\ TabsFinished(l.target, rows)
    BY <1>1, <1>6, <1>11 DEF IsCurrent
  <2>3. tbListed' \in TabRows
    BY <1>3, <1>4, <2>2, ConcatProperties DEF TabRows
  <2>4. tbRows' = <<GeneralRow>> \o tbListed'
    <3>1. <<GeneralRow>> \in TabRows
      BY DEF TabRows, TabRecs, GeneralRow, General
    <3> HIDE DEF GeneralRow
    <3>2. ASSUME NEW a \in Seq(TabRecs), NEW b \in Seq(TabRecs), NEW c \in Seq(TabRecs)
          PROVE (a \o b) \o c = a \o (b \o c)
      BY ConcatAssociative
    <3>3. (<<GeneralRow>> \o tbListed) \o l.tabs = <<GeneralRow>> \o (tbListed \o l.tabs)
      BY <1>3, <1>4, <3>1, <3>2 DEF TabRows
    <3> QED BY <2>1, <2>2, <3>3
  <2>5. ASSUME Told
        PROVE /\ tbListed' = SubSeq(tbStored, 1, Len(tbListed')) /\ Len(tbListed') <= Len(tbStored)
              /\ l.more => Len(tbListed') = (next.page - 1) * TbPageSize
              /\ ~l.more => tbListed' = tbStored
    <3> DEFINE end == PageEnd(l.page)
    <3>1. /\ Len(tbListed) = (l.page - 1) * TbPageSize /\ Len(tbListed) <= Len(tbStored)
          /\ tbListed = SubSeq(tbStored, 1, Len(tbListed))
          /\ tbListed' = tbListed \o SubSeq(tbStored, Len(tbListed) + 1, end)
          /\ l.more = (l.page * TbPageSize < Len(tbStored))
      BY <1>11, <2>1, <2>2, <2>5 DEF ListedSoFar
    <3>2. end = IF l.page * TbPageSize < Len(tbStored) THEN l.page * TbPageSize ELSE Len(tbStored)
      BY DEF PageEnd
    <3> HIDE DEF end
    <3>3. /\ tbListed' = SubSeq(tbStored, 1, end) /\ Len(tbListed') = end /\ end <= Len(tbStored)
          /\ l.page * TbPageSize < Len(tbStored) => end = l.page * TbPageSize
          /\ ~(l.page * TbPageSize < Len(tbStored)) => tbListed' = tbStored
      <4>1. AddsPage(tbStored, tbListed, l.page, end, tbListed')
        BY <1>3, <1>4, <1>11, <3>1, <3>2 DEF AddsPage
      <4> QED BY <4>1, PagesAdd
    <3>4. next.page - 1 = l.page
      BY <1>3, <1>6
    <3> QED BY <3>1, <3>3, <3>4
  <2>6. CASE l.more
    <3>1. tbLoads' = others \cup {next} /\ UNCHANGED tbActive
      BY <2>2, <2>6 DEF tbChoice
    <3>2. next.page # 0
      BY <1>3, <1>6
    <3>3. Loading(next)'
      BY <1>2, <1>5, <1>6, <2>4, <2>5, <2>6, <3>2 DEF Loading, ListedSoFar
    <3> QED BY <1>4, <1>8, <1>11, <2>3, <3>1, <3>3
  <2>7. CASE ~l.more
    <3>1. tbLoads' = others /\ TabsFinished(l.target, tbRows')
      BY <2>2, <2>7
    <3>2. /\ tbShown' = tbActive' /\ tbSelected' = tbActive' /\ tbActive' \in IdsIn(tbRows')
          /\ tbActive' \in Int /\ tbActive' # Folder
      BY <2>3, <2>4, <3>1, FinishedIs
    <3>3. Settled'
      BY <1>2, <1>5, <2>4, <2>5, <2>7, <3>2 DEF Settled, IdsIn, Folder
    <3> QED BY <1>9, <1>11, <2>3, <3>1, <3>2, <3>3
  <2> QED BY <2>6, <2>7
<1>12. CASE l.generation = tbGeneration /\ l.page # 0 /\ l.state = "failed"
  <2>1. tbRows = <<GeneralRow>> \o tbListed
    BY <1>3, <1>12 DEF Loading
  <2>2. UNCHANGED <<tbRows, tbListed>> /\ tbPartial' = TRUE /\ tbLoads' = others /\ TabsFinished(l.target, tbRows)
    BY <1>1, <1>12 DEF IsCurrent
  <2>3. /\ tbShown' = tbActive' /\ tbSelected' = tbActive' /\ tbActive' \in IdsIn(tbRows)
        /\ tbActive' \in Int /\ tbActive' # Folder
    BY <1>4, <2>1, <2>2, FinishedIs
  <2>4. Settled'
    BY <2>1, <2>2, <2>3 DEF Settled, IdsIn, Folder
  <2> QED BY <1>4, <1>9, <1>12, <2>2, <2>3, <2>4
<1>13. l.state \in {"asked", "answered", "failed"}
  BY <1>3 DEF TabLoads
<1>14. l.page = 0 \/ l.state \in {"answered", "failed"}
  BY <1>1, <1>13
<1> QED BY <1>7, <1>10, <1>11, <1>12, <1>14

LEMMA TabsStep == ASSUME TabsInv, [TbNext]_tbVars PROVE TabsInv'
<1>1. TabTypes /\ tbStored \in TabRows /\ tbNews \in Nat
  BY DEF TabsInv, TabTypes
<1>2. CASE StartCommand \/ ConfirmDeletion
  BY <1>2, CommandsStart, OthersKeep
<1>3. CASE RunCommand
  <2>1. WorkerStep
    <3>1. CASE FindTab \/ WriteTab
      BY <1>1, <3>1, Finding, Writing
    <3>2. CASE CommandFails
      BY <1>1, <3>2, Answering DEF CommandFails, TabTypes, TabTasks
    <3> QED BY <1>3, <3>1, <3>2 DEF RunCommand
  <2>2. UNCHANGED <<tbNews, tbOwed, tbList, tbChoice>>
    BY <1>3 DEF RunCommand
  <2>3. Told' => Told /\ tbStored' = tbStored
    BY <2>1, <2>2 DEF WorkerStep, Told
  <2>4. OthersStep
    BY <1>1, <2>1, <2>2, <2>3 DEF OthersStep, WorkerStep
  <2> QED BY <2>4, OthersKeep
<1>4. CASE OthersChange
  <2>1. PICK i \in DOMAIN tbStored : tbStored' \in {RemoveAt(tbStored, i), Touched({tbStored[i].id})}
    BY <1>4 DEF OthersChange
  <2>2. tbStored' \in TabRows
    BY <1>1, <2>1, RemovedIs, TouchedIs
  <2>3. tbNews' = tbNews + 1 /\ UNCHANGED <<tbIds, tbTask, tbAnswers, tbOwed, tbList, tbChoice>>
    BY <1>4 DEF OthersChange, tbCommands
  <2>4. tbNews' \in Nat /\ ~Told'
    BY <1>1, <2>3 DEF Told
  <2>5. OthersStep
    BY <1>1, <2>2, <2>3, <2>4 DEF OthersStep, TabTypes
  <2> QED BY <2>5, OthersKeep
<1>5. CASE SeeAnswer \/ SeeNews
  BY <1>5, AnswersSeen, NewsSeen, OwedKeeps
<1>6. CASE ReloadTabs \/ StoreAnswersTabs \/ TabsArrive \/ SelectTab \/ SelectFolder
  BY <1>6, Reloading, Answered, Arriving, Selecting
<1>7. CASE UNCHANGED tbVars
  <2>1. OthersStep
    BY <1>1, <1>7 DEF tbVars, tbCommands, OthersStep, TabTypes, Told
  <2> QED BY <2>1, OthersKeep
<1> QED BY <1>2, <1>3, <1>4, <1>5, <1>6, <1>7 DEF TbNext

LEMMA TabsStart == ASSUME TbInit PROVE TabsInv
<1>1. TbTabs \in Nat
  BY SidebarTabsAssumption
<1>2. tbStored \in TabRows
  <2>1. \A i \in 1..TbTabs : [id |-> i, place |-> i - 1, content |-> 0] \in TabRecs
    BY <1>1 DEF TabRecs
  <2>2. tbStored \in [1..TbTabs -> TabRecs]
    BY <2>1 DEF TbInit
  <2> QED BY <1>1, <2>2, IsASeq DEF TabRows
<1>3. Idle \in TabTasks /\ Idle.kind = "none"
  BY SMT DEF Idle, TabTasks, NoTab
<1>4. /\ tbListed = tbStored /\ tbIds = TbTabs /\ tbTask = Idle /\ tbAnswers = {} /\ tbNews = 0 /\ tbOwed = <<>>
      /\ tbGeneration = 0 /\ tbActive = General /\ tbSelected = General /\ tbShown = General /\ tbLoads = {}
      /\ tbRows = <<GeneralRow>> \o tbListed
  BY DEF TbInit
<1>5. TabTypes
  BY <1>1, <1>2, <1>3, <1>4 DEF TabTypes, General
<1>7. General \in IdsIn(tbRows) /\ General # Folder
  <2>1. GeneralRow \in TabRecs /\ GeneralRow.id = General
    BY DEF GeneralRow, TabRecs, General
  <2> HIDE DEF GeneralRow
  <2>2. 1 \in DOMAIN tbRows /\ tbRows[1] = GeneralRow
    <3>1. Len(tbStored) \in Nat /\ 1 \in 1..1 + Len(tbStored)
      BY <1>2, LenProperties DEF TabRows
    <3>2. <<GeneralRow>> \in TabRows /\ Len(<<GeneralRow>>) = 1 /\ <<GeneralRow>>[1] = GeneralRow
      BY <2>1 DEF TabRows
    <3> QED BY <1>2, <1>4, <3>1, <3>2, ConcatProperties, LenProperties DEF TabRows
  <2> QED BY <2>1, <2>2 DEF IdsIn, General, Folder
<1>8. Settled
  BY <1>4, <1>7 DEF Settled
<1> QED BY <1>4, <1>5, <1>8 DEF TabsInv

\* For any number of tabs, of any size of the pages, and whatever overlaps.
THEOREM TabsShowWhatThereIs == TbSpec => []TabsShowTheLibrary
<1>1. TbInit => TabsInv
  BY TabsStart
<1>2. TabsInv /\ [TbNext]_tbVars => TabsInv'
  BY TabsStep
<1>3. TabsInv => TabsShowTheLibrary
  BY DEF TabsInv, Settled, Told, TabsShowTheLibrary
<1> QED BY <1>1, <1>2, <1>3, PTL DEF TbSpec

-----------------------------------------------------------------------------
(***************************************************************************)
(* SidebarTree.                                                            *)
(*                                                                         *)
(* One pager works on the rows, and all that it has asked for, has and has *)
(* given up agrees with where the rows end.                                *)
(***************************************************************************)

\* Which rows there are for a pager.
RowRecs == [folder : Nat, index : Nat, pager : Nat]
PagerRecs ==
  [loaded : Nat, next : Nat, more : BOOLEAN, pages : SUBSET Nat, focus : Nat, pending : SUBSET Nat,
   request : [page : Nat, state : {"none", "asked", "answered", "failed"}, folders : Seq(Nat)]]

FirstRowOf(page) == page * StPageSize
PagePart(held, page) ==
  SubSeq(held, FirstRowOf(page) + 1, IF FirstRowOf(page + 1) <= Len(held) THEN FirstRowOf(page + 1) ELSE Len(held))

RowsFit(pages, rows, k, held) ==
  /\ rows \in Seq(RowRecs)
  /\ \A i \in 1..Len(rows) :
       /\ rows[i].index = i - 1 /\ rows[i].pager = k /\ rows[i].folder \in {Blank, held[i]}
       /\ rows[i].folder = Blank <=> (i - 1) \div StPageSize \notin pages
Reach(p, n, total) ==
  /\ n <= total /\ n <= FirstRowOf(p.next) /\ p.loaded = n
  /\ IF p.more THEN n = FirstRowOf(p.next) ELSE n = total
  /\ \A a \in p.pages : a < p.next
Work(p, n, held) ==
  /\ \A a \in p.pending : FirstRowOf(a) < n
  /\ p.request.state = "none" => p.pending = {}
  /\ p.request.state # "none" => FirstRowOf(p.request.page) < n \/ (p.more /\ p.request.page = p.next)
  /\ p.request.state = "answered" => p.request.folders = PagePart(held, p.request.page)
PagerFits(p, rows, k, held) ==
  /\ p \in PagerRecs /\ RowsFit(p.pages, rows, k, held) /\ Reach(p, Len(rows), Len(held))
  /\ Cardinality(p.pages) <= StMaxPages /\ Work(p, Len(rows), held)

Idles(k) == stPagers[k].request.state = "none"
TreeFits ==
  /\ \A k \in DOMAIN stPagers : k # stSlot => Idles(k)
  /\ stPagers \in Seq(PagerRecs)
  /\ ~stRequested => stRows = <<>> /\ \A k \in DOMAIN stPagers : Idles(k)
  /\ stRequested => stSlot \in DOMAIN stPagers /\ PagerFits(stPagers[stSlot], stRows, stSlot, stStored)
RootsFit ==
  /\ stGeneration \in Nat /\ stOwed \in Nat /\ \A g \in stLoads : g <= stGeneration /\ g \in Nat
  /\ stRoots \in 0..1 /\ (stGeneration \in stLoads => stRoots = 0)
SiblingsInv ==
  /\ RootsFit /\ stStored \in Seq(Nat \ {0}) /\ stTorn \in BOOLEAN
  /\ stOwed = 0 /\ ~stTorn => TreeFits

LEMMA MinOf == ASSUME NEW S \in SUBSET Nat, S # {} PROVE Min(S) \in S
<1>1. \E x \in S : \A y \in S : x <= y
  BY LeastExists
<1> QED BY <1>1 DEF Min

LEMMA MinOfTwo == ASSUME NEW a \in Nat, NEW b \in Nat PROVE Min({a, b}) = IF a <= b THEN a ELSE b
<1>1. \E x \in {a, b} : \A y \in {a, b} : x <= y
  OBVIOUS
<1>2. Min({a, b}) \in {a, b} /\ \A y \in {a, b} : Min({a, b}) <= y
  BY <1>1 DEF Min
<1> QED BY <1>2

LEMMA PageOfRow ==
  ASSUME NEW i \in Nat, NEW page \in Nat
  PROVE /\ i \div StPageSize \in Nat /\ FirstRowOf(i \div StPageSize) <= i
        /\ FirstRowOf(page) \in Nat /\ FirstRowOf(page + 1) = FirstRowOf(page) + StPageSize
        /\ i \div StPageSize = page <=> FirstRowOf(page) <= i /\ i < FirstRowOf(page) + StPageSize
<1>1. StPageSize \in Nat \ {0}
  BY SidebarTreeAssumption
<1>2. i \div StPageSize \in Nat
  BY <1>1
<1>3. (i \div StPageSize) * StPageSize <= i /\ i < (i \div StPageSize) * StPageSize + StPageSize
  BY <1>1, SMTT(30)
<1>4. page * StPageSize \in Nat /\ (page + 1) * StPageSize = page * StPageSize + StPageSize
  BY <1>1
<1>5. ASSUME page * StPageSize <= i, i < page * StPageSize + StPageSize PROVE i \div StPageSize = page
  BY <1>1, <1>5, SMTT(30)
<1> QED BY <1>2, <1>3, <1>4, <1>5 DEF FirstRowOf

LEMMA FirstRowIs == ASSUME NEW page \in Nat PROVE FirstRowOf(page) \in Nat
BY PageOfRow

LEMMA LaterPages ==
  ASSUME NEW a \in Nat, NEW b \in Nat, FirstRowOf(a) < FirstRowOf(b)
  PROVE a < b
<1>1. StPageSize \in Nat \ {0} /\ a * StPageSize < b * StPageSize
  BY SidebarTreeAssumption DEF FirstRowOf
<1>2. CASE b <= a
  <2>1. b * StPageSize <= a * StPageSize
    BY <1>1, <1>2
  <2> QED BY <1>1, <2>1
<1> QED BY <1>2

LEMMA DistanceIs == ASSUME NEW a \in Nat, NEW b \in Nat PROVE Distance(a, b) \in Nat /\ Distance(a, b) <= a + b
BY DEF Distance

LEMMA NearestIs ==
  ASSUME NEW S \in SUBSET Nat, S # {}, NEW focus \in Nat
  PROVE Min({a \in S : \A b \in S : Distance(a, focus) <= Distance(b, focus)}) \in S
<1> DEFINE D == {Distance(b, focus) : b \in S}
           nearest == {a \in S : \A b \in S : Distance(a, focus) <= Distance(b, focus)}
<1>1. D \in SUBSET Nat /\ D # {}
  BY DistanceIs
<1>2. PICK d \in D : \A e \in D : d <= e
  BY <1>1, LeastExists
<1>3. nearest # {} /\ nearest \in SUBSET Nat /\ nearest \subseteq S
  <2>1. PICK a \in S : d = Distance(a, focus)
    BY <1>2
  <2>2. \A b \in S : Distance(a, focus) <= Distance(b, focus)
    BY <1>2, <2>1
  <2>3. a \in nearest
    BY <2>2
  <2> QED BY <2>3
<1> HIDE DEF nearest
<1>4. Min(nearest) \in S
  BY <1>3, MinOf
<1> QED BY <1>4 DEF nearest

LEMMA FarthestIs ==
  ASSUME NEW S \in SUBSET Nat, S # {}, NEW focus \in Nat, NEW n \in Nat, \A a \in S : a < n
  PROVE Min({a \in S : \A b \in S : Distance(b, focus) <= Distance(a, focus)}) \in S
<1> DEFINE D == {n + focus - Distance(b, focus) : b \in S}
           farthest == {a \in S : \A b \in S : Distance(b, focus) <= Distance(a, focus)}
<1>1. ASSUME NEW b \in S PROVE Distance(b, focus) \in Nat /\ n + focus - Distance(b, focus) \in Nat
  <2>1. b \in Nat /\ b < n
    OBVIOUS
  <2>2. Distance(b, focus) \in Nat /\ Distance(b, focus) <= b + focus
    BY <2>1, DistanceIs
  <2> QED BY <2>1, <2>2
<1>2. D \in SUBSET Nat /\ D # {}
  BY <1>1
<1>3. PICK d \in D : \A e \in D : d <= e
  BY <1>2, LeastExists
<1>4. PICK a \in S : d = n + focus - Distance(a, focus)
  BY <1>3
<1>5. \A b \in S : n + focus - Distance(a, focus) <= n + focus - Distance(b, focus)
  BY <1>3, <1>4
<1>6. ASSUME NEW b \in S PROVE Distance(b, focus) <= Distance(a, focus)
  <2>1. Distance(a, focus) \in Nat /\ Distance(b, focus) \in Nat
    BY <1>1
  <2>2. n + focus - Distance(a, focus) <= n + focus - Distance(b, focus)
    BY <1>5
  <2> QED BY <2>1, <2>2
<1>7. farthest # {} /\ farthest \in SUBSET Nat /\ farthest \subseteq S
  BY <1>6
<1> HIDE DEF farthest
<1>8. Min(farthest) \in S
  BY <1>7, MinOf
<1> QED BY <1>8 DEF farthest

\* A page too many is given up, and one only.
LEMMA VictimsAre ==
  ASSUME NEW p \in PagerRecs, \A a \in p.pages : a < p.next
  PROVE /\ IsFiniteSet(p.pages) /\ Cardinality(p.pages) \in Nat /\ Victims(p) \subseteq p.pages
        /\ Cardinality(p.pages) <= StMaxPages + 1 => Cardinality(p.pages \ Victims(p)) <= StMaxPages
<1>1. p.next \in Nat /\ p.focus \in Nat /\ p.pages \in SUBSET Nat
  BY DEF PagerRecs
<1>2. p.pages \subseteq 0..p.next
  BY <1>1
<1>3. IsFiniteSet(p.pages)
  <2>1. IsFiniteSet(0..p.next)
    BY <1>1, FS_Interval
  <2> QED BY <1>2, <2>1, FS_Subset
<1>4. Cardinality(p.pages) \in Nat /\ StMaxPages \in Nat \ {0}
  BY <1>3, FS_CardinalityType, SidebarTreeAssumption
<1>5. CASE Cardinality(p.pages) <= StMaxPages
  <2>1. Victims(p) = {}
    BY <1>5 DEF Victims
  <2>2. p.pages \ Victims(p) = p.pages
    BY <2>1
  <2> QED BY <1>3, <1>4, <1>5, <2>1, <2>2
<1>6. CASE ~(Cardinality(p.pages) <= StMaxPages)
  <2> DEFINE v == Min({a \in p.pages : \A b \in p.pages : Distance(b, p.focus) <= Distance(a, p.focus)})
  <2>1. Victims(p) = {v}
    BY <1>6 DEF Victims
  <2>2. p.pages # {}
    BY <1>4, <1>6, FS_EmptySet
  <2>3. v \in p.pages
    BY <1>1, <2>2, FarthestIs
  <2> HIDE DEF v
  <2>4. Cardinality(p.pages \ {v}) = Cardinality(p.pages) - 1
    BY <1>3, <2>3, FS_RemoveElement
  <2> QED BY <1>3, <1>4, <2>1, <2>3, <2>4
<1> QED BY <1>5, <1>6

\* What is done to a pager beside its pages.
Keeps(p, q) ==
  q \in PagerRecs /\ q.loaded = p.loaded /\ q.next = p.next /\ q.more = p.more /\ q.pages = p.pages

LEMMA KeepsFits ==
  ASSUME NEW p, NEW q, NEW rows, NEW k, NEW held, PagerFits(p, rows, k, held), Keeps(p, q), Work(q, Len(rows), held)
  PROVE PagerFits(q, rows, k, held)
BY DEF PagerFits, Keeps, Reach

LEMMA Requesting ==
  ASSUME NEW p \in PagerRecs, NEW page \in Nat
  PROVE LET q == [p EXCEPT !.request = [NoRequest EXCEPT !.page = page, !.state = "asked"]]
        IN Keeps(p, q) /\ q.request.page = page /\ q.request.state = "asked" /\ q.pending = p.pending
<1> DEFINE request == [NoRequest EXCEPT !.page = page, !.state = "asked"]
<1>1. <<>> \in Seq(Nat)
  OBVIOUS
<1>2. request \in [page : Nat, state : {"none", "asked", "answered", "failed"}, folders : Seq(Nat)]
  BY <1>1 DEF NoRequest
<1>3. request.page = page /\ request.state = "asked"
  BY DEF NoRequest
<1> HIDE DEF request
<1>4. LET q == [p EXCEPT !.request = request]
      IN Keeps(p, q) /\ q.request = request /\ q.pending = p.pending
  BY <1>2 DEF Keeps, PagerRecs
<1> QED BY <1>3, <1>4 DEF request

LEMMA PageAskedFor ==
  ASSUME NEW p \in PagerRecs, NEW page \in Nat, NEW n, NEW held, Work(p, n, held),
         FirstRowOf(page) < n \/ (p.more /\ page = p.next /\ ~Busy(p))
  PROVE Keeps(p, WithPage(p, page)) /\ Work(WithPage(p, page), n, held)
<1>1. CASE page \in p.pages
  BY <1>1 DEF WithPage, Keeps
<1>2. CASE page \notin p.pages /\ Busy(p)
  <2> DEFINE q == [p EXCEPT !.pending = @ \cup {page}]
  <2>1. Keeps(p, q) /\ q.pending = p.pending \cup {page} /\ q.request = p.request
    BY DEF Keeps, PagerRecs
  <2>2. WithPage(p, page) = q
    BY <1>2 DEF WithPage
  <2> HIDE DEF q
  <2>3. Work(q, n, held)
    BY <1>2, <2>1 DEF Work, Keeps, Busy
  <2> QED BY <2>1, <2>2, <2>3
<1>3. CASE page \notin p.pages /\ ~Busy(p)
  <2> DEFINE q == [p EXCEPT !.request = [NoRequest EXCEPT !.page = page, !.state = "asked"]]
  <2>1. Keeps(p, q) /\ q.request.page = page /\ q.request.state = "asked" /\ q.pending = p.pending
    BY Requesting
  <2>2. WithPage(p, page) = q
    BY <1>3 DEF WithPage
  <2> HIDE DEF q
  <2>3. Work(q, n, held)
    BY <1>3, <2>1 DEF Work, Keeps, Busy
  <2> QED BY <2>1, <2>2, <2>3
<1> QED BY <1>1, <1>2, <1>3

\* The pages that wait are asked for one after the other.
LEMMA DrainedIs ==
  ASSUME NEW p \in PagerRecs, NEW n, NEW held, p.request.state = "none", \A a \in p.pending : FirstRowOf(a) < n
  PROVE /\ Keeps(p, Drained(p)) /\ Work(Drained(p), n, held)
        /\ p.pending = {} => Drained(p).request.state = "none"
<1> DEFINE waiting == p.pending \ p.pages
           m == Min({a \in waiting : \A b \in waiting : Distance(a, p.focus) <= Distance(b, p.focus)})
<1>1. CASE waiting = {}
  <2> DEFINE q == [p EXCEPT !.pending = {}]
  <2>1. Keeps(p, q) /\ q.pending = {} /\ q.request = p.request
    BY DEF Keeps, PagerRecs
  <2>2. Drained(p) = q
    BY <1>1 DEF Drained
  <2> HIDE DEF q
  <2> QED BY <2>1, <2>2 DEF Work
<1>2. CASE waiting # {}
  <2>1. waiting \in SUBSET Nat /\ p.focus \in Nat
    BY DEF PagerRecs
  <2>2. m \in waiting
    BY <1>2, <2>1, NearestIs
  <2> DEFINE less == [p EXCEPT !.pending = @ \ {m}]
  <2>3. Drained(p) = WithPage(less, m)
    BY <1>2 DEF Drained
  <2> HIDE DEF m
  <2>4. Keeps(p, less) /\ less.pending = p.pending \ {m} /\ less.request = p.request
    BY DEF Keeps, PagerRecs
  <2> HIDE DEF less
  <2> DEFINE q == [less EXCEPT !.request = [NoRequest EXCEPT !.page = m, !.state = "asked"]]
  <2>5. WithPage(less, m) = q
    BY <2>2, <2>4 DEF WithPage, Busy, Keeps
  <2>6. Keeps(less, q) /\ q.request.page = m /\ q.request.state = "asked" /\ q.pending = less.pending
    BY <2>1, <2>2, <2>4, Requesting DEF Keeps
  <2> HIDE DEF q
  <2>7. FirstRowOf(m) < n
    BY <2>2
  <2>8. Work(q, n, held)
    BY <2>4, <2>6, <2>7 DEF Work
  <2> QED BY <1>2, <2>3, <2>4, <2>5, <2>6, <2>8 DEF Keeps
<1> QED BY <1>1, <1>2

LEMMA PagePartIs ==
  ASSUME NEW held \in Seq(Nat \ {0}), NEW page \in Nat, FirstRowOf(page) <= Len(held)
  PROVE LET part == PagePart(held, page)
            start == FirstRowOf(page)
        IN /\ part \in Seq(Nat) /\ start \in Nat /\ Len(part) \in Nat
           /\ start + Len(part) = IF start + StPageSize <= Len(held) THEN start + StPageSize ELSE Len(held)
           /\ \A j \in 1..Len(part) : part[j] = held[start + j] /\ part[j] \in Nat \ {0}
<1> DEFINE part == PagePart(held, page)
           start == FirstRowOf(page)
           end == IF start + StPageSize <= Len(held) THEN start + StPageSize ELSE Len(held)
<1>1. start \in Nat /\ FirstRowOf(page + 1) = start + StPageSize /\ StPageSize \in Nat \ {0} /\ Len(held) \in Nat
  BY PageOfRow, SidebarTreeAssumption, LenProperties
<1>2. part = SubSeq(held, start + 1, end)
  BY <1>1 DEF PagePart
<1> HIDE DEF part, start
<1>3. start <= end /\ end <= Len(held) /\ end \in Nat
  BY <1>1 DEF start
<1> HIDE DEF end
<1>4. \A i \in start + 1..end : held[i] \in Nat \ {0}
  BY <1>1, <1>3, ElementOfSeq
<1>5. /\ SubSeq(held, start + 1, end) \in Seq(Nat \ {0})
      /\ Len(SubSeq(held, start + 1, end)) = IF start + 1 <= end THEN end - (start + 1) + 1 ELSE 0
      /\ \A i \in 1..end - (start + 1) + 1 : SubSeq(held, start + 1, end)[i] = held[(start + 1) + i - 1]
  BY <1>1, <1>3, <1>4, SubSeqProperties
<1>6. Len(part) = end - start /\ Len(part) \in Nat
  BY <1>1, <1>2, <1>3, <1>5
<1>7. \A j \in 1..Len(part) : part[j] = held[start + j] /\ part[j] \in Nat \ {0}
  <2> SUFFICES ASSUME NEW j \in 1..Len(part) PROVE part[j] = held[start + j] /\ held[start + j] \in Nat \ {0}
    OBVIOUS
  <2>1. (start + 1) + j - 1 = start + j /\ start + j \in start + 1..end /\ j \in 1..end - (start + 1) + 1
    BY <1>1, <1>3, <1>6
  <2> QED BY <1>2, <1>4, <1>5, <2>1
<1>8. part \in Seq(Nat)
  BY <1>2, <1>5, SeqMonotonic
<1> QED BY <1>1, <1>3, <1>6, <1>7, <1>8 DEF part, start, end

\* The rows of the pages that are given up become blank.
LEMMA BlankedIs ==
  ASSUME NEW p \in PagerRecs, NEW rows, NEW k \in Nat, NEW held,
         RowsFit(p.pages, rows, k, held), Reach(p, Len(rows), Len(held))
  PROVE LET after == BlankRows(k, p, rows)
        IN Len(after) = Len(rows) /\ RowsFit(p.pages \ Victims(p), after, k, held)
<1> DEFINE after == BlankRows(k, p, rows)
           gone(i) == (i - 1) \div StPageSize \in Victims(p)
<1>1. rows \in Seq(RowRecs) /\ Len(rows) \in Nat /\ DOMAIN rows = 1..Len(rows) /\ \A i \in 1..Len(rows) : rows[i] \in RowRecs
  BY LenProperties, ElementOfSeq DEF RowsFit
<1>2. /\ DOMAIN after = 1..Len(rows)
      /\ \A i \in 1..Len(rows) : after[i] = IF gone(i) THEN [folder |-> Blank, index |-> i - 1, pager |-> k] ELSE rows[i]
  BY <1>1 DEF BlankRows
<1>3. \A i \in 1..Len(rows) : [folder |-> Blank, index |-> i - 1, pager |-> k] \in RowRecs
  BY <1>1 DEF RowRecs, Blank
<1>4. after \in [1..Len(rows) -> RowRecs]
  <2>1. after = [i \in 1..Len(rows) |-> IF gone(i) THEN [folder |-> Blank, index |-> i - 1, pager |-> k] ELSE rows[i]]
    BY <1>1 DEF BlankRows
  <2> QED BY <1>1, <1>3, <2>1
<1>5. after \in Seq(RowRecs) /\ Len(after) = Len(rows)
  BY <1>1, <1>4, IsASeq, LenProperties
<1>6. Victims(p) \subseteq p.pages
  BY VictimsAre DEF Reach
<1>7. ASSUME NEW i \in 1..Len(after)
      PROVE /\ after[i].index = i - 1 /\ after[i].pager = k /\ after[i].folder \in {Blank, held[i]}
            /\ after[i].folder = Blank <=> (i - 1) \div StPageSize \notin p.pages \ Victims(p)
  <2>1. CASE gone(i)
    <3>1. after[i] = [folder |-> Blank, index |-> i - 1, pager |-> k]
      BY <1>2, <1>5, <2>1
    <3> QED BY <2>1, <3>1
  <2>2. CASE ~gone(i)
    <3>1. after[i] = rows[i] /\ i \in 1..Len(rows)
      BY <1>2, <1>5, <2>2
    <3> QED BY <2>2, <3>1 DEF RowsFit
  <2> QED BY <2>1, <2>2
<1> HIDE DEF after
<1>8. RowsFit(p.pages \ Victims(p), after, k, held)
  BY <1>5, <1>7 DEF RowsFit
<1> QED BY <1>5, <1>8 DEF after

\* A page that came, behind the rows or in place of some.
NodesOf(folders, start, k) == [i \in DOMAIN folders |-> [folder |-> folders[i], index |-> start + i - 1, pager |-> k]]
RowsAfter(rows, nodes, start) ==
  IF start >= Len(rows) THEN rows \o nodes
  ELSE [i \in DOMAIN rows |->
          IF i \in start + 1..start + Min({Len(nodes), Len(rows) - start}) THEN nodes[i - start] ELSE rows[i]]
LEMMA NodesAre ==
  ASSUME NEW held \in Seq(Nat \ {0}), NEW page \in Nat, FirstRowOf(page) <= Len(held), NEW k \in Nat
  PROVE LET start == FirstRowOf(page)
            nodes == NodesOf(PagePart(held, page), start, k)
        IN /\ nodes \in Seq(RowRecs) /\ Len(nodes) \in Nat /\ Len(nodes) <= StPageSize
           /\ start + Len(nodes) = IF start + StPageSize <= Len(held) THEN start + StPageSize ELSE Len(held)
           /\ \A j \in 1..Len(nodes) :
                /\ nodes[j].folder = held[start + j] /\ nodes[j].folder # Blank
                /\ nodes[j].index = start + j - 1 /\ nodes[j].pager = k
<1> DEFINE part == PagePart(held, page)
           start == FirstRowOf(page)
           nodes == NodesOf(part, start, k)
<1>1. /\ part \in Seq(Nat) /\ start \in Nat /\ Len(part) \in Nat
      /\ start + Len(part) = IF start + StPageSize <= Len(held) THEN start + StPageSize ELSE Len(held)
      /\ \A j \in 1..Len(part) : part[j] = held[start + j] /\ part[j] \in Nat \ {0}
  BY PagePartIs
<1> HIDE DEF part, start
<1>2. DOMAIN part = 1..Len(part)
  BY <1>1, LenProperties
<1>3. \A j \in 1..Len(part) : [folder |-> part[j], index |-> start + j - 1, pager |-> k] \in RowRecs
  BY <1>1 DEF RowRecs
<1>4. nodes \in [1..Len(part) -> RowRecs]
  BY <1>2, <1>3 DEF NodesOf
<1>5. nodes \in Seq(RowRecs) /\ Len(nodes) = Len(part)
  <2> DEFINE n == Len(part)
  <2>1. n \in Nat /\ nodes \in [1..n -> RowRecs]
    BY <1>1, <1>4
  <2> HIDE DEF n, nodes
  <2>2. nodes \in Seq(RowRecs)
    BY <2>1, IsASeq
  <2>3. Len(nodes) = n
    BY <2>1, <2>2, LenProperties
  <2> QED BY <2>2, <2>3 DEF n
<1>6. \A j \in 1..Len(part) : nodes[j] = [folder |-> part[j], index |-> start + j - 1, pager |-> k]
  BY <1>2 DEF NodesOf
<1> HIDE DEF nodes
<1>7. ASSUME NEW j \in 1..Len(nodes)
      PROVE /\ nodes[j].folder = held[start + j] /\ nodes[j].folder # Blank
            /\ nodes[j].index = start + j - 1 /\ nodes[j].pager = k
  <2>1. nodes[j] = [folder |-> part[j], index |-> start + j - 1, pager |-> k]
    BY <1>5, <1>6
  <2>2. part[j] = held[start + j] /\ part[j] # Blank
    BY <1>1, <1>5 DEF Blank
  <2> QED BY <2>1, <2>2
<1>8. Len(nodes) <= StPageSize
  BY <1>1, <1>5, SidebarTreeAssumption, LenProperties
<1> QED BY <1>1, <1>5, <1>7, <1>8 DEF nodes, start, part

NodesOfPage(k, held, page) == NodesOf(PagePart(held, page), FirstRowOf(page), k)
RowsWith(rows, k, held, page) == RowsAfter(rows, NodesOfPage(k, held, page), FirstRowOf(page))
RowsWait(pages, rows, k, held, page) ==
  /\ k \in Nat /\ held \in Seq(Nat \ {0}) /\ page \in Nat
  /\ RowsFit(pages, rows, k, held) /\ Len(rows) <= Len(held) /\ FirstRowOf(page) <= Len(rows)
RowsCome(pages, rows, k, held, page) ==
  /\ RowsFit(pages \cup {page}, RowsWith(rows, k, held, page), k, held)
  /\ Len(RowsWith(rows, k, held, page)) =
       IF FirstRowOf(page) >= Len(rows) THEN FirstRowOf(page) + Len(NodesOfPage(k, held, page)) ELSE Len(rows)

LEMMA ReplacedAre ==
  ASSUME NEW got \in Nat, NEW n \in Nat, NEW start \in Nat, NEW size \in Nat, NEW total \in Nat, NEW replaced,
         ~(start >= n), n <= total, got <= size,
         start + got = IF start + size <= total THEN start + size ELSE total,
         replaced = IF got <= n - start THEN got ELSE n - start
  PROVE /\ replaced \in Nat /\ replaced <= got
        /\ \A i \in 1..n : i <= start + replaced <=> i <= start + size
OBVIOUS

LEMMA RowsAfterAre ==
  ASSUME NEW pages, NEW rows, NEW k, NEW held, NEW page, RowsWait(pages, rows, k, held, page)
  PROVE  RowsCome(pages, rows, k, held, page)
<1> SUFFICES ASSUME k \in Nat, held \in Seq(Nat \ {0}), page \in Nat,
                    RowsFit(pages, rows, k, held), Len(rows) <= Len(held), FirstRowOf(page) <= Len(rows)
             PROVE  RowsCome(pages, rows, k, held, page)
  BY DEF RowsWait
<1> DEFINE start == FirstRowOf(page)
           nodes == NodesOf(PagePart(held, page), start, k)
           after == RowsAfter(rows, nodes, start)
           n == Len(rows)
<1>1. /\ rows \in Seq(RowRecs) /\ n \in Nat /\ DOMAIN rows = 1..n /\ Len(held) \in Nat
      /\ \A i \in 1..n : rows[i] \in RowRecs
  BY LenProperties, ElementOfSeq DEF RowsFit
<1>2. start \in Nat /\ start <= n /\ n <= Len(held) /\ StPageSize \in Nat \ {0}
  BY PageOfRow, SidebarTreeAssumption
<1> HIDE DEF n
<1>0. FirstRowOf(page) <= Len(held)
  BY <1>1, <1>2
<1>3. /\ nodes \in Seq(RowRecs) /\ Len(nodes) \in Nat /\ Len(nodes) <= StPageSize
      /\ start + Len(nodes) = IF start + StPageSize <= Len(held) THEN start + StPageSize ELSE Len(held)
  BY <1>0, NodesAre
<1>4. \A j \in 1..Len(nodes) :
         /\ nodes[j].folder = held[start + j] /\ nodes[j].folder # Blank
         /\ nodes[j].index = start + j - 1 /\ nodes[j].pager = k
  BY <1>0, NodesAre
<1> HIDE DEF nodes
<1>5. ASSUME NEW i \in Nat \ {0}
      PROVE (i - 1) \div StPageSize = page <=> i \in start + 1..start + StPageSize
  <2>1. i - 1 \in Nat
    OBVIOUS
  <2>2. (i - 1) \div StPageSize = page <=> start <= i - 1 /\ i - 1 < start + StPageSize
    BY <2>1, PageOfRow
  <2> HIDE DEF start
  <2> QED BY <1>2, <2>2
<1>6. \A i \in 1..n :
         /\ rows[i].index = i - 1 /\ rows[i].pager = k /\ rows[i].folder \in {Blank, held[i]}
         /\ rows[i].folder = Blank <=> (i - 1) \div StPageSize \notin pages
  BY DEF RowsFit, n
<1> HIDE DEF start
<1>7. CASE start >= n
  <2>1. after = rows \o nodes /\ start = n
    <3>1. start >= Len(rows)
      BY <1>7 DEF n
    <3>2. after = rows \o nodes
      BY <3>1 DEF RowsAfter
    <3>3. start = n
      BY <1>1, <1>2, <1>7
    <3> QED BY <3>2, <3>3
  <2>2. /\ after \in Seq(RowRecs) /\ Len(after) = n + Len(nodes)
        /\ \A i \in 1..n + Len(nodes) : after[i] = IF i <= n THEN rows[i] ELSE nodes[i - n]
    BY <1>1, <1>3, <2>1, ConcatProperties DEF n
  <2> HIDE DEF after
  <2>3. ASSUME NEW i \in 1..n + Len(nodes)
        PROVE /\ after[i].index = i - 1 /\ after[i].pager = k /\ after[i].folder \in {Blank, held[i]}
              /\ after[i].folder = Blank <=> (i - 1) \div StPageSize \notin pages \cup {page}
    <3>1. CASE i <= n
      <4>1. i \in 1..n /\ i \in Nat \ {0} /\ i \notin start + 1..start + StPageSize
        BY <1>1, <2>1, <3>1
      <4>2. after[i] = rows[i] /\ (i - 1) \div StPageSize # page
        BY <1>5, <2>2, <3>1, <4>1
      <4> QED BY <1>6, <4>1, <4>2
    <3>2. CASE ~(i <= n)
      <4> DEFINE j == i - n
      <4>1. j \in 1..Len(nodes) /\ i \in Nat \ {0} /\ i \in start + 1..start + StPageSize /\ start + j = i
        BY <1>1, <1>2, <1>3, <2>1, <3>2
      <4>2. after[i] = nodes[j] /\ (i - 1) \div StPageSize = page
        BY <1>5, <2>2, <3>2, <4>1
      <4> HIDE DEF j
      <4>3. /\ nodes[j].folder = held[start + j] /\ nodes[j].folder # Blank
            /\ nodes[j].index = start + j - 1 /\ nodes[j].pager = k
        BY <1>4, <4>1
      <4>4. nodes[j].index = i - 1
        BY <1>2, <1>3, <4>1, <4>3
      <4> QED BY <4>1, <4>2, <4>3, <4>4
    <3> QED BY <3>1, <3>2
  <2> QED BY <1>7, <2>1, <2>2, <2>3 DEF RowsCome, RowsFit, RowsWith, NodesOfPage, start, nodes, after, n
<1>8. CASE ~(start >= n)
  <2> DEFINE replaced == Min({Len(nodes), n - start})
             there == start + 1..start + replaced
  <2>1. n - start \in Nat /\ n - start # 0
    BY <1>1, <1>2, <1>8
  <2>2. replaced = IF Len(nodes) <= n - start THEN Len(nodes) ELSE n - start
    BY <1>3, <2>1, MinOfTwo
  <2> HIDE DEF replaced
  <2>3. /\ replaced \in Nat /\ replaced <= Len(nodes)
        /\ \A i \in 1..n : i \in there <=> i \in start + 1..start + StPageSize
    <3>1. Len(held) \in Nat /\ ~(start >= n)
      BY <1>1, <1>8
    <3>2. replaced \in Nat /\ replaced <= Len(nodes) /\ \A i \in 1..n : i <= start + replaced <=> i <= start + StPageSize
      BY <1>1, <1>2, <1>3, <2>2, <3>1, ReplacedAre
    <3>3. ASSUME NEW i \in 1..n PROVE i \in there <=> i \in start + 1..start + StPageSize
      <4>1. i <= start + replaced <=> i <= start + StPageSize
        BY <3>2
      <4>2. i \in Int /\ start \in Int /\ StPageSize \in Int /\ replaced \in Int
        BY <1>1, <1>2, <3>2
      <4> QED BY <4>1, <4>2
    <3> QED BY <3>2, <3>3
  <2>4. after = [i \in 1..n |-> IF i \in there THEN nodes[i - start] ELSE rows[i]]
    BY <1>1, <1>8 DEF RowsAfter, replaced, n
  <2>5. \A i \in 1..n : i \in there => i - start \in 1..Len(nodes) /\ start + (i - start) = i
    BY <1>1, <1>2, <1>3, <2>3
  <2>6. \A i \in 1..n : (IF i \in there THEN nodes[i - start] ELSE rows[i]) \in RowRecs
    BY <1>1, <1>3, <2>5, ElementOfSeq
  <2>7. after \in Seq(RowRecs) /\ Len(after) = n
    <3>1. after \in [1..n -> RowRecs]
      BY <2>4, <2>6
    <3> HIDE DEF after
    <3>2. after \in Seq(RowRecs)
      BY <1>1, <3>1, IsASeq
    <3> QED BY <1>1, <3>1, <3>2, LenProperties
  <2> HIDE DEF after, there
  <2>8. ASSUME NEW i \in 1..n
        PROVE /\ after[i].index = i - 1 /\ after[i].pager = k /\ after[i].folder \in {Blank, held[i]}
              /\ after[i].folder = Blank <=> (i - 1) \div StPageSize \notin pages \cup {page}
    <3>1. i \in Nat \ {0}
      BY <1>1
    <3>2. CASE i \in there
      <4> DEFINE j == i - start
      <4>1. j \in 1..Len(nodes) /\ start + j = i /\ after[i] = nodes[j]
        BY <2>4, <2>5, <3>2
      <4>2. (i - 1) \div StPageSize = page
        BY <1>5, <2>3, <3>1, <3>2
      <4> HIDE DEF j
      <4>3. /\ nodes[j].folder = held[start + j] /\ nodes[j].folder # Blank
            /\ nodes[j].index = start + j - 1 /\ nodes[j].pager = k
        BY <1>4, <4>1
      <4>4. nodes[j].index = i - 1
        BY <1>2, <1>3, <4>1, <4>3
      <4> QED BY <4>1, <4>2, <4>3, <4>4
    <3>3. CASE i \notin there
      <4>1. after[i] = rows[i] /\ (i - 1) \div StPageSize # page
        BY <1>5, <2>3, <2>4, <3>1, <3>3
      <4> QED BY <1>6, <4>1
    <3> QED BY <3>2, <3>3
  <2> QED BY <1>8, <2>7, <2>8 DEF RowsCome, RowsFit, RowsWith, NodesOfPage, start, nodes, after, n
<1> QED BY <1>7, <1>8

\* What PageArrives makes of a pager and its rows.
LEMMA PageComes ==
  ASSUME NEW p, NEW rows, NEW k \in Nat, NEW held \in Seq(Nat \ {0}), PagerFits(p, rows, k, held),
         p.request.state = "answered"
  PROVE LET page == p.request.page
            start == FirstRowOf(page)
            nodes == NodesOf(p.request.folders, start, k)
            idle == [p EXCEPT !.pages = @ \cup {page}, !.request = NoRequest]
            came == IF start < Len(rows) THEN idle
                    ELSE [idle EXCEPT !.loaded = start + Len(nodes), !.next = page + 1, !.more = Len(nodes) = StPageSize]
        IN PagerFits(Drained(Evicted(came)), BlankRows(k, came, RowsAfter(rows, nodes, start)), k, held)
<1> DEFINE page == p.request.page
           start == FirstRowOf(page)
           nodes == NodesOf(p.request.folders, start, k)
           after == RowsAfter(rows, nodes, start)
           idle == [p EXCEPT !.pages = @ \cup {page}, !.request = NoRequest]
           came == IF start < Len(rows) THEN idle
                   ELSE [idle EXCEPT !.loaded = start + Len(nodes), !.next = page + 1, !.more = Len(nodes) = StPageSize]
<1>1. p \in PagerRecs /\ page \in Nat /\ p.next \in Nat /\ p.loaded \in Nat /\ p.pages \in SUBSET Nat
  BY DEF PagerFits, PagerRecs
<1>2. /\ RowsFit(p.pages, rows, k, held) /\ Reach(p, Len(rows), Len(held)) /\ Cardinality(p.pages) <= StMaxPages
      /\ \A a \in p.pending : FirstRowOf(a) < Len(rows)
      /\ start < Len(rows) \/ (p.more /\ page = p.next)
      /\ p.request.folders = PagePart(held, page)
  BY DEF PagerFits, Work
<1>3. /\ Len(rows) \in Nat /\ Len(held) \in Nat /\ start \in Nat /\ FirstRowOf(page + 1) = start + StPageSize
      /\ StPageSize \in Nat \ {0} /\ StMaxPages \in Nat /\ FirstRowOf(p.next) \in Nat
  BY <1>1, <1>2, PageOfRow, SidebarTreeAssumption, LenProperties DEF RowsFit
<1>4. Len(rows) <= Len(held) /\ (start >= Len(rows) => p.more /\ page = p.next /\ start = Len(rows)) /\ start <= Len(rows)
  BY <1>2, <1>3 DEF Reach
<1>5. start < Len(rows) => page < p.next
  <2> SUFFICES ASSUME start < Len(rows) PROVE page < p.next
    OBVIOUS
  <2>1. FirstRowOf(page) < FirstRowOf(p.next)
    BY <1>2, <1>3 DEF Reach
  <2> QED BY <1>1, <2>1, LaterPages
<1>6. /\ RowsFit(p.pages \cup {page}, after, k, held)
      /\ Len(after) = IF start >= Len(rows) THEN start + Len(nodes) ELSE Len(rows)
  <2>1. RowsFit(p.pages, rows, k, held) /\ FirstRowOf(page) <= Len(rows) /\ Len(rows) <= Len(held) /\ page \in Nat
    BY <1>1, <1>2, <1>4
  <2>2. nodes = NodesOfPage(k, held, page) /\ after = RowsWith(rows, k, held, page)
    BY <1>2 DEF NodesOfPage, RowsWith
  <2> HIDE DEF page, nodes, after
  <2>3. RowsWait(p.pages, rows, k, held, page)
    BY <2>1 DEF RowsWait
  <2>4. RowsCome(p.pages, rows, k, held, page)
    BY <2>3, RowsAfterAre
  <2> QED BY <2>2, <2>4 DEF RowsCome
<1>7. /\ Len(nodes) \in Nat /\ Len(nodes) <= StPageSize
      /\ start + Len(nodes) = IF start + StPageSize <= Len(held) THEN start + StPageSize ELSE Len(held)
  <2>1. FirstRowOf(page) <= Len(held)
    BY <1>1, <1>3, <1>4
  <2>2. nodes = NodesOf(PagePart(held, page), start, k)
    BY <1>2
  <2>3. page \in Nat
    BY <1>1
  <2> HIDE DEF page, nodes
  <2>4. LET ns == NodesOf(PagePart(held, page), FirstRowOf(page), k)
        IN /\ Len(ns) \in Nat /\ Len(ns) <= StPageSize
           /\ FirstRowOf(page) + Len(ns) = IF FirstRowOf(page) + StPageSize <= Len(held) THEN FirstRowOf(page) + StPageSize ELSE Len(held)
    BY <2>1, <2>3, NodesAre
  <2> QED BY <2>2, <2>4
<1> HIDE DEF nodes, after, start
<1>8. /\ idle \in PagerRecs /\ idle.pages = p.pages \cup {page} /\ idle.request.state = "none" /\ idle.pending = p.pending
      /\ idle.loaded = p.loaded /\ idle.next = p.next /\ idle.more = p.more
  <2>1. NoRequest \in [page : Nat, state : {"none", "asked", "answered", "failed"}, folders : Seq(Nat)] /\ NoRequest.state = "none"
    <3>1. <<>> \in Seq(Nat)
      OBVIOUS
    <3> QED BY <3>1 DEF NoRequest
  <2> HIDE DEF page
  <2> QED BY <1>1, <2>1 DEF PagerRecs
<1> HIDE DEF idle, page
<1>9. /\ came \in PagerRecs /\ came.pages = p.pages \cup {page} /\ came.request.state = "none" /\ came.pending = p.pending
      /\ start < Len(rows) => came.loaded = p.loaded /\ came.next = p.next /\ came.more = p.more
      /\ ~(start < Len(rows)) => came.loaded = start + Len(nodes) /\ came.next = page + 1 /\ came.more = (Len(nodes) = StPageSize)
  <2>1. CASE start < Len(rows)
    BY <1>8, <2>1
  <2>2. CASE ~(start < Len(rows))
    <3> DEFINE more == Len(nodes) = StPageSize
               loaded == start + Len(nodes)
    <3>1. loaded \in Nat /\ page + 1 \in Nat /\ more \in BOOLEAN
      <4>1. page + 1 \in Nat
        BY <1>1 DEF page
      <4>2. loaded \in Nat
        BY <1>3, <1>7
      <4> QED BY <4>1, <4>2
    <3> HIDE DEF loaded, more
    <3>2. came = [idle EXCEPT !.loaded = loaded, !.next = page + 1, !.more = more]
      BY <2>2 DEF loaded, more
    <3> HIDE DEF came
    <3>3. /\ came \in PagerRecs /\ came.pages = idle.pages /\ came.request = idle.request /\ came.pending = idle.pending
          /\ came.loaded = loaded /\ came.next = page + 1 /\ came.more = more
      BY <1>8, <3>1, <3>2 DEF PagerRecs
    <3> QED BY <1>8, <2>2, <3>3 DEF loaded, more
  <2> QED BY <2>1, <2>2
<1> HIDE DEF came
<1>10. Reach(came, Len(after), Len(held))
  <2>1. CASE start < Len(rows)
    BY <1>2, <1>3, <1>5, <1>6, <1>9, <2>1 DEF Reach, page, start
  <2>2. CASE ~(start < Len(rows))
    <3>1. start >= Len(rows) /\ start = Len(rows) /\ page = p.next /\ Len(after) = start + Len(nodes)
      BY <1>3, <1>4, <1>6, <2>2 DEF page, start
    <3>2. \A a \in p.pages \cup {page} : a < page + 1
      BY <1>1, <1>2, <3>1 DEF Reach, page
    <3>3. start + Len(nodes) <= FirstRowOf(page + 1)
      BY <1>3, <1>7
    <3>4. IF Len(nodes) = StPageSize THEN start + Len(nodes) = FirstRowOf(page + 1) ELSE start + Len(nodes) = Len(held)
      BY <1>3, <1>7 DEF page, start
    <3>5. start + Len(nodes) <= Len(held)
      BY <1>3, <1>7
    <3> QED BY <1>9, <2>2, <3>1, <3>2, <3>3, <3>4, <3>5 DEF Reach
  <2> QED BY <2>1, <2>2
<1>11. Len(rows) <= Len(after)
  BY <1>3, <1>4, <1>6, <1>7 DEF start, page
<1> DEFINE blanked == BlankRows(k, came, after)
           kept == Evicted(came)
<1>12. Len(blanked) = Len(after) /\ RowsFit(came.pages \ Victims(came), blanked, k, held)
  BY <1>6, <1>9, <1>10, BlankedIs
<1>13. Cardinality(came.pages \ Victims(came)) <= StMaxPages
  <2>1. IsFiniteSet(p.pages) /\ Cardinality(p.pages) \in Nat
    BY <1>1, <1>2, VictimsAre DEF Reach
  <2>2. Cardinality(came.pages) <= StMaxPages + 1
    <3>1. Cardinality(p.pages \cup {page}) <= Cardinality(p.pages) + 1
      <4>1. Cardinality(p.pages \cup {page}) = IF page \in p.pages THEN Cardinality(p.pages) ELSE Cardinality(p.pages) + 1
        BY <2>1, FS_AddElement
      <4> QED BY <2>1, <4>1
    <3>2. Cardinality(p.pages \cup {page}) \in Nat
      BY <2>1, FS_AddElement, FS_CardinalityType
    <3> QED BY <1>2, <1>3, <1>9, <2>1, <3>1, <3>2
  <2> QED BY <1>9, <1>10, <2>2, VictimsAre DEF Reach
<1>14. /\ kept \in PagerRecs /\ kept.pages = came.pages \ Victims(came) /\ kept.request = came.request
       /\ kept.pending = came.pending /\ kept.loaded = came.loaded /\ kept.next = came.next /\ kept.more = came.more
  BY <1>9 DEF Evicted, PagerRecs
<1> HIDE DEF blanked, kept
<1>15. Reach(kept, Len(blanked), Len(held))
  BY <1>10, <1>12, <1>14 DEF Reach
<1>16. \A a \in kept.pending : FirstRowOf(a) < Len(blanked)
  <2> SUFFICES ASSUME NEW a \in kept.pending PROVE FirstRowOf(a) < Len(blanked)
    OBVIOUS
  <2>1. a \in Nat /\ FirstRowOf(a) < Len(rows)
    BY <1>1, <1>2, <1>9, <1>14 DEF PagerRecs
  <2>2. FirstRowOf(a) \in Nat /\ Len(after) \in Nat
    <3>1. FirstRowOf(a) \in Nat
      BY <2>1, PageOfRow
    <3>2. Len(after) \in Nat
      BY <1>3, <1>6, <1>7 DEF start, page
    <3> QED BY <3>1, <3>2
  <2> QED BY <1>3, <1>11, <1>12, <2>1, <2>2
<1>17. Keeps(kept, Drained(kept)) /\ Work(Drained(kept), Len(blanked), held)
  BY <1>9, <1>14, <1>16, DrainedIs
<1>18. PagerFits(Drained(kept), blanked, k, held)
  <2>1. Reach(Drained(kept), Len(blanked), Len(held))
    BY <1>15, <1>17 DEF Reach, Keeps
  <2> QED BY <1>12, <1>13, <1>14, <1>17, <2>1 DEF PagerFits, Keeps
<1> QED BY <1>18 DEF blanked, kept, came, idle, after, nodes, start, page

LEMMA PagerChanges ==
  ASSUME NEW pagers \in Seq(PagerRecs), NEW k \in DOMAIN pagers, NEW q \in PagerRecs
  PROVE LET after == [pagers EXCEPT ![k] = q]
        IN /\ after \in Seq(PagerRecs) /\ DOMAIN after = DOMAIN pagers /\ after[k] = q
           /\ \A l \in DOMAIN pagers : l # k => after[l] = pagers[l]
<1> DEFINE after == [pagers EXCEPT ![k] = q]
<1>1. Len(pagers) \in Nat /\ DOMAIN pagers = 1..Len(pagers) /\ pagers \in [1..Len(pagers) -> PagerRecs]
  BY LenProperties, ElementOfSeq
<1>2. after \in [1..Len(pagers) -> PagerRecs]
  BY <1>1
<1>3. after \in Seq(PagerRecs)
  BY <1>1, <1>2, IsASeq
<1> QED BY <1>1, <1>3

LEMMA BusyPager ==
  ASSUME TreeFits, NEW k \in DOMAIN stPagers, ~Idles(k)
  PROVE k = stSlot /\ stRequested
BY DEF TreeFits

\* Only the pager of the root changes.
LEMMA SlotChanges ==
  ASSUME TreeFits, stRequested, NEW q, stPagers' = [stPagers EXCEPT ![stSlot] = q],
         PagerFits(q, stRows', stSlot, stStored), stSlot' = stSlot, stStored' = stStored, stRequested' = stRequested
  PROVE TreeFits'
<1>1. q \in PagerRecs /\ stSlot \in DOMAIN stPagers /\ stPagers \in Seq(PagerRecs)
  BY DEF TreeFits, PagerFits
<1>2. /\ stPagers' \in Seq(PagerRecs) /\ DOMAIN stPagers' = DOMAIN stPagers /\ stPagers'[stSlot] = q
      /\ \A l \in DOMAIN stPagers : l # stSlot => stPagers'[l] = stPagers[l]
  BY <1>1, PagerChanges
<1>3. \A l \in DOMAIN stPagers' : l # stSlot' => Idles(l)'
  BY <1>2 DEF TreeFits, Idles
<1> QED BY <1>1, <1>2, <1>3 DEF TreeFits

LEMMA SlotKeeps ==
  ASSUME TreeFits, stRequested, NEW q, stPagers' = [stPagers EXCEPT ![stSlot] = q],
         Keeps(stPagers[stSlot], q), Work(q, Len(stRows), stStored),
         stSlot' = stSlot, stStored' = stStored, stRequested' = stRequested, stRows' = stRows
  PROVE TreeFits'
<1>1. PagerFits(stPagers[stSlot], stRows, stSlot, stStored)
  BY DEF TreeFits
<1>2. PagerFits(q, stRows, stSlot, stStored)
  BY <1>1, KeepsFits
<1> QED BY <1>2, SlotChanges

\* Neither the roots nor the library.
LEMMA RootsKept ==
  ASSUME SiblingsInv, UNCHANGED <<stGeneration, stOwed, stLoads, stRoots, stStored>>, stTorn' \in BOOLEAN,
         stTorn => stTorn', TreeFits /\ ~stTorn' => TreeFits'
  PROVE SiblingsInv'
BY DEF SiblingsInv, RootsFit

LEMMA TreeReloads == ASSUME SiblingsInv, ReloadTree PROVE SiblingsInv'
<1>1. RootsFit' /\ (stStored \in Seq(Nat \ {0}))' /\ (stTorn \in BOOLEAN)'
  <2>1. stGeneration' \in Nat /\ stOwed' \in Nat /\ stRoots' = 0
    BY DEF SiblingsInv, RootsFit, ReloadTree
  <2>2. \A g \in stLoads' : g <= stGeneration' /\ g \in Nat
    BY DEF SiblingsInv, RootsFit, ReloadTree
  <2>3. stStored' = stStored /\ stTorn' \in BOOLEAN
    BY DEF ReloadTree
  <2>4. RootsFit'
    BY <2>1, <2>2 DEF RootsFit
  <2> QED BY <2>3, <2>4 DEF SiblingsInv
<1>2. stPagers' = <<>> /\ stRows' = <<>> /\ ~stRequested'
  BY DEF ReloadTree
<1>3. <<>> \in Seq(PagerRecs) /\ DOMAIN <<>> = {}
  BY EmptySeq
<1>4. TreeFits'
  BY <1>2, <1>3 DEF TreeFits
<1> QED BY <1>1, <1>4 DEF SiblingsInv

LEMMA RootsCome == ASSUME SiblingsInv, RootsArrive PROVE SiblingsInv'
<1>1. PICK g \in stLoads :
        /\ stLoads' = stLoads \ {g}
        /\ stRoots' = (IF g = stGeneration THEN stRoots + 1 ELSE stRoots) \/ stRoots' = stRoots
  BY DEF RootsArrive
<1>2. UNCHANGED <<stStored, stGeneration, stSlot, stRequested, stRows, stPagers, stOwed, stTorn>>
  BY DEF RootsArrive, stRoot
<1>3. RootsFit'
  BY <1>1, <1>2 DEF SiblingsInv, RootsFit
<1>4. TreeFits => TreeFits'
  BY <1>2 DEF TreeFits, Idles
<1> QED BY <1>2, <1>3, <1>4 DEF SiblingsInv

LEMMA ChildrenAskedFor == ASSUME SiblingsInv, AskForChildren PROVE SiblingsInv'
<1> DEFINE q == WithPage(NewPager, 0)
           slot == Len(stPagers) + 1
<1>1. UNCHANGED <<stStored, stGeneration, stLoads, stRoots, stRows, stOwed, stTorn>>
  BY DEF AskForChildren
<1>2. ~stRequested /\ stRequested' /\ stPagers' = Append(stPagers, q) /\ stSlot' = Len(stPagers')
  BY DEF AskForChildren
<1>3. ASSUME TreeFits PROVE TreeFits'
  <2>1. stPagers \in Seq(PagerRecs) /\ stRows = <<>> /\ Len(stRows) = 0 /\ \A k \in DOMAIN stPagers : Idles(k)
    BY <1>2, <1>3 DEF TreeFits
  <2>2. stStored \in Seq(Nat \ {0}) /\ Len(stStored) \in Nat
    BY LenProperties DEF SiblingsInv
  <2>3. NewPager \in PagerRecs
    <3>1. <<>> \in Seq(Nat)
      OBVIOUS
    <3> QED BY <3>1 DEF NewPager, PagerRecs, NoRequest
  <2>4. /\ NewPager.pages = {} /\ NewPager.more /\ NewPager.next = 0 /\ NewPager.loaded = 0 /\ NewPager.pending = {}
        /\ NewPager.request.state = "none"
    BY DEF NewPager, NoRequest
  <2> HIDE DEF NewPager
  <2>5. FirstRowOf(0) = 0 /\ StMaxPages \in Nat
    BY SidebarTreeAssumption DEF FirstRowOf
  <2>6. Work(NewPager, 0, stStored)
    BY <2>4 DEF Work
  <2>7. PagerFits(NewPager, <<>>, slot, stStored)
    <3>1. RowsFit({}, <<>>, slot, stStored)
      <4>1. <<>> \in Seq(RowRecs) /\ Len(<<>>) = 0
        BY EmptySeq
      <4> QED BY <4>1 DEF RowsFit
    <3>2. Cardinality({}) = 0
      BY FS_EmptySet
    <3>3. Reach(NewPager, 0, Len(stStored))
      BY <2>2, <2>4, <2>5 DEF Reach
    <3>4. Len(<<>>) = 0
      OBVIOUS
    <3> QED BY <2>3, <2>4, <2>5, <2>6, <3>1, <3>2, <3>3, <3>4 DEF PagerFits
  <2>8. Keeps(NewPager, q) /\ Work(q, 0, stStored)
    BY <2>3, <2>4, <2>6, PageAskedFor DEF Busy
  <2> HIDE DEF q
  <2>9. PagerFits(q, <<>>, slot, stStored)
    <3>1. Len(<<>>) = 0
      OBVIOUS
    <3> QED BY <2>7, <2>8, <3>1, KeepsFits
  <2>10. q \in PagerRecs
    BY <2>8 DEF Keeps
  <2>11. /\ stPagers' \in Seq(PagerRecs) /\ Len(stPagers') = slot /\ stPagers'[slot] = q
         /\ \A l \in 1..Len(stPagers) : stPagers'[l] = stPagers[l]
    BY <1>2, <2>1, <2>10, AppendProperties
  <2>12. Len(stPagers) \in Nat /\ DOMAIN stPagers = 1..Len(stPagers) /\ DOMAIN stPagers' = 1..slot
    BY <2>1, <2>11, LenProperties
  <2>13. stSlot' = slot /\ slot \in DOMAIN stPagers'
    BY <1>2, <2>11, <2>12
  <2>14. ASSUME NEW l \in DOMAIN stPagers', l # slot PROVE stPagers'[l].request.state = "none"
    <3>1. l \in DOMAIN stPagers
      BY <2>12, <2>14
    <3> QED BY <2>1, <2>11, <2>12, <3>1 DEF Idles
  <2> HIDE DEF slot
  <2> QED BY <1>1, <1>2, <2>1, <2>9, <2>11, <2>13, <2>14 DEF TreeFits, Idles
<1>4. stTorn' \in BOOLEAN
  BY <1>1 DEF SiblingsInv
<1> QED BY <1>1, <1>3, <1>4, RootsKept

LEMMA PageOfIs == ASSUME NEW page \in Nat, stStored \in Seq(Nat \ {0}) PROVE PageOf(page) = PagePart(stStored, page)
<1>1. FirstRowOf(page + 1) \in Nat /\ Len(stStored) \in Nat
  <2>1. page + 1 \in Nat
    OBVIOUS
  <2> QED BY <2>1, PageOfRow, LenProperties
<1>2. Min({FirstRowOf(page + 1), Len(stStored)}) = IF FirstRowOf(page + 1) <= Len(stStored) THEN FirstRowOf(page + 1) ELSE Len(stStored)
  BY <1>1, MinOfTwo
<1> QED BY <1>2 DEF PageOf, PagePart, FirstRowOf

LEMMA StoredPageFits ==
  ASSUME NEW p, NEW rows, NEW k, NEW held \in Seq(Nat \ {0}), PagerFits(p, rows, k, held), p.request.state = "asked",
         NEW request, request = [p.request EXCEPT !.state = "answered", !.folders = PagePart(held, p.request.page)]
  PROVE LET q == [p EXCEPT !.request = request]
        IN Keeps(p, q) /\ Work(q, Len(rows), held)
<1> DEFINE page == p.request.page
           n == Len(rows)
           q == [p EXCEPT !.request = request]
<1>1. /\ p \in PagerRecs /\ page \in Nat /\ p.next \in Nat /\ n \in Nat /\ Len(held) \in Nat
      /\ FirstRowOf(page) \in Nat
  BY PageOfRow, LenProperties DEF PagerFits, PagerRecs, RowsFit
<1>2. FirstRowOf(page) <= Len(held)
  BY <1>1 DEF PagerFits, Work, Reach
<1>3. PagePart(held, page) \in Seq(Nat)
  BY <1>1, <1>2, PagePartIs
<1>4. /\ request \in [page : Nat, state : {"none", "asked", "answered", "failed"}, folders : Seq(Nat)]
      /\ request.page = page /\ request.state = "answered" /\ request.folders = PagePart(held, page)
  BY <1>1, <1>3 DEF PagerRecs
<1>5. Keeps(p, q) /\ q.request = request /\ q.pending = p.pending
  BY <1>1, <1>4 DEF Keeps, PagerRecs
<1> HIDE DEF q
<1>6. Work(q, n, held)
  BY <1>4, <1>5 DEF Work, Keeps, PagerFits
<1> QED BY <1>5, <1>6 DEF q

LEMMA FailedPageFits ==
  ASSUME NEW p, NEW rows, NEW k, NEW held, PagerFits(p, rows, k, held), p.request.state = "asked",
         NEW request, request = [p.request EXCEPT !.state = "failed"]
  PROVE LET q == [p EXCEPT !.request = request]
        IN Keeps(p, q) /\ Work(q, Len(rows), held)
<1> DEFINE q == [p EXCEPT !.request = request]
<1>1. p \in PagerRecs
  BY DEF PagerFits
<1>2. /\ request \in [page : Nat, state : {"none", "asked", "answered", "failed"}, folders : Seq(Nat)]
      /\ request.page = p.request.page /\ request.state = "failed"
  BY <1>1 DEF PagerRecs
<1>3. Keeps(p, q) /\ q.request = request /\ q.pending = p.pending
  BY <1>1, <1>2 DEF Keeps, PagerRecs
<1> HIDE DEF q
<1>4. Work(q, Len(rows), held)
  BY <1>2, <1>3 DEF Work, Keeps, PagerFits
<1> QED BY <1>3, <1>4 DEF q

LEMMA StoreAnswered == ASSUME SiblingsInv, NEW k \in DOMAIN stPagers, StoreAnswers(k) PROVE SiblingsInv'
<1>1. /\ UNCHANGED <<stStored, stGeneration, stLoads, stRoots, stSlot, stRequested, stRows, stOwed, stTorn>>
      /\ stPagers[k].request.state = "asked"
  BY DEF StoreAnswers, stRoot
<1>2. ASSUME TreeFits PROVE TreeFits'
  <2>1. k = stSlot /\ stRequested
    BY <1>1, <1>2, BusyPager DEF Idles
  <2> DEFINE p == stPagers[stSlot]
  <2>2. PagerFits(p, stRows, stSlot, stStored) /\ stStored \in Seq(Nat \ {0}) /\ stPagers \in Seq(PagerRecs)
    BY <1>2, <2>1 DEF TreeFits, SiblingsInv
  <2>3. p \in PagerRecs /\ p.request.page \in Nat
    BY <2>2 DEF PagerFits, PagerRecs
  <2>4. PageOf(p.request.page) = PagePart(stStored, p.request.page)
    BY <2>2, <2>3, PageOfIs
  <2>5. CASE stPagers' = [stPagers EXCEPT ![k].request.state = "answered",
                                          ![k].request.folders = PageOf(stPagers[k].request.page)]
    <3> DEFINE request == [p.request EXCEPT !.state = "answered", !.folders = PagePart(stStored, p.request.page)]
               q == [p EXCEPT !.request = request]
    <3>1. stPagers' = [stPagers EXCEPT ![stSlot] = q]
      BY <2>1, <2>3, <2>4, <2>5 DEF PagerRecs
    <3>2. Keeps(p, q) /\ Work(q, Len(stRows), stStored)
      BY <1>1, <2>1, <2>2, StoredPageFits
    <3> HIDE DEF q
    <3> QED BY <1>1, <1>2, <2>1, <3>1, <3>2, SlotKeeps
  <2>6. CASE stPagers' = [stPagers EXCEPT ![k].request.state = "failed"]
    <3> DEFINE request == [p.request EXCEPT !.state = "failed"]
               q == [p EXCEPT !.request = request]
    <3>1. stPagers' = [stPagers EXCEPT ![stSlot] = q]
      BY <2>1, <2>3, <2>6 DEF PagerRecs
    <3>2. Keeps(p, q) /\ Work(q, Len(stRows), stStored)
      BY <1>1, <2>1, <2>2, FailedPageFits
    <3> HIDE DEF q
    <3> QED BY <1>1, <1>2, <2>1, <3>1, <3>2, SlotKeeps
  <2> QED BY <2>5, <2>6 DEF StoreAnswers
<1>3. stTorn' \in BOOLEAN
  BY <1>1 DEF SiblingsInv
<1> QED BY <1>1, <1>2, <1>3, RootsKept

LEMMA PageArrived == ASSUME SiblingsInv, NEW k \in DOMAIN stPagers, PageArrives(k) PROVE SiblingsInv'
<1> DEFINE p == stPagers[k]
           page == p.request.page
           start == FirstRowOf(page)
           nodes == NodesOf(p.request.folders, start, k)
           idle == [p EXCEPT !.pages = @ \cup {page}, !.request = NoRequest]
           came == IF start < Len(stRows) THEN idle
                   ELSE [idle EXCEPT !.loaded = start + Len(nodes), !.next = page + 1, !.more = Len(nodes) = StPageSize]
           q == Drained(Evicted(came))
           blanked == BlankRows(k, came, RowsAfter(stRows, nodes, start))
<1>1. /\ UNCHANGED <<stStored, stGeneration, stLoads, stRoots, stSlot, stRequested, stOwed, stTorn>>
      /\ p.request.state = "answered"
  BY DEF PageArrives, stRoot
<1>2. stRows' = blanked /\ stPagers' = [stPagers EXCEPT ![k] = q]
  BY DEF PageArrives, NodesOf, RowsAfter, FirstRowOf, AfterEviction
<1>3. ASSUME TreeFits PROVE TreeFits'
  <2>1. k = stSlot /\ stRequested
    BY <1>1, <1>3, BusyPager DEF Idles
  <2>2. PagerFits(p, stRows, k, stStored) /\ stStored \in Seq(Nat \ {0}) /\ k \in Nat
    <3>1. stPagers \in Seq(PagerRecs) /\ DOMAIN stPagers = 1..Len(stPagers)
      BY <1>3, LenProperties DEF TreeFits
    <3> QED BY <1>3, <2>1, <3>1 DEF TreeFits, SiblingsInv
  <2>3. PagerFits(q, blanked, k, stStored)
    <3> HIDE DEF p
    <3> QED BY <1>1, <2>2, PageComes
  <2> HIDE DEF q, blanked
  <2> QED BY <1>1, <1>2, <1>3, <2>1, <2>3, SlotChanges
<1>4. stTorn' \in BOOLEAN
  BY <1>1 DEF SiblingsInv
<1> QED BY <1>1, <1>3, <1>4, RootsKept

LEMMA PageFailed == ASSUME SiblingsInv, NEW k \in DOMAIN stPagers, PageFails(k) PROVE SiblingsInv'
<1> DEFINE p == stPagers[k]
           idle == [p EXCEPT !.more = FALSE, !.request = NoRequest]
           q == Drained(idle)
<1>1. /\ UNCHANGED <<stStored, stGeneration, stLoads, stRoots, stSlot, stRows, stOwed>>
      /\ p.request.state = "failed" /\ ~stRequested' /\ stTorn' = (stTorn \/ stRows # <<>>)
      /\ stPagers' = [stPagers EXCEPT ![k] = q]
  BY DEF PageFails
<1>2. ASSUME TreeFits, ~stTorn' PROVE TreeFits'
  <2>1. k = stSlot /\ stRequested /\ stRows = <<>> /\ stPagers \in Seq(PagerRecs)
    BY <1>1, <1>2, BusyPager DEF Idles, TreeFits
  <2>2. p \in PagerRecs /\ Len(stRows) = 0 /\ \A a \in p.pending : a \in Nat /\ FirstRowOf(a) < Len(stRows)
    BY <1>2, <2>1 DEF TreeFits, PagerFits, Work, PagerRecs
  <2>3. p.pending = {}
    BY <2>2, FirstRowIs
  <2> HIDE DEF p
  <2>4. idle \in PagerRecs /\ idle.request.state = "none" /\ idle.pending = {}
    <3>1. <<>> \in Seq(Nat)
      OBVIOUS
    <3>2. /\ NoRequest \in [page : Nat, state : {"none", "asked", "answered", "failed"}, folders : Seq(Nat)]
          /\ NoRequest.state = "none"
      BY <3>1 DEF NoRequest
    <3> QED BY <2>2, <2>3, <3>2 DEF PagerRecs
  <2> HIDE DEF idle
  <2>5. q \in PagerRecs /\ q.request.state = "none"
    <3>1. Keeps(idle, Drained(idle)) /\ Drained(idle).request.state = "none"
      BY <2>4, DrainedIs
    <3> QED BY <3>1 DEF Keeps
  <2> HIDE DEF q
  <2>6. /\ stPagers' \in Seq(PagerRecs) /\ DOMAIN stPagers' = DOMAIN stPagers /\ stPagers'[k] = q
        /\ \A l \in DOMAIN stPagers : l # k => stPagers'[l] = stPagers[l]
    BY <1>1, <2>1, <2>5, PagerChanges
  <2>7. \A l \in DOMAIN stPagers' : Idles(l)'
    BY <1>2, <2>1, <2>5, <2>6 DEF TreeFits, Idles
  <2> QED BY <1>1, <2>1, <2>6, <2>7 DEF TreeFits
<1>3. stTorn' \in BOOLEAN /\ (stTorn => stTorn')
  BY <1>1 DEF SiblingsInv
<1> QED BY <1>1, <1>2, <1>3, RootsKept

LEMMA RowBound == ASSUME SiblingsInv, BindRow PROVE SiblingsInv'
<1>1. UNCHANGED <<stStored, stGeneration, stLoads, stRoots, stSlot, stRequested, stRows, stOwed, stTorn>>
  BY DEF BindRow, stRoot
<1>2. ASSUME TreeFits PROVE TreeFits'
  <2>1. PICK i \in DOMAIN stRows :
          LET row == stRows[i]
              p == [stPagers[row.pager] EXCEPT !.focus = row.index \div StPageSize]
              near == p.more /\ ~Busy(p) /\ row.index + StMargin >= p.loaded
          IN stPagers' = [stPagers EXCEPT ![row.pager] =
               IF row.folder = Blank THEN WithPage(p, p.focus) ELSE IF near THEN WithPage(p, p.next) ELSE p]
    BY DEF BindRow
  <2>2. stRequested /\ stSlot \in DOMAIN stPagers /\ PagerFits(stPagers[stSlot], stRows, stSlot, stStored)
    BY <1>2 DEF TreeFits
  <2>3. stRows \in Seq(RowRecs) /\ i \in 1..Len(stRows) /\ Len(stRows) \in Nat
    BY <2>2, LenProperties DEF PagerFits, RowsFit
  <2>4. stRows[i].index = i - 1 /\ stRows[i].pager = stSlot /\ i - 1 \in Nat
    BY <2>2, <2>3 DEF PagerFits, RowsFit
  <2> DEFINE old == stPagers[stSlot]
             at == (i - 1) \div StPageSize
             p == [old EXCEPT !.focus = at]
             near == p.more /\ ~Busy(p) /\ i - 1 + StMargin >= p.loaded
             q == IF stRows[i].folder = Blank THEN WithPage(p, p.focus) ELSE IF near THEN WithPage(p, p.next) ELSE p
  <2>5. stPagers' = [stPagers EXCEPT ![stSlot] = q]
    BY <2>1, <2>4
  <2>6. at \in Nat /\ FirstRowOf(at) \in Nat /\ FirstRowOf(at) <= i - 1
    BY <2>4, PageOfRow
  <2>7. FirstRowOf(at) < Len(stRows)
    BY <2>3, <2>6
  <2> HIDE DEF at
  <2>8. Keeps(old, p) /\ p.focus = at /\ p.request = old.request /\ p.pending = old.pending
    BY <2>2, <2>6 DEF PagerFits, PagerRecs, Keeps
  <2> HIDE DEF p
  <2>9. Work(p, Len(stRows), stStored) /\ p \in PagerRecs
    BY <2>2, <2>8 DEF PagerFits, Work, Keeps
  <2> HIDE DEF old
  <2>10. Keeps(p, q) /\ Work(q, Len(stRows), stStored)
    <3>1. CASE stRows[i].folder = Blank
      BY <2>6, <2>7, <2>8, <2>9, <3>1, PageAskedFor
    <3>2. CASE stRows[i].folder # Blank /\ near
      <4>1. p.next \in Nat /\ p.more /\ ~Busy(p)
        BY <2>9, <3>2 DEF PagerRecs
      <4> QED BY <2>9, <3>2, <4>1, PageAskedFor
    <3>3. CASE stRows[i].folder # Blank /\ ~near
      BY <2>9, <3>3 DEF Keeps
    <3> QED BY <3>1, <3>2, <3>3
  <2> HIDE DEF q
  <2>11. Keeps(stPagers[stSlot], q)
    BY <2>8, <2>10 DEF Keeps, old
  <2> QED BY <1>1, <1>2, <2>2, <2>5, <2>10, <2>11, SlotKeeps
<1>3. stTorn' \in BOOLEAN
  BY <1>1 DEF SiblingsInv
<1> QED BY <1>1, <1>2, <1>3, RootsKept

LEMMA RootCollapsed == ASSUME SiblingsInv, Collapse PROVE SiblingsInv'
<1>1. UNCHANGED <<stStored, stGeneration, stLoads, stRoots, stPagers, stOwed>>
  BY DEF Collapse
<1>2. CASE UNCHANGED <<stRows, stSlot, stRequested, stTorn>>
  <2>1. TreeFits => TreeFits'
    BY <1>1, <1>2 DEF TreeFits, Idles
  <2>2. stTorn' \in BOOLEAN
    BY <1>2 DEF SiblingsInv
  <2> QED BY <1>1, <1>2, <2>1, <2>2, RootsKept
<1>3. CASE /\ stRows' = <<>> /\ stSlot' = 0 /\ ~stRequested'
           /\ stTorn' = (stTorn \/ \E k \in DOMAIN stPagers : Busy(stPagers[k]))
  <2>1. TreeFits /\ ~stTorn' => TreeFits'
    BY <1>1, <1>3 DEF TreeFits, Idles, Busy
  <2>2. stTorn' \in BOOLEAN /\ (stTorn => stTorn')
    BY <1>3 DEF SiblingsInv
  <2> QED BY <1>1, <2>1, <2>2, RootsKept
<1> QED BY <1>2, <1>3 DEF Collapse

LEMMA FoldersChanged == ASSUME SiblingsInv, ChangeFolders PROVE SiblingsInv'
<1> DEFINE S == Nat \ {0}
<1>1. UNCHANGED <<stGeneration, stLoads, stRoots, stTorn>>
  BY DEF ChangeFolders
<1>2. stStored \in Seq(S) /\ stStored # <<>> /\ stOwed \in Nat
  BY DEF ChangeFolders, SiblingsInv, RootsFit
<1> HIDE DEF S
<1>3. Len(stStored) \in Nat \ {0} /\ \A i \in 1..Len(stStored) : stStored[i] \in S
  BY <1>2, LenProperties, EmptySeq, ElementOfSeq
<1>4. CASE stOwed' = stOwed + 2 /\ \E i \in {1, Len(stStored)} : stStored' = RemoveAt(stStored, i)
  <2>1. PICK i \in {1, Len(stStored)} : stStored' = SubSeq(stStored, 1, i - 1) \o SubSeq(stStored, i + 1, Len(stStored))
    BY <1>4 DEF RemoveAt
  <2>2. i \in 1..Len(stStored)
    BY <1>3
  <2>3. SubSeq(stStored, 1, i - 1) \in Seq(S)
    <3>1. \A j \in 1..i - 1 : stStored[j] \in S
      BY <1>3, <2>2
    <3> QED BY <1>2, <1>3, <2>2, <3>1, SubSeqProperties
  <2>4. SubSeq(stStored, i + 1, Len(stStored)) \in Seq(S)
    <3>1. \A j \in i + 1..Len(stStored) : stStored[j] \in S
      BY <1>3, <2>2
    <3> QED BY <1>2, <1>3, <2>2, <3>1, SubSeqProperties
  <2>5. stStored' \in Seq(S)
    BY <2>1, <2>3, <2>4, ConcatProperties
  <2>6. stOwed' \in Nat /\ stOwed' # 0
    BY <1>2, <1>4
  <2> QED BY <1>1, <2>5, <2>6 DEF SiblingsInv, RootsFit, S
<1>5. CASE stOwed' = stOwed + 1 /\ stStored' = <<Last(stStored)>> \o Front(stStored)
  <2>1. Last(stStored) \in S
    BY <1>3 DEF Last
  <2>2. <<Last(stStored)>> \in Seq(S)
    BY <2>1
  <2>3. Front(stStored) \in Seq(S)
    <3>1. \A j \in 1..Len(stStored) - 1 : stStored[j] \in S
      BY <1>3
    <3>2. SubSeq(stStored, 1, Len(stStored) - 1) \in Seq(S)
      BY <1>2, <1>3, <3>1, SubSeqProperties
    <3> QED BY <3>2 DEF Front
  <2>4. stStored' \in Seq(S)
    BY <1>5, <2>2, <2>3, ConcatProperties
  <2>5. stOwed' \in Nat /\ stOwed' # 0
    BY <1>2, <1>5
  <2> QED BY <1>1, <2>4, <2>5 DEF SiblingsInv, RootsFit, S
<1> QED BY <1>4, <1>5 DEF ChangeFolders

LEMMA SiblingsStart == ASSUME StInit PROVE SiblingsInv
<1>1. stStored \in Seq(Nat \ {0})
  <2>1. StFolders \in Nat
    BY SidebarTreeAssumption
  <2>2. stStored \in [1..StFolders -> Nat \ {0}]
    BY <2>1 DEF StInit
  <2> QED BY <2>1, <2>2, IsASeq
<1>2. RootsFit /\ stTorn \in BOOLEAN
  <2>1. stTorn \in BOOLEAN
    BY DEF StInit
  <2>2. stGeneration = 1 /\ stOwed = 0 /\ stLoads = {1} /\ stRoots = 0
    BY DEF StInit
  <2>3. RootsFit
    BY <2>2 DEF RootsFit
  <2> QED BY <2>1, <2>3
<1>3. TreeFits
  <2>1. <<>> \in Seq(PagerRecs) /\ DOMAIN <<>> = {}
    BY EmptySeq
  <2> QED BY <2>1 DEF StInit, TreeFits
<1> QED BY <1>1, <1>2, <1>3 DEF SiblingsInv

LEMMA SiblingsStep == ASSUME SiblingsInv, [StNext]_stVars PROVE SiblingsInv'
<1>1. CASE UNCHANGED stVars
  BY <1>1 DEF stVars, stRoot, SiblingsInv, RootsFit, TreeFits, Idles
<1>2. CASE Expand
  <2>1. UNCHANGED <<stStored, stGeneration, stLoads, stRoots, stRequested, stSlot, stRows, stPagers, stOwed, stTorn>>
    BY <1>2 DEF Expand
  <2> QED BY <2>1 DEF SiblingsInv, RootsFit, TreeFits, Idles
<1>3. ASSUME NEW k \in DOMAIN stPagers, StoreAnswers(k) \/ PageArrives(k) \/ PageFails(k) PROVE SiblingsInv'
  BY <1>3, StoreAnswered, PageArrived, PageFailed
<1> QED
  BY <1>1, <1>2, <1>3, TreeReloads, RootsCome, ChildrenAskedFor, RowBound, RootCollapsed, FoldersChanged DEF StNext

LEMMA SiblingsShown == ASSUME SiblingsInv PROVE SiblingsComeInOrder
<1>1. stRoots <= 1
  BY DEF SiblingsInv, RootsFit
<1>2. ASSUME stOwed = 0, ~stTorn, ~stRequested PROVE stRows = <<>>
  BY <1>2 DEF SiblingsInv, TreeFits
<1>3. ASSUME stOwed = 0, ~stTorn, stRequested PROVE PagerFits(stPagers[stSlot], stRows, stSlot, stStored)
  BY <1>3 DEF SiblingsInv, TreeFits
<1>4. ASSUME stOwed = 0, ~stTorn, NEW i \in DOMAIN stRows
      PROVE /\ stRows[i].index = i - 1 /\ stRows[i].folder \in {Blank, stStored[i]} /\ stRows[i].pager = stSlot
            /\ stRows[i].folder = Blank <=> (i - 1) \div StPageSize \notin stPagers[stSlot].pages
  <2>1. stRequested
    BY <1>2, <1>4
  <2>2. RowsFit(stPagers[stSlot].pages, stRows, stSlot, stStored)
    BY <1>3, <1>4, <2>1 DEF PagerFits
  <2>3. i \in 1..Len(stRows)
    BY <2>2, LenProperties DEF RowsFit
  <2> QED BY <2>2, <2>3 DEF RowsFit
<1>5. ASSUME stOwed = 0, ~stTorn, stRequested
      PROVE LET p == stPagers[stSlot]
            IN /\ Cardinality(p.pages) <= StMaxPages
               /\ p.loaded = Len(stRows)
               /\ ~Busy(p) => p.pending = {} /\ (p.more \/ Len(stRows) = Len(stStored))
  BY <1>3, <1>5 DEF PagerFits, Reach, Work, Busy
<1> QED BY <1>1, <1>4, <1>5 DEF SiblingsComeInOrder

\* However the pages of the folders below a root are asked for, given up, come
\* late or fail, and whatever is changed meanwhile: once the tree has been
\* reloaded the rows are the library's folders in their order.
THEOREM SiblingsAreInOrder == StSpec => []SiblingsComeInOrder
<1>1. StInit => SiblingsInv
  BY SiblingsStart
<1>2. SiblingsInv /\ [StNext]_stVars => SiblingsInv'
  BY SiblingsStep
<1>3. SiblingsInv => SiblingsComeInOrder
  BY SiblingsShown
<1> QED BY <1>1, <1>2, <1>3, PTL DEF StSpec

-----------------------------------------------------------------------------
(***************************************************************************)
(* AdjacentPlay.                                                           *)
(*                                                                         *)
(* Next, Previous and Continue find the sound that follows, for any        *)
(* library, any places and any number of changes.                          *)
(***************************************************************************)

\* The sounds that come before another, and their number: its place.
Placings == [ApSounds -> ApPlaces]
Earlier(in, places, s) == {t \in in : Precedes(places, t, s)}
Rank(in, places, s) == Cardinality(Earlier(in, places, s))

LEMMA PrecedesIsOrder ==
  ASSUME NEW places \in Placings, NEW s \in ApSounds, NEW t \in ApSounds, NEW u \in ApSounds
  PROVE /\ ~Precedes(places, s, s)
        /\ Precedes(places, s, t) /\ Precedes(places, t, u) => Precedes(places, s, u)
        /\ s # t => Precedes(places, s, t) \/ Precedes(places, t, s)
<1>1. s \in Nat /\ t \in Nat /\ u \in Nat /\ ApPlaces \subseteq Nat
  BY AdjacentAssumption
<1>2. places[s] \in Nat /\ places[t] \in Nat /\ places[u] \in Nat
  BY <1>1 DEF Placings
<1> QED BY <1>1, <1>2 DEF Precedes

LEMMA RankGrows ==
  ASSUME NEW in \in SUBSET ApSounds, NEW places \in Placings, NEW s \in in
  PROVE /\ IsFiniteSet(in) /\ Cardinality(in) \in Nat /\ Rank(in, places, s) \in 0 .. Cardinality(in) - 1
        /\ \A t \in in : Precedes(places, s, t) => Rank(in, places, s) < Rank(in, places, t)
<1>1. IsFiniteSet(in) /\ Cardinality(in) \in Nat
  BY AdjacentAssumption, FS_Subset, FS_CardinalityType
<1>2. ASSUME NEW t \in in PROVE IsFiniteSet(Earlier(in, places, t)) /\ Rank(in, places, t) \in Nat
  BY <1>1, FS_Subset, FS_CardinalityType DEF Earlier, Rank
<1>3. ASSUME NEW S \in SUBSET in, s \notin S PROVE Cardinality(S) < Cardinality(in)
  <2>1. IsFiniteSet(S) /\ Cardinality(S) <= Cardinality(in) /\ Cardinality(S) # Cardinality(in)
    BY <1>1, <1>3, FS_Subset
  <2> QED BY <1>1, <2>1, FS_CardinalityType
<1>4. s \notin Earlier(in, places, s) /\ Earlier(in, places, s) \in SUBSET in
  BY PrecedesIsOrder DEF Earlier
<1>5. ASSUME NEW t \in in, Precedes(places, s, t) PROVE Rank(in, places, s) < Rank(in, places, t)
  <2>1. Earlier(in, places, s) \subseteq Earlier(in, places, t)
    BY <1>5, PrecedesIsOrder DEF Earlier
  <2>2. s \in Earlier(in, places, t)
    BY <1>5 DEF Earlier
  <2>3. Earlier(in, places, s) # Earlier(in, places, t)
    BY <1>4, <2>2
  <2>4. Rank(in, places, s) <= Rank(in, places, t) /\ Rank(in, places, s) # Rank(in, places, t)
    BY <1>2, <2>1, <2>3, FS_Subset DEF Rank
  <2> QED BY <1>2, <2>4
<1>6. Rank(in, places, s) < Cardinality(in)
  BY <1>3, <1>4 DEF Rank
<1>7. Rank(in, places, s) \in Nat
  BY <1>2
<1> QED BY <1>1, <1>5, <1>6, <1>7

\* The places of a list are taken by one sound each.
LEMMA EachPlaceIsTaken ==
  ASSUME NEW in \in SUBSET ApSounds, NEW places \in Placings
  PROVE /\ \A s, t \in in : Rank(in, places, s) = Rank(in, places, t) => s = t
        /\ \A k \in 1 .. Cardinality(in) : \E s \in in : Rank(in, places, s) = k - 1
<1>1. \A s \in in : Rank(in, places, s) \in 0 .. Cardinality(in) - 1
  BY RankGrows
<1>2. IsFiniteSet(in) /\ Cardinality(in) \in Nat
  BY AdjacentAssumption, FS_Subset, FS_CardinalityType
<1>3. ASSUME NEW s \in in, NEW t \in in, s # t PROVE Rank(in, places, s) # Rank(in, places, t)
  <2>1. Precedes(places, s, t) \/ Precedes(places, t, s)
    BY <1>3, PrecedesIsOrder
  <2>2. Rank(in, places, s) < Rank(in, places, t) \/ Rank(in, places, t) < Rank(in, places, s)
    BY <2>1, RankGrows
  <2> QED BY <1>1, <1>2, <2>2
<1> DEFINE n == Cardinality(in)
           f == [s \in in |-> Rank(in, places, s) + 1]
<1>4. \A s \in in : Rank(in, places, s) + 1 \in 1 .. n
  BY <1>1, <1>2
<1>5. f \in Injection(in, 1 .. n)
  <2>1. f \in [in -> 1 .. n]
    BY <1>4
  <2>2. \A s, t \in in : f[s] = f[t] => s = t
    BY <1>1, <1>2, <1>3
  <2> QED BY <2>1, <2>2 DEF Injection, IsInjective
<1>6. IsFiniteSet(1 .. n) /\ Cardinality(1 .. n) = n
  BY <1>2, FS_Interval
<1>7. f \in Surjection(in, 1 .. n)
  <2> HIDE DEF f
  <2> QED BY <1>5, <1>6, FS_Injection
<1>8. \A k \in 1 .. n : \E s \in in : f[s] = k
  BY <1>7 DEF Surjection
<1>9. ASSUME NEW k \in 1 .. n PROVE \E s \in in : Rank(in, places, s) = k - 1
  <2>1. PICK s \in in : Rank(in, places, s) + 1 = k
    BY <1>8
  <2> QED BY <1>1, <1>2, <2>1
<1> QED BY <1>3, <1>9

\* The list has every sound once, at the place that the store counts for it.
Lists(seq, in, places) ==
  /\ seq \in Seq(ApSounds) /\ Len(seq) = Cardinality(in) /\ Len(seq) \in Nat /\ ToSet(seq) = in
  /\ \A s \in in : Rank(in, places, s) + 1 \in 1 .. Len(seq) /\ seq[Rank(in, places, s) + 1] = s
  /\ \A i, j \in 1 .. Len(seq) : seq[i] = seq[j] => i = j

LEMMA ListingIs ==
  ASSUME NEW in \in SUBSET ApSounds, NEW places \in Placings
  PROVE Lists(Listing(in, places), in, places)
<1> DEFINE seq == Listing(in, places)
           n == Cardinality(in)
<1>1. n \in Nat /\ IsFiniteSet(in)
  BY AdjacentAssumption, FS_Subset, FS_CardinalityType
<1>2. ASSUME NEW k \in 1 .. n PROVE seq[k] \in in /\ Rank(in, places, seq[k]) = k - 1
  <2>1. seq[k] = CHOOSE s \in in : Rank(in, places, s) = k - 1
    BY DEF Listing, Rank, Earlier
  <2>2. \E s \in in : Rank(in, places, s) = k - 1
    BY EachPlaceIsTaken
  <2> HIDE DEF seq
  <2> QED BY <2>1, <2>2
<1>3. DOMAIN seq = 1 .. n /\ seq = [k \in 1 .. n |-> seq[k]]
  <2> DEFINE at(k) == CHOOSE s \in in : Cardinality({t \in in : Precedes(places, t, s)}) = k - 1
  <2>1. seq = [k \in 1 .. n |-> at(k)]
    BY Zenon DEF Listing
  <2> HIDE DEF seq, at, n
  <2> QED BY <2>1
<1> HIDE DEF seq
<1>4. seq \in [1 .. n -> ApSounds]
  <2>1. \A k \in 1 .. n : seq[k] \in ApSounds
    BY <1>2
  <2> HIDE DEF n
  <2> QED BY <1>3, <2>1
<1>5. seq \in Seq(ApSounds) /\ Len(seq) = n
  <2> HIDE DEF n
  <2>1. seq \in Seq(ApSounds)
    BY <1>1, <1>4, IsASeq
  <2> QED BY <1>1, <1>3, <2>1, LenProperties
<1>6. ASSUME NEW s \in in
      PROVE Rank(in, places, s) + 1 \in 1 .. n /\ seq[Rank(in, places, s) + 1] = s
  <2> DEFINE k == Rank(in, places, s) + 1
  <2>1. Rank(in, places, s) \in 0 .. n - 1
    BY RankGrows
  <2>2. k \in 1 .. n /\ k - 1 = Rank(in, places, s)
    BY <1>1, <2>1
  <2>3. seq[k] \in in /\ Rank(in, places, seq[k]) = Rank(in, places, s)
    BY <1>2, <2>2
  <2> QED BY <2>2, <2>3, EachPlaceIsTaken
<1>7. ToSet(seq) = in
  BY <1>2, <1>3, <1>6 DEF ToSet
<1>8. ASSUME NEW i \in 1 .. n, NEW j \in 1 .. n, seq[i] = seq[j] PROVE i = j
  <2>1. i - 1 = j - 1
    BY <1>2, <1>8
  <2> QED BY <1>1, <2>1
<1> QED BY <1>1, <1>5, <1>6, <1>7, <1>8 DEF seq, n, Lists

LEMMA RemainderIs ==
  ASSUME NEW n \in Nat \ {0}, NEW i \in Int
  PROVE /\ i \in 0 .. n - 1 => i % n = i
        /\ i = n => i % n = 0
        /\ i = -1 => i % n = n - 1
<1>1. i \in 0 .. n - 1 => i % n = i
  BY SMTT(30)
<1>2. i = n => i % n = 0
  BY SMTT(30)
<1>3. i = -1 => i % n = n - 1
  BY SMTT(30)
<1> QED BY <1>1, <1>2, <1>3

JobRecs ==
  [step : {"none", "position", "count", "adjacent", "boundary", "done"}, by : {"press", "continue"},
   sound : Nat, position : Int, offset : {-1, 0, 1}, total : Nat, found : Nat]

\* Where the command takes the active sound to be.
WellPlaced ==
  \/ apJob.position + 1 \in DOMAIN apFrom /\ apFrom[apJob.position + 1] = apJob.sound
  \/ apJob.by = "press" /\ apJob.position = -1
JobPlaced ==
  /\ apJob.step = "position" => apJob.by = "continue" /\ apJob.found = 0
  /\ apJob.step = "count" => WellPlaced /\ apJob.found = 0
  /\ apJob.step = "adjacent" => WellPlaced /\ apJob.position >= 0 /\ apJob.total = Len(apFrom)
  /\ apJob.step = "boundary" =>
       /\ WellPlaced /\ apJob.total = Len(apFrom)
       /\ apJob.position >= 0 => apJob.position + apJob.offset \notin 0 .. Len(apFrom) - 1
  /\ apJob.step = "done" =>
       \/ apJob.found = Successor(apFrom, apJob.sound, apJob.offset)
       \/ apJob.by = "press" /\ apJob.position < 0 /\ apJob.found = Successor(apFrom, 0, apJob.offset)
       \/ apJob.by = "continue" /\ apJob.sound \notin apIn /\ apJob.found = 0
AdjacentInv ==
  /\ apIn \in SUBSET ApSounds /\ apPlace \in Placings /\ apJob \in JobRecs
  /\ apShown \in Seq(ApSounds) /\ apCached \subseteq ToSet(apShown) /\ {apActive, apPlaying} \subseteq Nat
  /\ apJob.step # "none" => apJob.offset # 0
  /\ apFrom # <<>> /\ apFrom = Listing(apIn, apPlace) => JobPlaced

\* In a list of sounds of which none comes twice.
EachOnce(seq) == \A i, j \in 1 .. Len(seq) : seq[i] = seq[j] => i = j
LEMMA SuccessorOf ==
  ASSUME NEW seq \in Seq(ApSounds), EachOnce(seq),
         NEW j \in 1 .. Len(seq), NEW offset \in {-1, 1}
  PROVE Successor(seq, seq[j], offset) = seq[1 + ((j - 1 + offset) % Len(seq))]
<1>1. PICK s : s = seq[j]
  OBVIOUS
<1>2. DOMAIN seq = 1 .. Len(seq) /\ Len(seq) \in Nat /\ seq # <<>>
  BY LenProperties, EmptySeq
<1>3. s \in ToSet(seq)
  BY <1>1, <1>2 DEF ToSet
<1>4. (CHOOSE k \in DOMAIN seq : seq[k] = s) = j
  BY <1>1, <1>2 DEF EachOnce
<1>5. Successor(seq, s, offset) =
        LET k == CHOOSE k \in DOMAIN seq : seq[k] = s IN seq[1 + ((k - 1 + offset) % Len(seq))]
  BY <1>2, <1>3 DEF Successor
<1> QED BY <1>1, <1>4, <1>5

\* The list is gone through in its order and around its ends.
GoesRound(seq, offset) ==
  /\ Len(seq) \in Nat \ {0} /\ DOMAIN seq = 1 .. Len(seq)
  /\ Successor(seq, 0, offset) = IF offset < 0 THEN seq[Len(seq)] ELSE seq[1]
  /\ \A i \in 0 .. Len(seq) - 1 :
       /\ i + offset \in 0 .. Len(seq) - 1 => Successor(seq, seq[i + 1], offset) = seq[i + offset + 1]
       /\ i + offset \notin 0 .. Len(seq) - 1 =>
            Successor(seq, seq[i + 1], offset) = IF offset < 0 THEN seq[Len(seq)] ELSE seq[1]

LEMMA SuccessorIs ==
  ASSUME NEW in \in SUBSET ApSounds, NEW places \in Placings, Listing(in, places) # <<>>, NEW offset \in {-1, 1}
  PROVE GoesRound(Listing(in, places), offset) /\ Len(Listing(in, places)) = Cardinality(in)
<1>1. Lists(Listing(in, places), in, places)
  BY ListingIs
<1>2. PICK seq : seq = Listing(in, places)
  OBVIOUS
<1> DEFINE n == Len(seq)
<1>3. seq \in Seq(ApSounds) /\ n \in Nat /\ n = Cardinality(in) /\ EachOnce(seq)
  BY <1>1, <1>2 DEF Lists, EachOnce
<1>4. n # 0 /\ DOMAIN seq = 1 .. n /\ seq # <<>>
  BY <1>2, <1>3, EmptySeq, LenProperties
<1>5. \A i \in 1 .. n : seq[i] \in ApSounds
  BY <1>3, ElementOfSeq
<1>6. 0 \notin ToSet(seq)
  BY <1>4, <1>5, AdjacentAssumption DEF ToSet
<1>7. Successor(seq, 0, offset) = IF offset < 0 THEN seq[n] ELSE seq[1]
  BY <1>4, <1>6 DEF Successor, Last
<1>8. ASSUME NEW i \in 0 .. n - 1
      PROVE /\ i + offset \in 0 .. n - 1 => Successor(seq, seq[i + 1], offset) = seq[i + offset + 1]
            /\ i + offset \notin 0 .. n - 1 =>
                 Successor(seq, seq[i + 1], offset) = IF offset < 0 THEN seq[n] ELSE seq[1]
  <2> DEFINE r == (i + offset) % n
  <2>1. i + offset \in Int /\ n \in Nat \ {0} /\ i + 1 \in 1 .. n /\ i + 1 - 1 + offset = i + offset
    BY <1>3, <1>4
  <2>2. /\ i + offset \in 0 .. n - 1 => r = i + offset
        /\ i + offset = n => r = 0
        /\ i + offset = -1 => r = n - 1
    BY <2>1, RemainderIs
  <2>3. i + offset \notin 0 .. n - 1 => (offset < 0 /\ i + offset = -1) \/ (~(offset < 0) /\ i + offset = n)
    BY <2>1
  <2>4. Successor(seq, seq[i + 1], offset) = seq[1 + r]
    <3>1. PICK j : j = i + 1
      OBVIOUS
    <3>2. j \in 1 .. Len(seq) /\ j - 1 + offset = i + offset
      BY <2>1, <3>1
    <3>3. Successor(seq, seq[j], offset) = seq[1 + ((j - 1 + offset) % Len(seq))]
      BY <1>3, <3>2, SuccessorOf
    <3> QED BY <3>1, <3>2, <3>3
  <2> HIDE DEF r, n
  <2>5. 1 + (n - 1) = n /\ 1 + 0 = 1 /\ 1 + (i + offset) = i + offset + 1
    BY <2>1
  <2> QED BY <2>2, <2>3, <2>4, <2>5
<1>9. GoesRound(seq, offset)
  BY <1>3, <1>4, <1>7, <1>8 DEF GoesRound
<1> QED BY <1>2, <1>3, <1>9

LEMMA SoundAtIs ==
  ASSUME AdjacentInv, NEW k \in Int
  PROVE /\ k \in 0 .. Cardinality(apIn) - 1 => SoundAt(k) = Listing(apIn, apPlace)[k + 1]
        /\ SoundAt(k) \in Nat
        /\ SoundAt(k) = 0 <=> k \notin 0 .. Cardinality(apIn) - 1
<1> DEFINE seq == Listing(apIn, apPlace)
<1>1. seq \in Seq(ApSounds) /\ Len(seq) = Cardinality(apIn) /\ Len(seq) \in Nat
  BY ListingIs DEF AdjacentInv, Lists
<1>2. SoundAt(k) = IF k \in 0 .. Cardinality(apIn) - 1 THEN seq[k + 1] ELSE 0
  BY DEF SoundAt
<1> HIDE DEF seq
<1>3. k \in 0 .. Cardinality(apIn) - 1 => seq[k + 1] \in ApSounds
  <2>1. k \in 0 .. Cardinality(apIn) - 1 => k + 1 \in 1 .. Len(seq)
    BY <1>1
  <2> QED BY <1>1, <2>1, ElementOfSeq
<1>4. ApSounds \subseteq Nat \ {0}
  BY AdjacentAssumption
<1>5. CASE k \in 0 .. Cardinality(apIn) - 1
  <2>1. SoundAt(k) = seq[k + 1] /\ SoundAt(k) \in Nat \ {0}
    BY <1>2, <1>3, <1>4, <1>5
  <2> QED BY <1>5, <2>1 DEF seq
<1>6. CASE k \notin 0 .. Cardinality(apIn) - 1
  BY <1>2, <1>6
<1> QED BY <1>5, <1>6

\* A step of a command, from one that began with the list that there is.
LEMMA JobGoesOn ==
  ASSUME AdjacentInv, NEW job, PlayStep(job), job \in JobRecs, job.step # "none" => job.offset # 0,
         apFrom # <<>> /\ apFrom = Listing(apIn, apPlace) => JobPlaced'
  PROVE AdjacentInv'
<1>1. UNCHANGED <<apIn, apPlace, apShown, apCached, apActive, apPlaying, apFrom>> /\ apJob' = job
  BY DEF PlayStep, ListShown
<1>2. (apJob \in JobRecs)' /\ (apJob.step # "none" => apJob.offset # 0)'
  BY <1>1
<1>3. (apFrom # <<>> /\ apFrom = Listing(apIn, apPlace))' => JobPlaced'
  BY <1>1
<1> QED BY <1>1, <1>2, <1>3 DEF AdjacentInv

LEMMA PositionFound == ASSUME AdjacentInv, FindPosition PROVE AdjacentInv'
<1> DEFINE next == IF apJob.sound \in apIn
                   THEN [apJob EXCEPT !.step = "count", !.position = StoredPosition(apJob.sound)]
                   ELSE [apJob EXCEPT !.step = "done"]
<1>0. apJob.step = "position" /\ PlayStep(next) /\ apJob \in JobRecs /\ apJob.offset # 0
  BY DEF FindPosition, AdjacentInv
<1>1. PICK job : job = next
  OBVIOUS
<1>2. StoredPosition(apJob.sound) = Rank(apIn, apPlace, apJob.sound)
  BY DEF StoredPosition, ComesBefore, Rank, Earlier
<1>3. apJob.sound \in apIn => Rank(apIn, apPlace, apJob.sound) \in Int
  <2>1. ASSUME NEW s \in apIn PROVE Rank(apIn, apPlace, s) \in Int
    <3>1. Cardinality(apIn) \in Nat /\ Rank(apIn, apPlace, s) \in 0 .. Cardinality(apIn) - 1
      BY RankGrows DEF AdjacentInv
    <3> QED BY <3>1
  <2> QED BY <2>1
<1>4. /\ job \in JobRecs /\ job.offset = apJob.offset /\ job.sound = apJob.sound /\ job.by = apJob.by
      /\ job.found = apJob.found
      /\ apJob.sound \in apIn => job.step = "count" /\ job.position = Rank(apIn, apPlace, apJob.sound)
      /\ apJob.sound \notin apIn => job.step = "done"
  BY <1>0, <1>1, <1>2, <1>3 DEF JobRecs
<1>5. apJob' = job /\ UNCHANGED <<apIn, apFrom>> /\ PlayStep(job)
  BY <1>0, <1>1 DEF PlayStep, ListShown
<1> HIDE DEF next
<1>6. ASSUME apFrom # <<>>, apFrom = Listing(apIn, apPlace) PROVE JobPlaced'
  <2>1. apJob.by = "continue" /\ apJob.found = 0
    BY <1>0, <1>6 DEF AdjacentInv, JobPlaced
  <2>2. CASE apJob.sound \in apIn
    <3> DEFINE s == apJob.sound
    <3>1. Rank(apIn, apPlace, s) + 1 \in 1 .. Len(apFrom) /\ apFrom[Rank(apIn, apPlace, s) + 1] = s /\ DOMAIN apFrom = 1 .. Len(apFrom)
      BY <1>6, <2>2, ListingIs, LenProperties DEF AdjacentInv, Lists
    <3> QED BY <1>4, <1>5, <2>1, <2>2, <3>1 DEF JobPlaced, WellPlaced
  <2>3. CASE apJob.sound \notin apIn
    BY <1>4, <1>5, <2>1, <2>3 DEF JobPlaced
  <2> QED BY <2>2, <2>3
<1> QED BY <1>0, <1>4, <1>5, <1>6, JobGoesOn

LEMMA SoundsCounted == ASSUME AdjacentInv, CountSounds PROVE AdjacentInv'
<1> DEFINE next == [apJob EXCEPT !.total = Cardinality(apIn),
                            !.step = IF apIn = {} THEN "done"
                                     ELSE IF apJob.position < 0 THEN "boundary" ELSE "adjacent"]
<1>0. apJob.step = "count" /\ PlayStep(next) /\ apJob \in JobRecs /\ apJob.offset # 0 /\ Cardinality(apIn) \in Nat
  BY ListingIs DEF CountSounds, AdjacentInv, Lists
<1>1. PICK job : job = next
  OBVIOUS
<1>4. /\ job \in JobRecs /\ job.offset = apJob.offset /\ job.sound = apJob.sound /\ job.by = apJob.by
      /\ job.position = apJob.position /\ job.position \in Int /\ job.total = Cardinality(apIn) /\ job.found = apJob.found
      /\ job.step = IF apIn = {} THEN "done" ELSE IF apJob.position < 0 THEN "boundary" ELSE "adjacent"
  BY <1>0, <1>1 DEF JobRecs
<1>5. apJob' = job /\ UNCHANGED <<apIn, apFrom>> /\ PlayStep(job)
  BY <1>0, <1>1 DEF PlayStep, ListShown
<1> HIDE DEF next
<1>6. ASSUME apFrom # <<>>, apFrom = Listing(apIn, apPlace) PROVE JobPlaced'
  <2>1. WellPlaced /\ apJob.found = 0
    BY <1>0, <1>6 DEF AdjacentInv, JobPlaced
  <2>2. Len(apFrom) = Cardinality(apIn) /\ Len(apFrom) \in Nat \ {0} /\ ToSet(apFrom) = apIn
    BY <1>6, ListingIs, EmptySeq DEF AdjacentInv, Lists
  <2>3. apIn # {}
    BY <2>2, FS_EmptySet
  <2> QED BY <1>4, <1>5, <2>1, <2>2, <2>3 DEF JobPlaced, WellPlaced
<1> QED BY <1>0, <1>4, <1>5, <1>6, JobGoesOn

LEMMA AdjacentFound == ASSUME AdjacentInv, FindAdjacent PROVE AdjacentInv'
<1> DEFINE k == apJob.position + apJob.offset
           next == [apJob EXCEPT !.found = SoundAt(k), !.step = IF SoundAt(k) = 0 THEN "boundary" ELSE "done"]
<1>0. apJob.step = "adjacent" /\ PlayStep(next) /\ apJob \in JobRecs /\ apJob.offset # 0
  BY DEF FindAdjacent, AdjacentInv
<1>1. PICK job : job = next
  OBVIOUS
<1>2. k \in Int /\ apJob.position \in Int /\ apJob.offset \in {-1, 1}
  BY <1>0 DEF JobRecs
<1>3. /\ k \in 0 .. Cardinality(apIn) - 1 => SoundAt(k) = Listing(apIn, apPlace)[k + 1]
      /\ SoundAt(k) \in Nat
      /\ SoundAt(k) = 0 <=> k \notin 0 .. Cardinality(apIn) - 1
  BY <1>2, SoundAtIs
<1>4. /\ job \in JobRecs /\ job.offset = apJob.offset /\ job.sound = apJob.sound /\ job.by = apJob.by
      /\ job.position = apJob.position /\ job.total = apJob.total /\ job.found = SoundAt(k)
      /\ job.step = IF SoundAt(k) = 0 THEN "boundary" ELSE "done"
  BY <1>0, <1>1, <1>3 DEF JobRecs
<1>5. apJob' = job /\ UNCHANGED <<apIn, apFrom>> /\ PlayStep(job)
  BY <1>0, <1>1 DEF PlayStep, ListShown
<1> HIDE DEF next
<1>6. ASSUME apFrom # <<>>, apFrom = Listing(apIn, apPlace) PROVE JobPlaced'
  <2>1. WellPlaced /\ apJob.position >= 0 /\ apJob.total = Len(apFrom)
    BY <1>0, <1>6 DEF AdjacentInv, JobPlaced
  <2> DEFINE i == apJob.position
             n == Len(apFrom)
  <2>2. i + 1 \in DOMAIN apFrom /\ apFrom[i + 1] = apJob.sound
    BY <1>2, <2>1 DEF WellPlaced
  <2>a. GoesRound(apFrom, apJob.offset) /\ n = Cardinality(apIn)
    <3>1. GoesRound(Listing(apIn, apPlace), apJob.offset) /\ Len(Listing(apIn, apPlace)) = Cardinality(apIn)
      BY <1>2, <1>6, SuccessorIs DEF AdjacentInv
    <3> QED BY <1>6, <3>1
  <2>3. /\ n \in Nat \ {0} /\ DOMAIN apFrom = 1 .. n /\ n = Cardinality(apIn)
        /\ \A j \in 0 .. n - 1 :
             j + apJob.offset \in 0 .. n - 1 => Successor(apFrom, apFrom[j + 1], apJob.offset) = apFrom[j + apJob.offset + 1]
    BY <2>a DEF GoesRound
  <2>4. i \in 0 .. n - 1
    BY <1>2, <2>2, <2>3
  <2>5. CASE k \in 0 .. n - 1
    <3>1. SoundAt(k) = apFrom[k + 1] /\ SoundAt(k) # 0
      BY <1>3, <1>6, <2>3, <2>5
    <3>2. Successor(apFrom, apJob.sound, apJob.offset) = apFrom[k + 1]
      BY <2>2, <2>3, <2>4, <2>5
    <3> QED BY <1>4, <1>5, <3>1, <3>2 DEF JobPlaced
  <2>6. CASE k \notin 0 .. n - 1
    <3>1. SoundAt(k) = 0
      BY <1>3, <2>3, <2>6
    <3> QED BY <1>4, <1>5, <2>1, <2>6, <3>1 DEF JobPlaced, WellPlaced
  <2> QED BY <2>5, <2>6
<1> QED BY <1>0, <1>4, <1>5, <1>6, JobGoesOn

LEMMA BoundaryFound == ASSUME AdjacentInv, FindBoundary PROVE AdjacentInv'
<1> DEFINE k == IF apJob.offset < 0 THEN apJob.total - 1 ELSE 0
           next == [apJob EXCEPT !.found = SoundAt(k), !.step = "done"]
<1>0. apJob.step = "boundary" /\ PlayStep(next) /\ apJob \in JobRecs /\ apJob.offset # 0
  BY DEF FindBoundary, AdjacentInv
<1>1. PICK job : job = next
  OBVIOUS
<1>2. k \in Int /\ apJob.position \in Int /\ apJob.offset \in {-1, 1}
  BY <1>0 DEF JobRecs
<1>3. /\ k \in 0 .. Cardinality(apIn) - 1 => SoundAt(k) = Listing(apIn, apPlace)[k + 1]
      /\ SoundAt(k) \in Nat
  BY <1>2, SoundAtIs
<1>4. /\ job \in JobRecs /\ job.offset = apJob.offset /\ job.sound = apJob.sound /\ job.by = apJob.by
      /\ job.position = apJob.position /\ job.found = SoundAt(k) /\ job.step = "done"
  BY <1>0, <1>1, <1>3 DEF JobRecs
<1>5. apJob' = job /\ UNCHANGED <<apIn, apFrom>> /\ PlayStep(job)
  BY <1>0, <1>1 DEF PlayStep, ListShown
<1> HIDE DEF next
<1>6. ASSUME apFrom # <<>>, apFrom = Listing(apIn, apPlace) PROVE JobPlaced'
  <2> DEFINE i == apJob.position
             n == Len(apFrom)
  <2>1. WellPlaced /\ apJob.total = n /\ (i >= 0 => i + apJob.offset \notin 0 .. n - 1)
    BY <1>0, <1>6 DEF AdjacentInv, JobPlaced
  <2>a. GoesRound(apFrom, apJob.offset) /\ n = Cardinality(apIn)
    <3>1. GoesRound(Listing(apIn, apPlace), apJob.offset) /\ Len(Listing(apIn, apPlace)) = Cardinality(apIn)
      BY <1>2, <1>6, SuccessorIs DEF AdjacentInv
    <3> QED BY <1>6, <3>1
  <2>2. /\ n \in Nat \ {0} /\ DOMAIN apFrom = 1 .. n /\ n = Cardinality(apIn)
        /\ Successor(apFrom, 0, apJob.offset) = IF apJob.offset < 0 THEN apFrom[n] ELSE apFrom[1]
        /\ \A j \in 0 .. n - 1 :
             j + apJob.offset \notin 0 .. n - 1 =>
               Successor(apFrom, apFrom[j + 1], apJob.offset) = IF apJob.offset < 0 THEN apFrom[n] ELSE apFrom[1]
    BY <2>a DEF GoesRound
  <2>3. k \in 0 .. n - 1 /\ k + 1 = IF apJob.offset < 0 THEN n ELSE 1
    BY <2>1, <2>2
  <2>4. SoundAt(k) = IF apJob.offset < 0 THEN apFrom[n] ELSE apFrom[1]
    BY <1>3, <1>6, <2>2, <2>3
  <2>5. CASE i + 1 \in DOMAIN apFrom /\ apFrom[i + 1] = apJob.sound
    <3>1. i \in 0 .. n - 1 /\ i + apJob.offset \notin 0 .. n - 1
      BY <1>2, <2>1, <2>2, <2>5
    <3>2. Successor(apFrom, apJob.sound, apJob.offset) = SoundAt(k)
      BY <2>2, <2>4, <2>5, <3>1
    <3> QED BY <1>4, <1>5, <3>2 DEF JobPlaced
  <2>6. CASE apJob.by = "press" /\ i = -1
    <3>1. Successor(apFrom, 0, apJob.offset) = SoundAt(k) /\ i < 0
      BY <2>2, <2>4, <2>6
    <3> QED BY <1>4, <1>5, <2>6, <3>1 DEF JobPlaced
  <2> QED BY <2>1, <2>5, <2>6 DEF WellPlaced
<1> QED BY <1>0, <1>4, <1>5, <1>6, JobGoesOn

\* A command that begins.
LEMMA PlayStarts ==
  ASSUME AdjacentInv, NEW job, StartPlay(job), job \in JobRecs, job.offset # 0, job.found = 0,
         \/ job.step = "position" /\ job.by = "continue"
         \/ /\ job.step = "count"
            /\ \/ job.position + 1 \in DOMAIN apShown /\ apShown[job.position + 1] = job.sound
               \/ job.by = "press" /\ job.position = -1
  PROVE AdjacentInv'
<1>1. UNCHANGED <<apIn, apPlace, apShown, apCached, apActive>> /\ apJob' = job /\ apFrom' = apShown /\ apPlaying' = 0
  BY DEF StartPlay, ListShown
<1>2. (apJob \in JobRecs)' /\ (apJob.step # "none" => apJob.offset # 0)'
  BY <1>1
<1>3. JobPlaced'
  BY <1>1 DEF JobPlaced, WellPlaced
<1> QED BY <1>1, <1>2, <1>3 DEF AdjacentInv

LEMMA PressStarts == ASSUME AdjacentInv, NEW offset \in {-1, 1}, PressAdjacent(offset) PROVE AdjacentInv'
<1> DEFINE k == ShownPosition
<1>1. PICK job : job = [NoFollowing EXCEPT !.step = "count", !.sound = apActive, !.position = k - 1, !.offset = offset]
  OBVIOUS
<1>2. StartPlay(job)
  BY <1>1 DEF PressAdjacent
<1>3. apShown \in Seq(ApSounds) /\ Len(apShown) \in Nat /\ DOMAIN apShown = 1 .. Len(apShown)
  BY LenProperties DEF AdjacentInv
<1>4. k = 0 \/ (k \in DOMAIN apShown /\ apShown[k] = apActive)
  <2>1. CASE apActive \in apCached
    <3>1. \E j \in DOMAIN apShown : apShown[j] = apActive
      BY <2>1 DEF AdjacentInv, ToSet
    <3> QED BY <2>1, <3>1 DEF ShownPosition
  <2>2. CASE apActive \notin apCached
    BY <2>2 DEF ShownPosition
  <2> QED BY <2>1, <2>2
<1> HIDE DEF k
<1>5. k \in Nat /\ k - 1 \in Int
  BY <1>3, <1>4
<1>6. /\ job \in JobRecs /\ job.offset = offset /\ job.found = 0 /\ job.step = "count" /\ job.by = "press"
      /\ job.position = k - 1 /\ job.sound = apActive
  BY <1>1, <1>5 DEF NoFollowing, JobRecs, AdjacentInv
<1>7. \/ job.position + 1 \in DOMAIN apShown /\ apShown[job.position + 1] = job.sound
      \/ job.by = "press" /\ job.position = -1
  <2>1. k - 1 + 1 = k
    BY <1>5
  <2> QED BY <1>4, <1>6, <2>1
<1> QED BY <1>2, <1>6, <1>7, PlayStarts

LEMMA ContinueStarts == ASSUME AdjacentInv, NEW s \in ApSounds, ContinueFrom(s) PROVE AdjacentInv'
<1>1. PICK job : job = [NoFollowing EXCEPT !.step = "position", !.by = "continue", !.sound = s, !.offset = 1]
  OBVIOUS
<1>2. StartPlay(job)
  BY <1>1 DEF ContinueFrom
<1>3. job = [step |-> "position", by |-> "continue", sound |-> s, position |-> -1, offset |-> 1, total |-> 0, found |-> 0]
  BY <1>1 DEF NoFollowing
<1>4. -1 \in Int /\ 0 \in Nat /\ s \in Nat /\ 1 \in {-1, 0, 1}
  BY AdjacentAssumption
<1>5. job \in JobRecs
  BY <1>3, <1>4 DEF JobRecs
<1>6. job.offset # 0 /\ job.found = 0 /\ job.step = "position" /\ job.by = "continue"
  BY <1>3
<1> QED BY <1>2, <1>5, <1>6, PlayStarts

LEMMA NoFollowingIs == NoFollowing \in JobRecs /\ NoFollowing.step = "none"
BY DEF NoFollowing, JobRecs

LEMMA AdjacentStart == ASSUME ApInit PROVE AdjacentInv
<1>1. apIn \in SUBSET ApSounds /\ apPlace \in Placings /\ apShown = Listing(apIn, apPlace) /\ apCached = apIn
  BY DEF ApInit, Placings
<1>2. apShown \in Seq(ApSounds) /\ ToSet(apShown) = apIn
  BY <1>1, ListingIs DEF Lists
<1>3. apJob = NoFollowing /\ apFrom = <<>> /\ {apActive, apPlaying} \subseteq Nat
  BY AdjacentAssumption DEF ApInit
<1> QED BY <1>1, <1>2, <1>3, NoFollowingIs DEF AdjacentInv

LEMMA AdjacentGoesOn == ASSUME AdjacentInv, [ApNext]_apVars PROVE AdjacentInv'
<1>1. CASE UNCHANGED apVars
  BY <1>1 DEF apVars, AdjacentInv, JobPlaced, WellPlaced
<1>2. CASE PlayFound
  <2>1. UNCHANGED <<apIn, apPlace, apShown, apCached, apActive, apFrom>> /\ apJob' = NoFollowing
    BY <1>2 DEF PlayFound, ListShown
  <2>2. apJob' \in JobRecs /\ apJob'.step = "none"
    BY <2>1, NoFollowingIs
  <2>3. JobPlaced'
    BY <2>2 DEF JobPlaced
  <2>4. apPlaying' \in Nat
    BY <1>2 DEF PlayFound, AdjacentInv, JobRecs
  <2> QED BY <2>1, <2>2, <2>3, <2>4 DEF AdjacentInv
<1>3. CASE SnapshotComes
  <2>1. UNCHANGED <<apIn, apPlace, apShown, apCached, apFrom, apJob, apPlaying>> /\ apActive' = apPlaying
    BY <1>3 DEF SnapshotComes, ListShown
  <2> QED BY <2>1 DEF AdjacentInv, JobPlaced, WellPlaced
<1>4. CASE ListedChange
  <2>1. UNCHANGED <<apShown, apCached, apActive, apPlaying, apJob>> /\ apFrom' = <<>>
    BY <1>4 DEF ListedChange
  <2>2. apIn' \in SUBSET ApSounds /\ apPlace' \in Placings
    BY <1>4 DEF ListedChange, AdjacentInv, Placings
  <2> QED BY <2>1, <2>2 DEF AdjacentInv
<1>5. CASE ListLoads
  <2>1. UNCHANGED <<apIn, apPlace, apActive, apPlaying, apFrom, apJob>> /\ apShown' = Listing(apIn, apPlace) /\ apCached' = apIn
    BY <1>5 DEF ListLoads
  <2>2. apShown' \in Seq(ApSounds) /\ ToSet(apShown') = apIn
    BY <2>1, ListingIs DEF AdjacentInv, Lists
  <2>3. (apFrom # <<>> /\ apFrom = Listing(apIn, apPlace) => JobPlaced)'
    BY <2>1 DEF AdjacentInv, JobPlaced, WellPlaced
  <2> QED BY <2>1, <2>2, <2>3 DEF AdjacentInv
<1>6. CASE PageDropped
  <2>1. UNCHANGED <<apIn, apPlace, apShown, apActive, apPlaying, apFrom, apJob>> /\ apCached' \subseteq apCached
    BY <1>6 DEF PageDropped
  <2> QED BY <2>1 DEF AdjacentInv, JobPlaced, WellPlaced
<1> QED
  BY <1>1, <1>2, <1>3, <1>4, <1>5, <1>6, PressStarts, ContinueStarts, PositionFound, SoundsCounted, AdjacentFound,
     BoundaryFound DEF ApNext

\* Wherever the active sound is in the list and whatever the library does: a
\* command during which the list has not changed finds the sound that follows
\* in it, around its ends.
THEOREM FollowsTheList == ApSpec => []AdjacentFollowsTheList
<1>1. AdjacentInv => AdjacentFollowsTheList
  BY DEF AdjacentInv, JobPlaced, AdjacentFollowsTheList
<1>2. ApInit => AdjacentInv
  BY AdjacentStart
<1>3. AdjacentInv /\ [ApNext]_apVars => AdjacentInv'
  BY AdjacentGoesOn
<1> QED BY <1>1, <1>2, <1>3, PTL DEF ApSpec

-----------------------------------------------------------------------------
(***************************************************************************)
(* PagedList.                                                              *)
(*                                                                         *)
(* What the methods of the model keep of the record of its fields, and     *)
(* what the lanes and the answers on their way add to it.                  *)

\* Requests of this list for the query q: for a page, and the two of a reload.
PageAsks(q) == [kind : {"page"}, page : Nat, priority : {"visible", "prefetch"}, query : {q}]
Asks(q) == PageAsks(q) \cup {Request("first", 0, "visible", q), Request("count", 0, "visible", q)}

PageRecords ==
  [len : Nat, loaded : Nat, state : {"loading", "rows", "failed"}, payload : Nat, query : Nat]

\* The fields of a list.
Fields(m) ==
  m \in [total : Nat, pages : {m.pages}, lru : Seq(Nat), pending : SUBSET Nat,
         deferred : Seq(Nat), timer : BOOLEAN, sent : {m.sent}]
Tabled(m) ==
  /\ DOMAIN m.pages \subseteq Nat
  /\ m.pages \in [DOMAIN m.pages -> PageRecords]

\* The cache, where only page p may be without a place in the order.
Nearly(m, p) ==
  /\ Fields(m) /\ Tabled(m)
  /\ IsInjective(m.lru)
  /\ DOMAIN m.pages \subseteq ToSet(m.lru) \cup {p}
  /\ m.pending \subseteq DOMAIN m.pages
Cached(m) ==
  /\ Fields(m) /\ Tabled(m)
  /\ IsInjective(m.lru)
  /\ DOMAIN m.pages \subseteq ToSet(m.lru)
  /\ m.pending \subseteq DOMAIN m.pages

\* Pages show rows of query q, have failed, or are asked for.
Shows(m, q, idle) ==
  \A p \in DOMAIN m.pages :
    /\ m.pages[p].state = "rows" => m.pages[p].query = q
    /\ m.pages[p].state = "loading" => p \in m.pending \/ idle

\* Every page that is asked for has its request under way, U being the pages
\* whose requests have left the GTK thread.
Covered(m, U) ==
  /\ m.sent \in Seq(PageAsks(shownQuery))
  /\ \A p \in m.pending : p \in U \/ \E i \in DOMAIN m.sent : m.sent[i].page = p

Good(m, U, idle) == Cached(m) /\ WithinLimits(m) /\ Shows(m, shownQuery, idle) /\ Covered(m, U)

\* A list that has evicted pages, and nothing else but the order is changed.
Alike(m, k) ==
  k.total = m.total /\ k.deferred = m.deferred /\ k.timer = m.timer
Shrinks(m, k) ==
  /\ Alike(m, k) /\ k.sent = m.sent
  /\ DOMAIN k.pages \subseteq DOMAIN m.pages
  /\ \A x \in DOMAIN k.pages : k.pages[x] = m.pages[x] /\ (x \in m.pending => x \in k.pending)
  /\ k.pending \subseteq m.pending

\* What a list that only evicts pages keeps.
LEMMA ShrinkKeeps ==
  ASSUME NEW m, NEW k, NEW q, NEW idle, NEW U, Shrinks(m, k)
  PROVE  /\ Shows(m, q, idle) => Shows(k, q, idle)
         /\ Covered(m, U) => Covered(k, U)
BY DEF Shrinks, Shows, Covered

\* A table of pages is evicted from.
LEMMA EvictedAre ==
  ASSUME NEW m, Fields(m), NEW S
  PROVE  /\ EvictAll(m, S) = [total |-> m.total, pages |-> Without(m.pages, S), lru |-> m.lru,
                              pending |-> m.pending \ S, deferred |-> m.deferred,
                              timer |-> m.timer, sent |-> m.sent]
         /\ Fields(EvictAll(m, S))
<1> DEFINE k == [total |-> m.total, pages |-> Without(m.pages, S), lru |-> m.lru,
                 pending |-> m.pending \ S, deferred |-> m.deferred,
                 timer |-> m.timer, sent |-> m.sent]
<1>1. EvictAll(m, S) = k
  <2> DEFINE T == Without(m.pages, S)
             R == m.pending \ S
  <2>1. EvictAll(m, S) = [m EXCEPT !.pages = T, !.pending = R]
    BY DEF EvictAll
  <2>2. k = [total |-> m.total, pages |-> T, lru |-> m.lru, pending |-> R, deferred |-> m.deferred,
             timer |-> m.timer, sent |-> m.sent]
    OBVIOUS
  <2>3. m = [total |-> m.total, pages |-> m.pages, lru |-> m.lru, pending |-> m.pending,
             deferred |-> m.deferred, timer |-> m.timer, sent |-> m.sent]
    BY DEF Fields
  <2> HIDE DEF T, R, k
  <2> QED BY <2>1, <2>2, <2>3
<1>2. Fields(k)
  <2> DEFINE T == Without(m.pages, S)
  <2>1. k = [k EXCEPT !.pages = T]
    OBVIOUS
  <2> HIDE DEF T
  <2> QED BY DEF Fields, T
<1> QED BY <1>1, <1>2

\* A table without the pages of S.
LEMMA WithoutIs ==
  ASSUME NEW m, Tabled(m), NEW S
  PROVE  /\ DOMAIN Without(m.pages, S) = DOMAIN m.pages \ S
         /\ \A x \in DOMAIN m.pages \ S : Without(m.pages, S)[x] = m.pages[x]
         /\ Without(m.pages, S) \in [DOMAIN m.pages \ S -> PageRecords]
BY DEF Without, Tabled

\* The elements of a sequence.
LEMMA ElementsOf ==
  ASSUME NEW S, NEW s \in Seq(S)
  PROVE  /\ Len(s) \in Nat /\ DOMAIN s = 1 .. Len(s)
         /\ ToSet(s) = {s[i] : i \in 1 .. Len(s)}
         /\ \A i \in 1 .. Len(s) : s[i] \in S
  BY LenProperties DEF ToSet

\* A sequence of which one place is removed.
LEMMA LeftOf ==
  ASSUME NEW s \in Seq(Nat), NEW at \in 1 .. Len(s)
  PROVE  /\ RemoveAt(s, at) \in Seq(Nat) /\ Len(RemoveAt(s, at)) = Len(s) - 1
         /\ \A j \in 1 .. Len(s) - 1 : RemoveAt(s, at)[j] = IF j < at THEN s[j] ELSE s[j + 1]
<1> DEFINE l1 == SubSeq(s, 1, at - 1)
           l2 == SubSeq(s, at + 1, Len(s))
<1>0. Len(s) \in Nat /\ \A i \in 1 .. Len(s) : s[i] \in Nat
  BY ElementsOf
<1>1. /\ l1 \in Seq(Nat) /\ Len(l1) = at - 1
      /\ \A j \in 1 .. at - 1 : l1[j] = s[j]
  <2>1. /\ 1 \in Int /\ at - 1 \in Int /\ \A i \in 1 .. at - 1 : s[i] \in Nat
    BY <1>0
  <2>2. /\ l1 \in Seq(Nat) /\ Len(l1) = (IF 1 <= at - 1 THEN (at - 1) - 1 + 1 ELSE 0)
        /\ \A j \in 1 .. (at - 1) - 1 + 1 : l1[j] = s[1 + j - 1]
    BY <2>1, SubSeqProperties
  <2> HIDE DEF l1
  <2> QED BY <2>2, <1>0
<1>2. /\ l2 \in Seq(Nat) /\ Len(l2) = Len(s) - at
      /\ \A j \in 1 .. Len(s) - at : l2[j] = s[at + j]
  <2>1. /\ Len(s) \in Int /\ at + 1 \in Int /\ \A i \in at + 1 .. Len(s) : s[i] \in Nat
    BY <1>0
  <2>2. /\ l2 \in Seq(Nat) /\ Len(l2) = (IF at + 1 <= Len(s) THEN Len(s) - (at + 1) + 1 ELSE 0)
        /\ \A j \in 1 .. Len(s) - (at + 1) + 1 : l2[j] = s[(at + 1) + j - 1]
    BY <2>1, SubSeqProperties
  <2> HIDE DEF l2
  <2> QED BY <2>2, <1>0
<1>3. RemoveAt(s, at) = l1 \o l2
  BY DEF RemoveAt
<1> HIDE DEF l1, l2
<1>4. /\ l1 \o l2 \in Seq(Nat) /\ Len(l1 \o l2) = Len(l1) + Len(l2)
      /\ \A j \in 1 .. Len(l1) + Len(l2) : (l1 \o l2)[j] = IF j <= Len(l1) THEN l1[j] ELSE l2[j - Len(l1)]
  BY <1>1, <1>2, ConcatProperties
<1>5. ASSUME NEW j \in 1 .. Len(s) - 1 PROVE (l1 \o l2)[j] = IF j < at THEN s[j] ELSE s[j + 1]
  <2>1. CASE j < at
    BY <2>1, <1>4, <1>1, <1>2, <1>0
  <2>2. CASE ~(j < at)
    <3>1. j - (at - 1) \in 1 .. Len(s) - at /\ at + (j - (at - 1)) = j + 1
      BY <2>2, <1>0
    <3>2. j \in 1 .. Len(l1) + Len(l2) /\ ~(j <= Len(l1)) /\ j - Len(l1) = j - (at - 1)
      BY <2>2, <1>1, <1>2, <1>0
    <3>3. (l1 \o l2)[j] = l2[j - (at - 1)]
      BY <3>2, <1>4
    <3>4. l2[j - (at - 1)] = s[j + 1]
      BY <3>1, <1>2
    <3> QED BY <3>3, <3>4, <2>2
  <2> QED BY <2>1, <2>2
<1>6. Len(l1) + Len(l2) = Len(s) - 1
  BY <1>1, <1>2, <1>0
<1> QED BY <1>3, <1>4, <1>5, <1>6

\* Moving the element at a place to the end sends different places to
\* different ones.
LEMMA PlacesDiffer ==
  ASSUME NEW n \in Nat, NEW at \in 1 .. n, NEW i \in 1 .. n, NEW j \in 1 .. n,
         (IF i = n THEN at ELSE IF i < at THEN i ELSE i + 1)
           = (IF j = n THEN at ELSE IF j < at THEN j ELSE j + 1)
  PROVE  i = j
OBVIOUS

\* An order of pages keeps its pages, each once, and has the moved one last.
LEMMA MovedIs ==
  ASSUME NEW order \in Seq(Nat), NEW x \in Nat, NEW moved, moved = MovedToEnd(order, x)
  PROVE  /\ moved \in Seq(Nat) /\ Len(moved) \in Nat \ {0} /\ moved[Len(moved)] = x
         /\ ToSet(moved) \subseteq ToSet(order) \cup {x}
         /\ IsInjective(order) => IsInjective(moved) /\ ToSet(moved) = ToSet(order) \cup {x}
<1>0. Len(order) \in Nat /\ DOMAIN order = 1 .. Len(order) /\ ToSet(order) = {order[i] : i \in 1 .. Len(order)}
  BY ElementsOf
<1>1. CASE x \notin ToSet(order)
  <2>1. moved = Append(order, x)
    BY <1>1 DEF MovedToEnd
  <2>2. /\ moved \in Seq(Nat) /\ Len(moved) = Len(order) + 1
        /\ \A i \in 1 .. Len(order) : moved[i] = order[i]
        /\ moved[Len(order) + 1] = x
    BY <2>1, <1>0, AppendProperties
  <2>3. DOMAIN moved = 1 .. Len(order) + 1 /\ ToSet(moved) = {moved[i] : i \in 1 .. Len(order) + 1}
    BY <2>2, ElementsOf
  <2>4. ToSet(moved) = ToSet(order) \cup {x}
    BY <2>2, <2>3, <1>0
  <2>5. IsInjective(order) => IsInjective(moved)
    BY <2>2, <2>3, <1>0, <1>1 DEF IsInjective
  <2> QED BY <2>2, <2>4, <2>5, <1>0
<1>2. CASE x \in ToSet(order)
  <2>1. PICK at \in 1 .. Len(order) : order[at] = x /\ at = CHOOSE i \in DOMAIN order : order[i] = x
    BY <1>2, <1>0
  <2> DEFINE left == RemoveAt(order, at)
  <2>2. moved = Append(left, x)
    BY <2>1, <1>2 DEF MovedToEnd
  <2>3. /\ left \in Seq(Nat) /\ Len(left) = Len(order) - 1
        /\ \A j \in 1 .. Len(order) - 1 : left[j] = IF j < at THEN order[j] ELSE order[j + 1]
    BY LeftOf
  <2> HIDE DEF left
  <2>4. /\ moved \in Seq(Nat) /\ Len(moved) = Len(order)
        /\ \A i \in 1 .. Len(order) - 1 : moved[i] = left[i]
        /\ moved[Len(order)] = x
    BY <2>2, <2>3, <1>0, AppendProperties
  <2>5. DOMAIN moved = 1 .. Len(order) /\ ToSet(moved) = {moved[i] : i \in 1 .. Len(order)}
    <3>1. DOMAIN moved = 1 .. Len(moved) /\ ToSet(moved) = {moved[i] : i \in 1 .. Len(moved)}
      <4>1. moved \in Seq(Nat)
        BY <2>4
      <4> QED BY <4>1, ElementsOf
    <3> QED BY <3>1, <2>4
  <2>6. \A i \in 1 .. Len(order) - 1 : moved[i] = IF i < at THEN order[i] ELSE order[i + 1]
    BY <2>3, <2>4, <1>0
  <2>7. ASSUME NEW i \in 1 .. Len(order)
        PROVE  \E f \in 1 .. Len(order) : moved[i] = order[f] /\ f = (IF i = Len(order) THEN at ELSE IF i < at THEN i ELSE i + 1)
    <3>1. CASE i = Len(order)
      BY <3>1, <2>1, <2>4
    <3>2. CASE i # Len(order)
      <4>1. i \in 1 .. Len(order) - 1 /\ i + 1 \in 1 .. Len(order)
        BY <3>2, <1>0
      <4> QED BY <4>1, <3>2, <2>6
    <3> QED BY <3>1, <3>2
  <2>8. ToSet(moved) \subseteq ToSet(order)
    BY <2>5, <2>7, <1>0
  <2>9. ASSUME IsInjective(order) PROVE IsInjective(moved)
    <3> SUFFICES ASSUME NEW i \in 1 .. Len(order), NEW j \in 1 .. Len(order), moved[i] = moved[j] PROVE i = j
      BY <2>5 DEF IsInjective
    <3>1. PICK f \in 1 .. Len(order) : moved[i] = order[f] /\ f = (IF i = Len(order) THEN at ELSE IF i < at THEN i ELSE i + 1)
      BY <2>7
    <3>2. PICK g \in 1 .. Len(order) : moved[j] = order[g] /\ g = (IF j = Len(order) THEN at ELSE IF j < at THEN j ELSE j + 1)
      BY <2>7
    <3>3. f = g
      BY <2>9, <3>1, <3>2, <1>0 DEF IsInjective
    <3>5. (IF i = Len(order) THEN at ELSE IF i < at THEN i ELSE i + 1)
            = (IF j = Len(order) THEN at ELSE IF j < at THEN j ELSE j + 1)
      BY <3>1, <3>2, <3>3
    <3> QED BY <3>5, <1>0, PlacesDiffer
  <2>10. ToSet(order) \subseteq ToSet(moved)
    <3> SUFFICES ASSUME NEW i \in 1 .. Len(order) PROVE \E j \in 1 .. Len(order) : moved[j] = order[i]
      BY <2>5, <1>0
    <3>1. CASE i < at
      BY <3>1, <2>6, <1>0
    <3>2. CASE i > at
      <4>1. i - 1 \in 1 .. Len(order) - 1 /\ ~(i - 1 < at) /\ (i - 1) + 1 = i
        BY <3>2, <1>0
      <4>2. moved[i - 1] = order[(i - 1) + 1]
        BY <4>1, <2>6
      <4>3. i - 1 \in 1 .. Len(order)
        BY <4>1, <1>0
      <4> QED BY <4>1, <4>2, <4>3
    <3>3. CASE i = at
      BY <3>3, <2>1, <2>4, <1>0
    <3> QED BY <3>1, <3>2, <3>3, <1>0
  <2> QED BY <2>4, <2>8, <2>9, <2>10, <1>0, <1>2
<1> QED BY <1>1, <1>2

\* The limits of the cache and the lanes.
LEMMA LimitsAre ==
  /\ PageSize \in Nat \ {0} /\ MaxCachedPages \in Nat \ {0} /\ MaxPendingLoads \in Nat \ {0}
  /\ MaxCachedPayload \in Nat /\ VisibleCapacity \in Nat /\ MaintenanceCapacity \in Nat
  BY PagedListAssumption

\* The least of a set of numbers.
LEMMA MinLeast == ASSUME NEW S \in SUBSET Nat, S # {} PROVE Min(S) \in S /\ \A n \in S : Min(S) <= n
  BY LeastExists DEF Min

\* An order of pages has finitely many.
LEMMA CachedIsFinite ==
  ASSUME NEW s \in Seq(Nat)
  PROVE  IsFiniteSet(ToSet(s))
<1>1. Len(s) \in Nat /\ DOMAIN s = 1 .. Len(s) /\ ToSet(s) = {s[i] : i \in 1 .. Len(s)}
  BY ElementsOf
<1>2. IsFiniteSet(1 .. Len(s))
  BY <1>1, FS_Interval
<1>3. [i \in 1 .. Len(s) |-> s[i]] \in Surjection(1 .. Len(s), ToSet(s))
  BY <1>1 DEF Surjection
<1> QED BY <1>2, <1>3, FS_Surjection

\* The payload of a table, and what evicting leaves of it.
UnitsOf(pages, p) == {p} \X (1 .. pages[p].payload)
Units(pages) == UNION {UnitsOf(pages, p) : p \in DOMAIN pages}

\* The payload of a table, counted unit by unit.
LEMMA PayloadIs == ASSUME NEW pages PROVE CachedPayload(pages) = Cardinality(Units(pages))
  BY DEF CachedPayload, Units, UnitsOf

\* A finite table has a finite payload.
LEMMA PayloadIsFinite ==
  ASSUME NEW m, Tabled(m), IsFiniteSet(DOMAIN m.pages)
  PROVE  IsFiniteSet(Units(m.pages))
<1> DEFINE D == DOMAIN m.pages
           T == {UnitsOf(m.pages, p) : p \in D}
<1>1. \A p \in D : IsFiniteSet(UnitsOf(m.pages, p))
  <2> SUFFICES ASSUME NEW p \in D PROVE IsFiniteSet(UnitsOf(m.pages, p))
    OBVIOUS
  <2>1. m.pages[p].payload \in Nat
    BY DEF Tabled, PageRecords
  <2>2. IsFiniteSet(1 .. m.pages[p].payload)
    BY <2>1, FS_Interval
  <2>3. IsFiniteSet({p})
    BY FS_Singleton
  <2> QED BY <2>2, <2>3, FS_Product DEF UnitsOf
<1>2. [p \in D |-> UnitsOf(m.pages, p)] \in Surjection(D, T)
  BY DEF Surjection
<1>3. IsFiniteSet(T)
  BY <1>2, FS_Surjection
<1>4. \A t \in T : IsFiniteSet(t)
  BY <1>1
<1>5. IsFiniteSet(UNION T)
  <2> HIDE DEF T
  <2> QED BY <1>3, <1>4, FS_UNION
<1> QED BY <1>5 DEF Units

\* Fewer pages have less payload.
LEMMA PayloadShrinks ==
  ASSUME NEW m, Tabled(m), IsFiniteSet(DOMAIN m.pages), NEW pages,
         DOMAIN pages \subseteq DOMAIN m.pages, \A x \in DOMAIN pages : pages[x] = m.pages[x],
         CachedPayload(m.pages) <= MaxCachedPayload
  PROVE  CachedPayload(pages) <= MaxCachedPayload
<1>1. Units(pages) \subseteq Units(m.pages)
  BY DEF Units, UnitsOf
<1>2. IsFiniteSet(Units(m.pages))
  BY PayloadIsFinite
<1>3. /\ Cardinality(Units(pages)) \in Nat /\ Cardinality(Units(m.pages)) \in Nat
      /\ Cardinality(Units(pages)) <= Cardinality(Units(m.pages))
  BY <1>1, <1>2, FS_Subset, FS_CardinalityType
<1> QED BY <1>3, PayloadIs, PagedListAssumption

\* A table of nothing but one page of placeholders is within the limit.
LEMMA NoPayload ==
  ASSUME NEW pages, NEW p, DOMAIN pages \subseteq {p}, p \in DOMAIN pages => pages[p].payload = 0
  PROVE  CachedPayload(pages) <= MaxCachedPayload
<1>1. Units(pages) = {}
  BY DEF Units, UnitsOf
<1>2. Cardinality(Units(pages)) = 0
  BY <1>1, FS_EmptySet
<1> QED BY <1>2, PayloadIs, PagedListAssumption

\* A part of an order from its k-th page on.
LEMMA PartOf ==
  ASSUME NEW s \in Seq(Nat), NEW k \in 0 .. Len(s), NEW part, part = SubSeq(s, k + 1, Len(s))
  PROVE  /\ part \in Seq(Nat) /\ Len(part) = Len(s) - k
         /\ \A j \in 1 .. Len(s) - k : part[j] = s[k + j]
<1>0. Len(s) \in Nat /\ \A i \in 1 .. Len(s) : s[i] \in Nat
  BY ElementsOf
<1>1. /\ Len(s) \in Int /\ k + 1 \in Int /\ \A i \in k + 1 .. Len(s) : s[i] \in Nat
  BY <1>0
<1>2. /\ part \in Seq(Nat) /\ Len(part) = (IF k + 1 <= Len(s) THEN Len(s) - (k + 1) + 1 ELSE 0)
      /\ \A j \in 1 .. Len(s) - (k + 1) + 1 : part[j] = s[(k + 1) + j - 1]
  BY <1>1, SubSeqProperties
<1> QED BY <1>2, <1>0

\* The first k pages of an order are evicted.
LEMMA FirstEvicted ==
  ASSUME NEW m, Fields(m), Tabled(m), m.pending \subseteq DOMAIN m.pages,
         NEW order \in Seq(Nat), IsInjective(order), DOMAIN m.pages \subseteq ToSet(order),
         NEW k \in 0 .. Len(order), NEW t, t = EvictFirst(m, order, k)
  PROVE  /\ Cached(t) /\ Shrinks(m, t)
         /\ Len(t.lru) = Len(order) - k
         /\ DOMAIN t.pages = DOMAIN m.pages \ {order[i] : i \in 1 .. k}
<1> DEFINE S == {order[i] : i \in 1 .. k}
           part == SubSeq(order, k + 1, Len(order))
           P == Without(m.pages, S)
           R == m.pending \ S
<1>1. t = [total |-> m.total, pages |-> P, lru |-> part, pending |-> R,
           deferred |-> m.deferred, timer |-> m.timer, sent |-> m.sent]
  <2>1. t = [EvictAll(m, S) EXCEPT !.lru = part]
    BY DEF EvictFirst
  <2>2. EvictAll(m, S) = [total |-> m.total, pages |-> P, lru |-> m.lru,
                          pending |-> R, deferred |-> m.deferred,
                          timer |-> m.timer, sent |-> m.sent]
    BY EvictedAre
  <2> HIDE DEF part, P, R, S
  <2> QED BY <2>1, <2>2
<1>2. /\ DOMAIN P = DOMAIN m.pages \ S
      /\ \A x \in DOMAIN m.pages \ S : P[x] = m.pages[x]
      /\ P \in [DOMAIN m.pages \ S -> PageRecords]
  BY WithoutIs
<1>3. /\ part \in Seq(Nat) /\ Len(part) = Len(order) - k
      /\ \A j \in 1 .. Len(order) - k : part[j] = order[k + j]
  BY PartOf
<1>4. Len(order) \in Nat /\ DOMAIN order = 1 .. Len(order) /\ ToSet(order) = {order[i] : i \in 1 .. Len(order)}
  BY ElementsOf
<1>5. DOMAIN part = 1 .. Len(order) - k /\ ToSet(part) = {part[i] : i \in 1 .. Len(order) - k}
  <2> HIDE DEF part
  <2>1. DOMAIN part = 1 .. Len(part) /\ ToSet(part) = {part[i] : i \in 1 .. Len(part)}
    BY <1>3, ElementsOf
  <2> QED BY <2>1, <1>3
<1>6. ToSet(order) \ S \subseteq ToSet(part)
  <2> HIDE DEF part
  <2> SUFFICES ASSUME NEW i \in 1 .. Len(order), i \notin 1 .. k
               PROVE  \E j \in 1 .. Len(order) - k : part[j] = order[i]
    BY <1>4, <1>5
  <2>1. i - k \in 1 .. Len(order) - k /\ k + (i - k) = i
    BY <1>4
  <2> QED BY <2>1, <1>3
<1>7. IsInjective(part)
  <2> HIDE DEF part
  <2> SUFFICES ASSUME NEW i \in 1 .. Len(order) - k, NEW j \in 1 .. Len(order) - k, part[i] = part[j]
               PROVE  i = j
    BY <1>5 DEF IsInjective
  <2>1. k + i \in 1 .. Len(order) /\ k + j \in 1 .. Len(order)
    BY <1>4
  <2>2. order[k + i] = order[k + j]
    BY <1>3
  <2>3. k + i = k + j
    BY <2>1, <2>2, <1>4 DEF IsInjective
  <2> QED BY <2>3
<1> HIDE DEF part, P, R
<1>8. Fields(t)
  BY <1>1, <1>3 DEF Fields, R
<1>9. Tabled(t)
  BY <1>1, <1>2 DEF Tabled
<1>10. DOMAIN t.pages \subseteq ToSet(t.lru) /\ t.pending \subseteq DOMAIN t.pages
  BY <1>1, <1>2, <1>6 DEF R
<1>11. Shrinks(m, t)
  BY <1>1, <1>2 DEF Shrinks, Alike, R
<1> QED BY <1>1, <1>2, <1>3, <1>7, <1>8, <1>9, <1>10, <1>11 DEF Cached

\* touch_page: the limits hold again, and an empty page is not evicted for itself.
LEMMA PageTouched ==
  ASSUME NEW m, NEW p \in Nat, Nearly(m, p), NEW t, t = Touch(m, p)
  PROVE  /\ Cached(t) /\ WithinLimits(t) /\ Shrinks(m, t)
         /\ p \in DOMAIN m.pages /\ m.pages[p].payload = 0 => p \in DOMAIN t.pages
<1> DEFINE order == MovedToEnd(m.lru, p)
           T(k) == EvictFirst(m, order, k)
           K == {k \in 0 .. Len(order) : WithinLimits(T(k)) \/ k = Len(order)}
           n == Len(order)
<1>1. m.lru \in Seq(Nat) /\ IsInjective(m.lru) /\ m.pending \subseteq DOMAIN m.pages
  BY DEF Nearly, Fields
<1>2. /\ order \in Seq(Nat) /\ n \in Nat \ {0} /\ order[n] = p
      /\ IsInjective(order) /\ ToSet(order) = ToSet(m.lru) \cup {p}
  BY <1>1, MovedIs
<1>3. t = T(Min(K))
  BY DEF Touch
<1> HIDE DEF order
<1>4. DOMAIN m.pages \subseteq ToSet(order) /\ Fields(m) /\ Tabled(m)
  BY <1>2 DEF Nearly
<1>5. \A k \in 0 .. n :
        /\ Cached(T(k)) /\ Shrinks(m, T(k))
        /\ Len(T(k).lru) = n - k
        /\ DOMAIN T(k).pages = DOMAIN m.pages \ {order[i] : i \in 1 .. k}
  BY <1>1, <1>2, <1>4, FirstEvicted
<1>6. DOMAIN order = 1 .. n /\ ToSet(order) = {order[i] : i \in 1 .. n}
  BY <1>2, ElementsOf
<1>7. n \in K /\ K \in SUBSET Nat
  BY <1>2
<1>8. Min(K) \in K /\ \A k \in K : Min(K) <= k
  <2> HIDE DEF K
  <2> QED BY <1>7, MinLeast
<1>9. PICK k \in 0 .. n : k = Min(K) /\ (WithinLimits(T(k)) \/ k = n)
  BY <1>8
<1> HIDE DEF T
<1>10. WithinLimits(T(n))
  <2>1. Len(T(n).lru) = 0 /\ DOMAIN T(n).pages = {}
    <3>1. n \in 0 .. n /\ n - n = 0
      BY <1>2
    <3>2. Len(T(n).lru) = 0 /\ DOMAIN T(n).pages = DOMAIN m.pages \ {order[i] : i \in 1 .. n}
      BY <3>1, <1>5
    <3> QED BY <3>2, <1>6, <1>4
  <2>2. CachedPayload(T(n).pages) <= MaxCachedPayload
    BY <2>1, NoPayload
  <2> QED BY <2>1, <2>2, LimitsAre DEF WithinLimits
<1>11. WithinLimits(t)
  BY <1>3, <1>9, <1>10
<1>12. ASSUME p \in DOMAIN m.pages, m.pages[p].payload = 0
       PROVE  p \in DOMAIN t.pages
  <2>0. n - 1 \in 0 .. n /\ n - (n - 1) = 1
    BY <1>2
  <2>1. Len(T(n - 1).lru) = 1 /\ DOMAIN T(n - 1).pages = DOMAIN m.pages \ {order[i] : i \in 1 .. n - 1}
    BY <2>0, <1>5
  <2>2. DOMAIN T(n - 1).pages \subseteq {p}
    <3> SUFFICES ASSUME NEW x \in DOMAIN T(n - 1).pages PROVE x = p
      OBVIOUS
    <3>1. PICK i \in 1 .. n : x = order[i]
      BY <2>1, <1>4, <1>6
    <3>2. i \notin 1 .. n - 1
      BY <2>1, <3>1
    <3> QED BY <3>1, <3>2, <1>2
  <2>3. p \in DOMAIN T(n - 1).pages => T(n - 1).pages[p].payload = 0
    BY <1>12, <2>0, <1>5 DEF Shrinks
  <2>4. CachedPayload(T(n - 1).pages) <= MaxCachedPayload
    BY <2>2, <2>3, NoPayload
  <2>5. WithinLimits(T(n - 1))
    <3>1. 1 <= MaxCachedPages
      BY LimitsAre
    <3>2. Len(T(n - 1).lru) <= MaxCachedPages
      BY <2>1, <3>1, Zenon
    <3> QED BY <3>2, <2>4 DEF WithinLimits
  <2>6. k <= n - 1
    BY <2>0, <2>5, <1>8, <1>9
  <2>7. p \notin {order[i] : i \in 1 .. k}
    BY <2>6, <1>2, <1>6 DEF IsInjective
  <2> QED BY <2>7, <1>12, <1>3, <1>9, <1>5
<1> QED BY <1>3, <1>5, <1>9, <1>11, <1>12

\* All pages but p are as Shows has them.
ShowsBut(m, q, idle, p) ==
  \A x \in DOMAIN m.pages \ {p} :
    /\ m.pages[x].state = "rows" => m.pages[x].query = q
    /\ m.pages[x].state = "loading" => x \in m.pending \/ idle

\* A list is the record of its fields.
LEMMA RecordOf ==
  ASSUME NEW m, Fields(m)
  PROVE  m = [total |-> m.total, pages |-> m.pages, lru |-> m.lru, pending |-> m.pending,
              deferred |-> m.deferred, timer |-> m.timer, sent |-> m.sent]
  BY DEF Fields

\* A page is put into the cache, and used.
LEMMA PutIs ==
  ASSUME NEW m, NEW U, NEW idle, NEW p \in Nat, NEW r \in PageRecords,
         Cached(m), Covered(m, U), ShowsBut(m, shownQuery, idle, p),
         NEW t, t = Touch([m EXCEPT !.pages = With(m.pages, p, r)], p)
  PROVE  /\ Cached(t) /\ WithinLimits(t) /\ Alike(m, t) /\ t.sent = m.sent
         /\ Covered(t, U) /\ ShowsBut(t, shownQuery, idle, p)
         /\ p \in DOMAIN t.pages => t.pages[p] = r /\ (p \in m.pending => p \in t.pending)
         /\ r.payload = 0 => p \in DOMAIN t.pages
         /\ t.pending \subseteq m.pending
<1> DEFINE P == With(m.pages, p, r)
           k == [m EXCEPT !.pages = P]
<1>1. /\ DOMAIN P = DOMAIN m.pages \cup {p} /\ P[p] = r
      /\ \A x \in DOMAIN m.pages \ {p} : P[x] = m.pages[x]
      /\ P \in [DOMAIN m.pages \cup {p} -> PageRecords]
  BY DEF With, Cached, Tabled
<1> HIDE DEF P
<1>2. /\ k.total = m.total /\ k.pages = P /\ k.lru = m.lru /\ k.pending = m.pending
      /\ k.deferred = m.deferred /\ k.timer = m.timer /\ k.sent = m.sent /\ Fields(k)
  BY DEF Cached, Fields
<1>3. t = Touch(k, p)
  BY DEF P
<1> HIDE DEF k
<1>4. Nearly(k, p)
  BY <1>1, <1>2 DEF Nearly, Cached, Tabled
<1>5. /\ Cached(t) /\ WithinLimits(t) /\ Shrinks(k, t)
      /\ p \in DOMAIN k.pages /\ k.pages[p].payload = 0 => p \in DOMAIN t.pages
  BY <1>3, <1>4, PageTouched
<1>6. Alike(m, t) /\ t.sent = m.sent /\ t.pending \subseteq m.pending
  BY <1>2, <1>5 DEF Shrinks, Alike
<1>7. Covered(t, U)
  BY <1>6 DEF Covered
<1>8. ShowsBut(t, shownQuery, idle, p)
  BY <1>1, <1>2, <1>5 DEF ShowsBut, Shrinks
<1>9. /\ p \in DOMAIN t.pages => t.pages[p] = r /\ (p \in m.pending => p \in t.pending)
      /\ r.payload = 0 => p \in DOMAIN t.pages
  BY <1>1, <1>2, <1>5 DEF Shrinks
<1> QED BY <1>5, <1>6, <1>7, <1>8, <1>9

\* All pages of a set but p.
AllBut(U, p) == U \ {p}
Unasked(m, p) == [m EXCEPT !.pending = m.pending \ {p}]
\* A page that is no longer asked for.
LEMMA UnaskedIs ==
  ASSUME NEW m, NEW U, NEW idle, NEW p \in Nat, Good(m, U, idle),
         NEW k, k = Unasked(m, p)
  PROVE  /\ Cached(k) /\ WithinLimits(k) /\ Alike(m, k) /\ k.sent = m.sent
         /\ k.pages = m.pages
         /\ Covered(k, AllBut(U, p)) /\ ShowsBut(k, shownQuery, idle, p)
         /\ p \notin DOMAIN m.pages => Good(k, AllBut(U, p), idle)
<1>1. /\ k.total = m.total /\ k.pages = m.pages /\ k.lru = m.lru /\ k.pending = m.pending \ {p}
      /\ k.deferred = m.deferred /\ k.timer = m.timer /\ k.sent = m.sent /\ Fields(k)
  BY DEF Good, Cached, Fields, Unasked
<1>2. Alike(m, k) /\ WithinLimits(k)
  BY <1>1 DEF Good, Alike, WithinLimits
<1>3. CASE p \in DOMAIN m.pages
  <2>1. Cached(k)
    BY <1>1 DEF Good, Cached, Tabled
  <2>2. Covered(k, AllBut(U, p)) /\ ShowsBut(k, shownQuery, idle, p)
    BY <1>1 DEF Good, Covered, Shows, ShowsBut, AllBut
  <2> QED BY <1>1, <1>2, <1>3, <2>1, <2>2
<1>4. CASE p \notin DOMAIN m.pages
  <2>1. Cached(k)
    BY <1>1 DEF Good, Cached, Tabled
  <2>2. Covered(k, AllBut(U, p)) /\ ShowsBut(k, shownQuery, idle, p)
    BY <1>1 DEF Good, Covered, Shows, ShowsBut, AllBut
  <2>3. Shows(k, shownQuery, idle)
    BY <1>1, <1>4, <2>2 DEF Shows, ShowsBut
  <2> QED BY <1>1, <1>2, <2>1, <2>2, <2>3 DEF Good
<1> QED BY <1>3, <1>4

\* evict_page of one page: its request is not waited for any more.
LEMMA EvictIs ==
  ASSUME NEW m, NEW U, NEW idle, NEW p \in Nat, Good(m, U, idle), NEW k, k = Evict(m, p)
  PROVE  Good(k, AllBut(U, p), idle) /\ Alike(m, k) /\ k.sent = m.sent /\ p \notin DOMAIN k.pages
<1>0. Fields(m) /\ Tabled(m)
  BY DEF Good, Cached
<1>1. /\ k.total = m.total /\ k.pages = Without(m.pages, {p}) /\ k.lru = m.lru /\ k.pending = m.pending \ {p}
      /\ k.deferred = m.deferred /\ k.timer = m.timer /\ k.sent = m.sent /\ Fields(k)
  BY <1>0, EvictedAre DEF Evict
<1>2. /\ DOMAIN k.pages = DOMAIN m.pages \ {p}
      /\ \A x \in DOMAIN m.pages \ {p} : k.pages[x] = m.pages[x]
      /\ k.pages \in [DOMAIN m.pages \ {p} -> PageRecords]
  BY <1>0, <1>1, WithoutIs
<1>3. Cached(k)
  BY <1>1, <1>2 DEF Good, Cached, Tabled
<1>4. IsFiniteSet(DOMAIN m.pages)
  <2>1. m.lru \in Seq(Nat) /\ DOMAIN m.pages \subseteq ToSet(m.lru)
    BY DEF Good, Cached, Fields
  <2> QED BY <2>1, CachedIsFinite, FS_Subset
<1>5. CachedPayload(k.pages) <= MaxCachedPayload
  BY <1>0, <1>2, <1>4, PayloadShrinks DEF Good, WithinLimits
<1>6. WithinLimits(k)
  BY <1>1, <1>5 DEF Good, WithinLimits
<1>7. Covered(k, AllBut(U, p))
  BY <1>1 DEF Good, Covered, AllBut
<1>8. Shows(k, shownQuery, idle)
  BY <1>1, <1>2 DEF Good, Shows
<1> QED BY <1>1, <1>2, <1>3, <1>6, <1>7, <1>8 DEF Good, Alike

\* The rows of a page.
LEMMA RowsAre ==
  ASSUME NEW total \in Nat, NEW p \in Nat
  PROVE  RowsOf(total, p) \in Nat /\ (total = 0 => RowsOf(total, p) = 0)
<1>1. p * PageSize \in Nat
  BY LimitsAre
<1> DEFINE first == p * PageSize
<1>2. RowsOf(total, p) = IF total > first THEN IF total - first > PageSize THEN PageSize ELSE total - first ELSE 0
  BY DEF RowsOf, Capped
<1> HIDE DEF first
<1> QED BY <1>1, <1>2, LimitsAre DEF first

\* A number of rows cut at a limit.
LEMMA CappedIs == ASSUME NEW n \in Nat, NEW limit \in Nat PROVE Capped(n, limit) \in Nat
  BY DEF Capped

\* Records of pages.
LEMMA RecordsAre ==
  ASSUME NEW len \in Nat
  PROVE  /\ Placeholders(len) \in PageRecords /\ Placeholders(len).payload = 0
         /\ Placeholders(len).state = "loading"
         /\ Refused(len) \in PageRecords /\ Refused(len).state = "failed"
  BY DEF Placeholders, Refused, PageRecords

\* A page of loaded rows.
LEMMA LoadedIs ==
  ASSUME NEW len \in Nat, NEW n \in Nat, NEW payload \in Nat, NEW q \in Nat,
         NEW r, r = Loaded(len, n, payload, q)
  PROVE  r \in PageRecords /\ r.state = "rows" /\ r.query = q
  BY DEF Loaded, PageRecords

\* A list whose cache is another's.
LEMMA SameCache ==
  ASSUME NEW m, NEW U, NEW idle, Good(m, U, idle), NEW k, Fields(k),
         k.pages = m.pages, k.lru = m.lru, k.pending = m.pending, k.sent = m.sent
  PROVE  Good(k, U, idle)
<1>1. Cached(k)
  BY DEF Good, Cached, Tabled
<1> QED BY <1>1 DEF Good, WithinLimits, Shows, Covered

\* defer_visible_page changes nothing but the pages that wait.
LEMMA DeferIs ==
  ASSUME NEW m, NEW U, NEW idle, NEW p \in Nat, Good(m, U, idle), NEW k, k = Defer(m, p)
  PROVE  /\ Good(k, U, idle) /\ k.total = m.total /\ k.timer = m.timer
         /\ k.pages = m.pages /\ k.pending = m.pending /\ k.sent = m.sent
<1> DEFINE w == MovedToEnd(m.deferred, p)
           d == IF Len(w) > MaxPendingLoads THEN Len(w) - MaxPendingLoads ELSE 0
           part == SubSeq(w, d + 1, Len(w))
<1>0. Fields(m) /\ m.deferred \in Seq(Nat)
  BY DEF Good, Cached, Fields
<1>1. w \in Seq(Nat) /\ Len(w) \in Nat
  BY <1>0, MovedIs
<1>2. d \in 0 .. Len(w)
  <2> HIDE DEF w
  <2> QED BY <1>1, LimitsAre
<1>3. part \in Seq(Nat)
  <2> HIDE DEF w, d
  <2> QED BY <1>1, <1>2, PartOf
<1>4. k = [m EXCEPT !.deferred = part]
  BY DEF Defer
<1> HIDE DEF part
<1>5. /\ k.total = m.total /\ k.pages = m.pages /\ k.lru = m.lru /\ k.pending = m.pending
      /\ k.timer = m.timer /\ k.sent = m.sent /\ Fields(k)
  BY <1>0, <1>3, <1>4 DEF Fields
<1> QED BY <1>5, SameCache

Scheduled(m, k) == k.total = m.total /\ k.deferred = m.deferred /\ k.timer = TRUE
\* schedule_deferred_pages starts the timer.
LEMMA ScheduleIs ==
  ASSUME NEW m, NEW U, NEW idle, Good(m, U, idle), NEW k, k = Schedule(m)
  PROVE  Good(k, U, idle) /\ Scheduled(m, k)
<1>1. /\ k.total = m.total /\ k.pages = m.pages /\ k.lru = m.lru /\ k.pending = m.pending
      /\ k.timer = TRUE /\ k.deferred = m.deferred /\ k.sent = m.sent /\ Fields(k)
  BY DEF Good, Cached, Fields, Schedule
<1>2. Scheduled(m, k)
  BY <1>1 DEF Scheduled
<1> QED BY <1>1, <1>2, SameCache

Fired(m) == [m EXCEPT !.timer = FALSE]
\* The timer is taken back before the pages have their turns.
LEMMA FiredIs ==
  ASSUME NEW m, NEW U, NEW idle, Good(m, U, idle), NEW k, k = Fired(m)
  PROVE  /\ Good(k, U, idle) /\ k.total = m.total /\ k.timer = FALSE /\ k.deferred = m.deferred
<1>1. /\ k.total = m.total /\ k.pages = m.pages /\ k.lru = m.lru /\ k.pending = m.pending
      /\ k.timer = FALSE /\ k.deferred = m.deferred /\ k.sent = m.sent /\ Fields(k)
  BY DEF Good, Cached, Fields, Fired
<1> QED BY <1>1, SameCache

\* Without room for another page, some page is under way.
LEMMA RoomIs == ASSUME NEW m, ~HasRoom(m) PROVE m.pending # {}
<1>1. Cardinality({}) = 0
  BY FS_EmptySet
<1> QED BY <1>1, LimitsAre DEF HasRoom

\* A page of placeholders is asked for as it is put into the cache.
LEMMA LoadPageIs ==
  ASSUME NEW m, NEW U, NEW idle, NEW p \in Nat, NEW priority \in {"visible", "prefetch"},
         Good(m, U, idle), p \notin DOMAIN m.pages, NEW k, k = LoadPage(m, p, priority)
  PROVE  Good(k, U, idle) /\ Alike(m, k) /\ p \in k.pending
<1> DEFINE r == Placeholders(RowsOf(m.total, p))
           t == Place(m, p)
           ask == Request("page", p, priority, shownQuery)
<1>0. /\ m.total \in Nat /\ Cached(m) /\ Covered(m, U) /\ ShowsBut(m, shownQuery, idle, p)
      /\ p \notin m.pending
  BY DEF Good, Cached, Fields, Shows, ShowsBut
<1>1. r \in PageRecords /\ r.payload = 0 /\ r.state = "loading"
  BY <1>0, RowsAre, RecordsAre
<1>2. t = Touch([m EXCEPT !.pages = With(m.pages, p, r)], p)
  BY DEF Place
<1> HIDE DEF r
<1>3. /\ Cached(t) /\ WithinLimits(t) /\ Alike(m, t) /\ t.sent = m.sent
      /\ Covered(t, U) /\ ShowsBut(t, shownQuery, idle, p)
      /\ p \in DOMAIN t.pages /\ t.pages[p] = r
  <2> HIDE DEF t
  <2> QED BY <1>0, <1>1, <1>2, PutIs
<1>4. k = [t EXCEPT !.pending = t.pending \cup {p}, !.sent = Append(t.sent, ask)]
  BY DEF LoadPage
<1>5. ask \in PageAsks(shownQuery) /\ ask.page = p
  BY DEF PageAsks, Request
<1> HIDE DEF t, ask
<1>6. /\ k.total = t.total /\ k.pages = t.pages /\ k.lru = t.lru /\ k.pending = t.pending \cup {p}
      /\ k.deferred = t.deferred /\ k.timer = t.timer /\ k.sent = Append(t.sent, ask) /\ Fields(k)
  <2> DEFINE R == t.pending \cup {p}
             q == Append(t.sent, ask)
  <2>1. t = [total |-> t.total, pages |-> t.pages, lru |-> t.lru, pending |-> t.pending,
             deferred |-> t.deferred, timer |-> t.timer, sent |-> t.sent]
    BY <1>3, RecordOf DEF Cached
  <2>2. k = [t EXCEPT !.pending = R, !.sent = q]
    BY <1>4
  <2>3. R \in SUBSET Nat
    BY <1>3 DEF Cached, Fields
  <2> HIDE DEF R, q
  <2>4. k = [total |-> t.total, pages |-> t.pages, lru |-> t.lru, pending |-> R,
             deferred |-> t.deferred, timer |-> t.timer, sent |-> q]
    BY <2>1, <2>2
  <2> QED BY <2>3, <2>4, <1>3 DEF R, q, Cached, Fields
<1>7. Cached(k)
  BY <1>3, <1>6 DEF Cached, Tabled
<1>8. WithinLimits(k)
  BY <1>3, <1>6 DEF WithinLimits
<1>9. Shows(k, shownQuery, idle)
  BY <1>1, <1>3, <1>6 DEF Shows, ShowsBut
<1>10. Covered(k, U)
  <2>1. t.sent \in Seq(PageAsks(shownQuery)) /\ \A x \in t.pending : x \in U \/ \E i \in DOMAIN t.sent : t.sent[i].page = x
    BY <1>3 DEF Covered
  <2>2. /\ k.sent \in Seq(PageAsks(shownQuery)) /\ Len(t.sent) \in Nat
        /\ DOMAIN t.sent = 1 .. Len(t.sent) /\ DOMAIN k.sent = 1 .. Len(t.sent) + 1
        /\ \A i \in 1 .. Len(t.sent) : k.sent[i] = t.sent[i]
        /\ k.sent[Len(t.sent) + 1] = ask
    BY <2>1, <1>5, <1>6, AppendProperties, LenProperties
  <2> QED BY <2>1, <2>2, <1>5, <1>6 DEF Covered
<1> QED BY <1>3, <1>6, <1>7, <1>8, <1>9, <1>10 DEF Good, Alike

\* ensure_page: a page has to wait only while another is under way.
LEMMA EnsureIs ==
  ASSUME NEW m, NEW U, NEW idle, NEW p \in Nat, NEW priority \in {"visible", "prefetch"},
         Good(m, U, idle), NEW k, k = Ensure(m, p, priority)
  PROVE  /\ Good(k, U, idle) /\ k.total = m.total /\ k.timer = m.timer
         /\ k.deferred = m.deferred \/ (priority = "visible" /\ ~HasRoom(m) /\ k.pending # {})
<1>1. CASE p \in DOMAIN m.pages
  <2>1. k = Touch(m, p) /\ Nearly(m, p)
    BY <1>1 DEF Ensure, Good, Cached, Nearly
  <2>2. Cached(k) /\ WithinLimits(k) /\ Shrinks(m, k)
    BY <2>1, PageTouched
  <2>3. Shows(k, shownQuery, idle) /\ Covered(k, U)
    BY <2>2, ShrinkKeeps DEF Good
  <2> QED BY <2>2, <2>3 DEF Good, Shrinks, Alike
<1>2. CASE p \notin DOMAIN m.pages /\ ~HasRoom(m)
  <2>1. CASE priority = "visible"
    <3>1. k = Defer(m, p)
      BY <1>2, <2>1 DEF Ensure
    <3> QED BY <3>1, <1>2, <2>1, DeferIs, RoomIs
  <2>2. CASE priority = "prefetch"
    BY <1>2, <2>2 DEF Ensure
  <2> QED BY <2>1, <2>2
<1>3. CASE p \notin DOMAIN m.pages /\ HasRoom(m)
  <2>1. CASE RowsOf(m.total, p) = 0
    BY <1>3, <2>1 DEF Ensure
  <2>2. CASE RowsOf(m.total, p) # 0
    <3>1. k = LoadPage(m, p, priority)
      BY <1>3, <2>2 DEF Ensure
    <3> QED BY <3>1, <1>3, LoadPageIs DEF Alike
  <2> QED BY <2>1, <2>2
<1> QED BY <1>1, <1>2, <1>3

\* prefetch_adjacent makes no page wait.
LEMMA PrefetchIs ==
  ASSUME NEW m, NEW U, NEW idle, NEW p \in Nat, Good(m, U, idle), NEW k, k = Prefetch(m, p)
  PROVE  Good(k, U, idle) /\ Alike(m, k)
<1> DEFINE after == IF p + 1 < PageCount(m.total) THEN Ensure(m, p + 1, "prefetch") ELSE m
<1>1. Good(after, U, idle) /\ Alike(m, after)
  <2>1. CASE p + 1 < PageCount(m.total)
    <3>1. after = Ensure(m, p + 1, "prefetch") /\ p + 1 \in Nat
      BY <2>1
    <3> HIDE DEF after
    <3> QED BY <3>1, EnsureIs DEF Alike
  <2>2. CASE ~(p + 1 < PageCount(m.total))
    BY <2>2 DEF Alike
  <2> QED BY <2>1, <2>2
<1>2. k = IF p > 0 THEN Ensure(after, p - 1, "prefetch") ELSE after
  BY DEF Prefetch
<1> HIDE DEF after
<1>3. CASE p > 0
  <2>1. k = Ensure(after, p - 1, "prefetch") /\ p - 1 \in Nat
    BY <1>2, <1>3
  <2>2. Good(k, U, idle) /\ Alike(after, k)
    BY <2>1, <1>1, EnsureIs DEF Alike
  <2> QED BY <2>2, <1>1 DEF Alike
<1>4. CASE ~(p > 0)
  BY <1>1, <1>2, <1>4
<1> QED BY <1>3, <1>4

\* A waiting page has its turn when there is room.
LEMMA TurnIs ==
  ASSUME NEW m, NEW U, NEW idle, Good(m, U, idle), NEW k, k = Turn(m)
  PROVE  /\ Good(k, U, idle) /\ k.total = m.total /\ k.timer = m.timer
         /\ HasRoom(m) /\ m.deferred # <<>> => Len(k.deferred) = Len(m.deferred) - 1
         /\ ~(HasRoom(m) /\ m.deferred # <<>>) => k = m
<1>1. CASE HasRoom(m) /\ m.deferred # <<>>
  <2> DEFINE rest == [m EXCEPT !.deferred = Tail(m.deferred)]
  <2>1. Fields(m) /\ m.deferred \in Seq(Nat)
    BY DEF Good, Cached, Fields
  <2>2. Head(m.deferred) \in Nat /\ Tail(m.deferred) \in Seq(Nat) /\ Len(Tail(m.deferred)) = Len(m.deferred) - 1
    BY <1>1, <2>1, HeadTailProperties
  <2>3. /\ rest.total = m.total /\ rest.pages = m.pages /\ rest.lru = m.lru /\ rest.pending = m.pending
        /\ rest.deferred = Tail(m.deferred) /\ rest.timer = m.timer /\ rest.sent = m.sent /\ Fields(rest)
    BY <2>1, <2>2 DEF Fields
  <2>4. k = Ensure(rest, Head(m.deferred), "visible")
    BY <1>1 DEF Turn
  <2> HIDE DEF rest
  <2>5. Good(rest, U, idle)
    BY <2>3, SameCache
  <2>6. /\ Good(k, U, idle) /\ k.total = m.total /\ k.timer = m.timer
        /\ k.deferred = Tail(m.deferred)
    <3>1. /\ Good(k, U, idle) /\ k.total = rest.total /\ k.timer = rest.timer
          /\ k.deferred = rest.deferred \/ ~HasRoom(rest)
      <4>1. PICK p \in Nat : k = Ensure(rest, p, "visible")
        BY <2>2, <2>4
      <4>2. "visible" \in {"visible", "prefetch"}
        OBVIOUS
      <4> QED BY <4>1, <4>2, <2>5, EnsureIs
    <3>2. HasRoom(rest)
      BY <2>3, <1>1 DEF HasRoom
    <3> QED BY <3>1, <3>2, <2>3
  <2> QED BY <2>2, <2>6, <1>1
<1>2. CASE ~(HasRoom(m) /\ m.deferred # <<>>)
  BY <1>2 DEF Turn
<1> QED BY <1>1, <1>2

\* What goes on from 0 to n.
LEMMA UpTo ==
  ASSUME NEW n \in Nat, NEW T, 0 \in T, \A i \in 1 .. n : i - 1 \in T => i \in T
  PROVE  \A i \in 0 .. n : i \in T
<1> SUFFICES ASSUME NEW b \in 0 .. n, b \notin T PROVE FALSE
  OBVIOUS
<1> DEFINE Bad == {i \in 0 .. n : i \notin T}
<1>1. Bad \in SUBSET Nat /\ Bad # {}
  OBVIOUS
<1>2. PICK a \in Bad : \A i \in Bad : a <= i
  <2> HIDE DEF Bad
  <2> QED BY <1>1, LeastExists
<1>3. a \in 1 .. n /\ a - 1 \in 0 .. n /\ ~(a <= a - 1)
  BY <1>2
<1> QED BY <1>2, <1>3

Recurs(f, x, n, step) == f = [i \in 0 .. n |-> IF i = 0 THEN x ELSE step[i][f[i - 1]]]
\* A function defined step by step along 0 .. n has its values in S.
LEMMA RecursionIs ==
  ASSUME NEW S, NEW x \in S, NEW n \in Nat, NEW step \in [1 .. n -> [S -> S]]
  PROVE  \E f \in [0 .. n -> S] : Recurs(f, x, n, step)
<1> DEFINE T == {a \in 0 .. n : \E f \in [0 .. a -> S] : f = [i \in 0 .. a |-> IF i = 0 THEN x ELSE step[i][f[i - 1]]]}
<1>1. 0 \in T
  <2>1. [i \in 0 .. 0 |-> x] \in [0 .. 0 -> S]
    OBVIOUS
  <2>2. [i \in 0 .. 0 |-> x] = [i \in 0 .. 0 |-> IF i = 0 THEN x ELSE step[i][[j \in 0 .. 0 |-> x][i - 1]]]
    OBVIOUS
  <2>3. \E f \in [0 .. 0 -> S] : f = [i \in 0 .. 0 |-> IF i = 0 THEN x ELSE step[i][f[i - 1]]]
    BY <2>1, <2>2, Zenon
  <2>4. 0 \in 0 .. n
    OBVIOUS
  <2> QED BY <2>3, <2>4, Zenon
<1>2. ASSUME NEW a \in 1 .. n, a - 1 \in T PROVE a \in T
  <2>1. PICK f \in [0 .. a - 1 -> S] : f = [i \in 0 .. a - 1 |-> IF i = 0 THEN x ELSE step[i][f[i - 1]]]
    BY <1>2
  <2> DEFINE g == [i \in 0 .. a |-> IF i = a THEN step[a][f[a - 1]] ELSE f[i]]
  <2>2. a - 1 \in 0 .. a - 1 /\ f[a - 1] \in S /\ step[a][f[a - 1]] \in S
    OBVIOUS
  <2>3. g \in [0 .. a -> S]
    BY <2>2
  <2>4. ASSUME NEW i \in 0 .. a PROVE g[i] = IF i = 0 THEN x ELSE step[i][g[i - 1]]
    <3>1. CASE i = a
      <4>1. g[i] = step[a][f[a - 1]] /\ g[a - 1] = f[a - 1] /\ i # 0
        BY <3>1
      <4> QED BY <4>1, <3>1
    <3>2. CASE i # a
      <4>1. i \in 0 .. a - 1
        BY <3>2
      <4>2. g[i] = f[i] /\ f[i] = IF i = 0 THEN x ELSE step[i][f[i - 1]]
        BY <4>1, <3>2, <2>1
      <4>3. CASE i = 0
        BY <4>2, <4>3
      <4>4. CASE i # 0
        <5>1. i - 1 \in 0 .. a /\ i - 1 # a
          BY <4>1, <4>4
        <5>2. g[i - 1] = f[i - 1]
          BY <5>1
        <5> HIDE DEF g
        <5> QED BY <4>2, <4>4, <5>2
      <4> QED BY <4>3, <4>4
    <3> QED BY <3>1, <3>2
  <2>5. g = [i \in 0 .. a |-> IF i = 0 THEN x ELSE step[i][g[i - 1]]]
    <3>1. g = [i \in 0 .. a |-> g[i]]
      OBVIOUS
    <3> HIDE DEF g
    <3> QED BY <3>1, <2>4, Zenon
  <2> HIDE DEF g
  <2>6. \E f2 \in [0 .. a -> S] : f2 = [i \in 0 .. a |-> IF i = 0 THEN x ELSE step[i][f2[i - 1]]]
    BY <2>3, <2>5, Zenon
  <2>7. a \in 0 .. n
    OBVIOUS
  <2> QED BY <2>6, <2>7, Zenon
<1>3. n \in T
  <2> HIDE DEF T
  <2>1. \A i \in 1 .. n : i - 1 \in T => i \in T
    BY <1>2
  <2>2. \A i \in 0 .. n : i \in T
    BY <1>1, <2>1, UpTo
  <2> QED BY <2>2
<1>4. \E f \in [0 .. n -> S] : f = [i \in 0 .. n |-> IF i = 0 THEN x ELSE step[i][f[i - 1]]]
  BY <1>3, Zenon
<1> QED BY <1>4, Zenon DEF Recurs

\* The lists there may be.
ListsOf ==
  [total : Nat, pages : UNION {[D -> PageRecords] : D \in SUBSET Nat}, lru : Seq(Nat), pending : SUBSET Nat,
   deferred : Seq(Nat), timer : BOOLEAN, sent : Seq(PageAsks(shownQuery))]

\* A list with a sound cache is one of those the turns go through.
LEMMA GoodIsList == ASSUME NEW m, NEW U, NEW idle, Good(m, U, idle) PROVE m \in ListsOf
<1>1. m.pages \in UNION {[D -> PageRecords] : D \in SUBSET Nat}
  BY DEF Good, Cached, Tabled
<1>2. /\ m.total \in Nat /\ m.lru \in Seq(Nat) /\ m.pending \in SUBSET Nat /\ m.deferred \in Seq(Nat)
      /\ m.timer \in BOOLEAN /\ m.sent \in Seq(PageAsks(shownQuery))
  BY DEF Good, Cached, Fields, Covered
<1>3. m = [total |-> m.total, pages |-> m.pages, lru |-> m.lru, pending |-> m.pending,
           deferred |-> m.deferred, timer |-> m.timer, sent |-> m.sent]
  BY RecordOf DEF Good, Cached
<1> QED BY <1>1, <1>2, <1>3 DEF ListsOf

\* drain_deferred_pages: what still waits then waits for a page under way.
LEMMA DrainIs ==
  ASSUME NEW m, NEW U, NEW idle, Good(m, U, idle), NEW k, k = Drain(m)
  PROVE  /\ Good(k, U, idle) /\ k.total = m.total /\ k.timer = m.timer
         /\ m.timer \/ k.deferred = <<>> \/ k.pending # {}
<1> DEFINE n == Len(m.deferred)
           S == {y \in ListsOf : Good(y, U, idle) /\ y.total = m.total /\ y.timer = m.timer}
           step == [i \in 1 .. n |-> [y \in S |-> Turn(y)]]
           turns == CHOOSE g : g = [i \in 0 .. n |-> IF i = 0 THEN m ELSE Turn(g[i - 1])]
<1>0. m.deferred \in Seq(Nat) /\ n \in Nat
  BY LenProperties DEF Good, Cached, Fields
<1>1. m \in S
  BY GoodIsList
<1>2. \A y \in S : Turn(y) \in S
  <2> SUFFICES ASSUME NEW y \in S PROVE Turn(y) \in S
    OBVIOUS
  <2>1. Good(Turn(y), U, idle) /\ Turn(y).total = y.total /\ Turn(y).timer = y.timer
    BY TurnIs
  <2> QED BY <2>1, GoodIsList
<1>3. k = IF m.timer THEN m ELSE turns[n]
  BY DEF Drain
<1>4. turns = [i \in 0 .. n |-> IF i = 0 THEN m ELSE Turn(turns[i - 1])]
  <2> HIDE DEF S, n
  <2>1. step \in [1 .. n -> [S -> S]]
    BY <1>2
  <2>2. PICK f \in [0 .. n -> S] : f = [i \in 0 .. n |-> IF i = 0 THEN m ELSE step[i][f[i - 1]]]
    <3> HIDE DEF step
    <3>1. \E f \in [0 .. n -> S] : Recurs(f, m, n, step)
      BY <2>1, <1>0, <1>1, RecursionIs
    <3> QED BY <3>1, Zenon DEF Recurs
  <2>3. \A i \in 0 .. n : f[i] = IF i = 0 THEN m ELSE Turn(f[i - 1])
    <3> SUFFICES ASSUME NEW i \in 0 .. n PROVE f[i] = IF i = 0 THEN m ELSE Turn(f[i - 1])
      OBVIOUS
    <3>1. f[i] = IF i = 0 THEN m ELSE step[i][f[i - 1]]
      BY <2>2
    <3>2. CASE i # 0
      <4>1. i \in 1 .. n /\ i - 1 \in 0 .. n
        BY <3>2, <1>0
      <4>2. step[i][f[i - 1]] = Turn(f[i - 1])
        BY <4>1
      <4> QED BY <3>1, <3>2, <4>2, Zenon
    <3> QED BY <3>1, <3>2
  <2>4. f = [i \in 0 .. n |-> IF i = 0 THEN m ELSE Turn(f[i - 1])]
    <3>1. f = [i \in 0 .. n |-> f[i]]
      BY <2>2
    <3> QED BY <3>1, <2>3, Zenon
  <2> QED BY <2>4, Zenon
<1> HIDE DEF turns
<1>5. turns[0] = m /\ \A i \in 1 .. n : turns[i] = Turn(turns[i - 1])
  <2>1. 0 \in 0 .. n /\ \A i \in 1 .. n : i \in 0 .. n /\ i # 0
    BY <1>0
  <2> HIDE DEF n
  <2> QED BY <2>1, <1>4
<1> DEFINE Over(y, i) == y.deferred = <<>> \/ ~HasRoom(y) \/ Len(y.deferred) <= n - i
           T == {i \in 0 .. n : turns[i] \in S /\ Over(turns[i], i)}
<1>6. 0 \in T
  BY <1>0, <1>1, <1>5
<1>7. ASSUME NEW i \in 1 .. n, i - 1 \in T PROVE i \in T
  <2>1. turns[i - 1] \in S /\ Over(turns[i - 1], i - 1)
    BY <1>7
  <2>2. turns[i] = Turn(turns[i - 1])
    BY <1>5
  <2>3. PICK y : y = turns[i - 1]
    OBVIOUS
  <2>4. /\ HasRoom(y) /\ y.deferred # <<>> => Len(Turn(y).deferred) = Len(y.deferred) - 1
        /\ ~(HasRoom(y) /\ y.deferred # <<>>) => Turn(y) = y
    <3>1. Good(y, U, idle)
      BY <2>1, <2>3
    <3> QED BY <3>1, TurnIs
  <2>5. Len(y.deferred) \in Nat
    <3>1. y.deferred \in Seq(Nat)
      BY <2>1, <2>3 DEF ListsOf
    <3> QED BY <3>1, LenProperties
  <2>6. Over(Turn(y), i)
    <3>1. CASE HasRoom(y) /\ y.deferred # <<>>
      <4>1. Len(y.deferred) <= n - (i - 1)
        BY <2>1, <2>3, <3>1
      <4>2. Len(Turn(y).deferred) <= n - i
        BY <4>1, <2>4, <3>1, <2>5, <1>0
      <4> QED BY <4>2
    <3>2. CASE ~(HasRoom(y) /\ y.deferred # <<>>)
      BY <3>2, <2>4
    <3> QED BY <3>1, <3>2
  <2>7. Turn(y) \in S
    BY <2>1, <2>3, <1>2
  <2>8. i \in 0 .. n
    BY <1>0
  <2> HIDE DEF S, Over
  <2> QED BY <2>2, <2>3, <2>6, <2>7, <2>8
<1>8. turns[n] \in S /\ Over(turns[n], n)
  <2> HIDE DEF Over, S
  <2>1. \A i \in 1 .. n : i - 1 \in T => i \in T
    BY <1>7
  <2>2. n \in 0 .. n
    BY <1>0
  <2> HIDE DEF T, n
  <2>3. n \in T
    BY <1>0, <1>6, <2>1, <2>2, UpTo
  <2> QED BY <2>3 DEF T
<1>9. CASE m.timer
  BY <1>3, <1>9
<1>10. CASE ~m.timer
  <2>1. k = turns[n]
    BY <1>3, <1>10
  <2>2. Good(k, U, idle) /\ k.total = m.total /\ k.timer = m.timer /\ k.deferred \in Seq(Nat)
    BY <2>1, <1>8 DEF ListsOf
  <2>3. Len(k.deferred) <= n - n => k.deferred = <<>>
    BY <2>2, <1>0, EmptySeq
  <2>4. ~HasRoom(k) => k.pending # {}
    BY RoomIs
  <2> QED BY <2>1, <2>2, <2>3, <2>4, <1>8
<1> QED BY <1>9, <1>10

\* A page that is put into the cache and is not a placeholder.
LEMMA FilledIs ==
  ASSUME NEW m, NEW U, NEW idle, NEW p \in Nat, NEW r \in PageRecords,
         Cached(m), Covered(m, U), ShowsBut(m, shownQuery, idle, p),
         r.state # "loading", r.state = "rows" => r.query = shownQuery,
         NEW t, t = Touch([m EXCEPT !.pages = With(m.pages, p, r)], p)
  PROVE  Good(t, U, idle) /\ Alike(m, t)
<1>1. /\ Cached(t) /\ WithinLimits(t) /\ Alike(m, t)
      /\ Covered(t, U) /\ ShowsBut(t, shownQuery, idle, p)
      /\ p \in DOMAIN t.pages => t.pages[p] = r
  BY PutIs
<1>2. Shows(t, shownQuery, idle)
  BY <1>1 DEF Shows, ShowsBut
<1> QED BY <1>1, <1>2 DEF Good

\* What a cached page is.
LEMMA LenIs ==
  ASSUME NEW m, NEW U, NEW idle, Good(m, U, idle), NEW p \in DOMAIN m.pages
  PROVE  m.pages[p] \in PageRecords /\ m.pages[p].len \in Nat /\ p \in Nat
<1>1. m.pages[p] \in PageRecords /\ p \in Nat
  BY DEF Good, Cached, Tabled
<1> QED BY <1>1 DEF PageRecords

\* The page p, which is asked for no more, becomes r if it is still there.
PageSettled(m, p, r) ==
  IF p \notin DOMAIN m.pages THEN Unasked(m, p)
  ELSE Touch([Unasked(m, p) EXCEPT !.pages = With(m.pages, p, r)], p)

\* A page whose answer came is asked for no more, and shows it.
LEMMA SettledIs ==
  ASSUME NEW m, NEW U, NEW idle, NEW p \in Nat, Good(m, U, idle), NEW r,
         p \in DOMAIN m.pages =>
           r \in PageRecords /\ r.state # "loading" /\ (r.state = "rows" => r.query = shownQuery)
  PROVE  Good(PageSettled(m, p, r), AllBut(U, p), idle) /\ Alike(m, PageSettled(m, p, r))
<1> DEFINE known == Unasked(m, p)
           k == PageSettled(m, p, r)
<1>1. /\ Cached(known) /\ Alike(m, known) /\ known.pages = m.pages
      /\ Covered(known, AllBut(U, p)) /\ ShowsBut(known, shownQuery, idle, p)
      /\ p \notin DOMAIN m.pages => Good(known, AllBut(U, p), idle)
  BY UnaskedIs
<1>2. k = IF p \notin DOMAIN m.pages THEN known
          ELSE Touch([known EXCEPT !.pages = With(m.pages, p, r)], p)
  BY DEF PageSettled
<1> HIDE DEF known, k
<1>3. CASE p \in DOMAIN m.pages
  <2>2. k = Touch([known EXCEPT !.pages = With(known.pages, p, r)], p)
    BY <1>1, <1>2, <1>3
  <2>4. Good(k, AllBut(U, p), idle) /\ Alike(known, k)
    BY <1>1, <1>3, <2>2, FilledIs
  <2>5. Good(k, AllBut(U, p), idle) /\ Alike(m, k)
    BY <1>1, <2>4 DEF Alike
  <2> QED BY <2>5 DEF k
<1>4. CASE p \notin DOMAIN m.pages
  <2>1. Good(k, AllBut(U, p), idle) /\ Alike(m, k)
    BY <1>1, <1>2, <1>4
  <2> QED BY <2>1 DEF k
<1> QED BY <1>3, <1>4

\* install_page.
LEMMA InstallIs ==
  ASSUME NEW m, NEW U, NEW idle, NEW p \in Nat, NEW n \in Nat, NEW payload \in Nat, shownQuery \in Nat,
         Good(m, U, idle)
  PROVE  LET k == Install(m, p, n, payload, shownQuery) IN Good(k, AllBut(U, p), idle) /\ Alike(m, k)
<1> DEFINE r == Loaded(m.pages[p].len, Capped(n, m.pages[p].len), payload, shownQuery)
<1>1. Install(m, p, n, payload, shownQuery) = PageSettled(m, p, r)
  BY DEF Install, PageSettled, Unasked
<1>2. ASSUME p \in DOMAIN m.pages
      PROVE  r \in PageRecords /\ r.state # "loading" /\ (r.state = "rows" => r.query = shownQuery)
  <2>1. PICK len \in Nat : len = m.pages[p].len
    BY <1>2, LenIs
  <2>2. PICK loaded \in Nat : loaded = Capped(n, len)
    BY CappedIs
  <2>3. r = Loaded(len, loaded, payload, shownQuery)
    BY <2>1, <2>2, Zenon
  <2> HIDE DEF r
  <2>4. r \in PageRecords /\ r.state = "rows" /\ r.query = shownQuery
    BY <2>3, LoadedIs
  <2> QED BY <2>4
<1> HIDE DEF r
<1>3. Good(PageSettled(m, p, r), AllBut(U, p), idle) /\ Alike(m, PageSettled(m, p, r))
  BY <1>2, SettledIs
<1> QED BY <1>1, <1>3, Zenon

\* fail_page.
LEMMA FailIs ==
  ASSUME NEW m, NEW U, NEW idle, NEW p \in Nat, Good(m, U, idle), NEW k, k = Fail(m, p)
  PROVE  Good(k, AllBut(U, p), idle) /\ Alike(m, k)
<1> DEFINE r == Refused(m.pages[p].len)
<1>1. k = PageSettled(m, p, r)
  BY DEF Fail, PageSettled, Unasked
<1>2. ASSUME p \in DOMAIN m.pages
      PROVE  r \in PageRecords /\ r.state # "loading" /\ (r.state = "rows" => r.query = shownQuery)
  BY <1>2, LenIs, RecordsAre
<1> HIDE DEF r
<1>3. Good(PageSettled(m, p, r), AllBut(U, p), idle) /\ Alike(m, PageSettled(m, p, r))
  BY <1>2, SettledIs
<1> QED BY <1>1, <1>3, Zenon

\* handle_page_failure: then no page waits, or another is under way.
LEMMA FailedIs ==
  ASSUME NEW m, NEW U, NEW idle, NEW p \in Nat, Good(m, U, idle), NEW asked, NEW k, k = Failed(m, p, asked)
  PROVE  /\ Good(k, AllBut(U, p), idle) /\ k.total = m.total /\ k.timer = m.timer
         /\ m.timer \/ k.deferred = <<>> \/ k.pending # {}
<1> DEFINE f == IF asked THEN Fail(m, p) ELSE Evict(m, p)
<1>1. Good(f, AllBut(U, p), idle) /\ Alike(m, f)
  <2>1. CASE asked
    <3>1. f = Fail(m, p)
      BY <2>1
    <3> HIDE DEF f
    <3> QED BY <3>1, FailIs
  <2>2. CASE ~asked
    <3>1. f = Evict(m, p)
      BY <2>2
    <3> HIDE DEF f
    <3> QED BY <3>1, EvictIs
  <2> QED BY <2>1, <2>2
<1>2. k = Drain(f)
  BY DEF Failed
<1> HIDE DEF f
<1>3. /\ Good(k, AllBut(U, p), idle) /\ k.total = f.total /\ k.timer = f.timer
      /\ f.timer \/ k.deferred = <<>> \/ k.pending # {}
  BY <1>1, <1>2, DrainIs
<1> QED BY <1>1, <1>3 DEF Alike

\* publish_initial_page: page 0 may be a placeholder that is asked for no more.
Published(m, total, k) == k.total = total /\ k.deferred = m.deferred /\ k.timer = m.timer
\* publish_initial_page.
LEMMA PublishIs ==
  ASSUME NEW m, NEW U, NEW idle, NEW total \in Nat, NEW n \in Nat, NEW payload \in Nat, shownQuery \in Nat,
         Cached(m), WithinLimits(m), Covered(m, U), ShowsBut(m, shownQuery, idle, 0),
         n = 0 => Shows(m, shownQuery, idle),
         NEW k, k = Publish(m, total, n, payload, shownQuery)
  PROVE  Good(k, U, idle) /\ Published(m, total, k)
<1> DEFINE shown == [m EXCEPT !.total = total]
           r == Loaded(n, n, payload, shownQuery)
<1>1. /\ shown.total = total /\ shown.pages = m.pages /\ shown.lru = m.lru /\ shown.pending = m.pending
      /\ shown.deferred = m.deferred /\ shown.timer = m.timer /\ shown.sent = m.sent /\ Fields(shown)
  BY DEF Cached, Fields
<1>2. k = IF n = 0 THEN shown ELSE Touch([shown EXCEPT !.pages = With(m.pages, 0, r)], 0)
  BY DEF Publish
<1> HIDE DEF shown
<1>3. Cached(shown) /\ WithinLimits(shown) /\ Covered(shown, U) /\ ShowsBut(shown, shownQuery, idle, 0)
  BY <1>1 DEF Cached, Tabled, WithinLimits, Covered, ShowsBut
<1>4. CASE n = 0
  <2>1. Shows(shown, shownQuery, idle)
    BY <1>1, <1>4 DEF Shows
  <2>2. k = shown
    BY <1>2, <1>4
  <2> QED BY <1>1, <1>3, <2>1, <2>2 DEF Good, Published
<1>5. CASE n # 0
  <2>1. r \in PageRecords /\ r.state = "rows" /\ r.query = shownQuery
    BY LoadedIs
  <2> HIDE DEF r
  <2>2. k = Touch([shown EXCEPT !.pages = With(shown.pages, 0, r)], 0) /\ 0 \in Nat
    BY <1>1, <1>2, <1>5
  <2>3. r.state # "loading"
    BY <2>1
  <2>4. Good(k, U, idle) /\ Alike(shown, k)
    BY <1>3, <2>1, <2>2, <2>3, FilledIs
  <2> QED BY <1>1, <2>4 DEF Alike, Published
<1> QED BY <1>4, <1>5

\* What waits does so for the timer or for a page under way.
Waits(k) == k.timer \/ k.deferred = <<>> \/ k.pending # {}

\* The rows of a page have come.
LEMMA PageRowsCome ==
  ASSUME NEW m, NEW U, NEW idle, NEW p \in Nat, NEW n \in Nat, NEW payload \in Nat, shownQuery \in Nat,
         Good(m, U, idle)
  PROVE  LET d == Drain(Install(m, p, n, payload, shownQuery))
             f == Prefetch(d, p)
         IN  /\ Good(d, AllBut(U, p), idle) /\ d.total = m.total /\ Waits(d)
             /\ d.deferred = <<>> => Good(f, AllBut(U, p), idle) /\ f.total = m.total /\ Waits(f)
<1> DEFINE i == Install(m, p, n, payload, shownQuery)
           d == Drain(i)
           f == Prefetch(d, p)
<1>1. Good(i, AllBut(U, p), idle) /\ Alike(m, i)
  BY InstallIs
<1> HIDE DEF i
<1>2. Good(d, AllBut(U, p), idle) /\ d.total = i.total /\ d.timer = i.timer /\ (i.timer \/ d.deferred = <<>> \/ d.pending # {})
  BY <1>1, DrainIs
<1> HIDE DEF d
<1>3. Good(f, AllBut(U, p), idle) /\ Alike(d, f)
  BY <1>2, PrefetchIs
<1> HIDE DEF f
<1>4. /\ Good(d, AllBut(U, p), idle) /\ d.total = m.total /\ Waits(d)
      /\ d.deferred = <<>> => Good(f, AllBut(U, p), idle) /\ f.total = m.total /\ Waits(f)
  BY <1>1, <1>2, <1>3 DEF Alike, Waits
<1> QED BY <1>4 DEF d, f, i

Outcomes == {"ok", "full", "error"}

\* The callback of ensure_page's request.
LEMMA LoadedPageIs ==
  ASSUME NEW m, NEW U, NEW idle, NEW a, NEW payload \in Nat, shownQuery \in Nat, Good(m, U, idle),
         a.request \in PageAsks(shownQuery), a.rows \in Nat, a.outcome \in Outcomes
  PROVE  LET k == LoadedPage(m, a, payload)
         IN  /\ Good(k, AllBut(U, a.request.page), idle) /\ k.total = m.total
             /\ Waits(k) \/ (LeavesWaiting(a) /\ k.deferred = m.deferred)
<1> DEFINE p == a.request.page
           n == a.rows
           k == LoadedPage(m, a, payload)
           d == Drain(Install(m, p, n, payload, shownQuery))
           asked == a.request.priority = "visible"
<1>0. /\ p \in Nat /\ n \in Nat /\ a.request.query = shownQuery
      /\ asked \/ a.request.priority = "prefetch"
  BY DEF PageAsks
<1>1. CASE a.outcome = "ok"
  <2>1. k = IF p \in DOMAIN m.pages /\ asked /\ d.deferred = <<>> THEN Prefetch(d, p) ELSE d
    BY <1>0, <1>1 DEF LoadedPage
  <2> DEFINE f == Prefetch(d, p)
  <2>2. /\ Good(d, AllBut(U, p), idle) /\ d.total = m.total /\ Waits(d)
        /\ d.deferred = <<>> => Good(f, AllBut(U, p), idle) /\ f.total = m.total /\ Waits(f)
    <3> HIDE DEF p, n
    <3> QED BY <1>0, PageRowsCome
  <2> HIDE DEF k, d
  <2>3. Good(k, AllBut(U, p), idle) /\ k.total = m.total /\ Waits(k)
    BY <2>1, <2>2
  <2> QED BY <2>3 DEF k
<1>2. CASE a.outcome = "full"
  <2> DEFINE dropped == Evict(m, p)
             later == Defer(dropped, p)
  <2>1. k = IF asked THEN Schedule(later) ELSE dropped
    BY <1>2 DEF LoadedPage
  <2>2. Good(dropped, AllBut(U, p), idle) /\ Alike(m, dropped)
    <3> HIDE DEF p
    <3> QED BY <1>0, EvictIs
  <2> HIDE DEF dropped, k
  <2>3. Good(later, AllBut(U, p), idle) /\ later.total = dropped.total
    <3> HIDE DEF p
    <3> QED BY <1>0, <2>2, DeferIs
  <2> HIDE DEF later
  <2>4. CASE asked
    <3>1. k = Schedule(later)
      BY <2>1, <2>4
    <3>2. PICK V : V = AllBut(U, p)
      OBVIOUS
    <3>3. Good(later, V, idle)
      BY <2>3, <3>2
    <3>4. Good(k, V, idle) /\ Scheduled(later, k)
      BY <3>1, <3>3, ScheduleIs
    <3>5. Good(k, AllBut(U, p), idle)
      BY <3>2, <3>4
    <3>6. Good(k, AllBut(U, p), idle) /\ k.total = m.total /\ Waits(k)
      BY <2>2, <2>3, <3>4, <3>5 DEF Alike, Waits, Scheduled
    <3> QED BY <3>6 DEF k
  <2>5. CASE ~asked
    <3>1. k = dropped
      BY <2>1, <2>5
    <3>2. LeavesWaiting(a)
      BY <1>0, <1>2, <2>5 DEF LeavesWaiting
    <3>3. Good(k, AllBut(U, p), idle) /\ k.total = m.total /\ k.deferred = m.deferred
      BY <2>2, <3>1 DEF Alike
    <3> QED BY <3>2, <3>3 DEF k
  <2> QED BY <2>4, <2>5
<1>3. CASE a.outcome = "error"
  <2>1. k = Failed(m, p, asked)
    BY <1>3 DEF LoadedPage
  <2>2. PICK b : b = asked
    OBVIOUS
  <2>3. k = Failed(m, p, b)
    BY <2>1, <2>2
  <2> HIDE DEF k, p, asked
  <2>4. /\ Good(k, AllBut(U, p), idle) /\ k.total = m.total /\ k.timer = m.timer
        /\ m.timer \/ k.deferred = <<>> \/ k.pending # {}
    BY <2>3, <1>0, FailedIs
  <2>5. Good(k, AllBut(U, p), idle) /\ k.total = m.total /\ Waits(k)
    BY <2>4 DEF Waits
  <2> QED BY <2>5 DEF k, p
<1> QED BY <1>1, <1>2, <1>3 DEF Outcomes

\* Page 0 is no longer asked for.
LEMMA FirstUnaskedIs ==
  ASSUME NEW m, NEW U, NEW idle, Good(m, U, idle)
  PROVE  LET known == Unasked(m, 0)
         IN  /\ Cached(known) /\ WithinLimits(known) /\ Alike(m, known)
             /\ known.pages = m.pages
             /\ Covered(known, AllBut(U, 0)) /\ ShowsBut(known, shownQuery, idle, 0)
<1>1. PICK p \in Nat : p = 0
  OBVIOUS
<1>2. PICK b : b = Unasked(m, p)
  OBVIOUS
<1>3. /\ Cached(b) /\ WithinLimits(b) /\ Alike(m, b)
      /\ b.pages = m.pages
      /\ Covered(b, AllBut(U, p)) /\ ShowsBut(b, shownQuery, idle, p)
  BY <1>2, UnaskedIs
<1> QED BY <1>1, <1>2, <1>3

NoneIsIdle(a, idle) == a.outcome = "ok" /\ a.rows = 0 => idle
\* The callback of reload's request for page 0.
LEMMA FirstPageIs ==
  ASSUME NEW m, NEW U, NEW idle, NEW a, NEW payload \in Nat, shownQuery \in Nat, Good(m, U, idle),
         a.request = Request("first", 0, "visible", shownQuery), a.rows \in Nat, a.outcome \in Outcomes,
         NoneIsIdle(a, idle)
  PROVE  LET k == FirstPage(m, a, payload)
         IN  /\ Good(k, AllBut(U, 0), idle)
             /\ a.outcome = "ok" /\ m.total = 0 => k.total = a.rows /\ k.deferred = m.deferred
             /\ ~(a.outcome = "ok" /\ m.total = 0) =>
                  k.total = m.total /\ (Waits(k) \/ (LeavesWaiting(a) /\ k.deferred = m.deferred))
<1> DEFINE n == a.rows
           k == FirstPage(m, a, payload)
           d == Drain(Install(m, 0, n, payload, shownQuery))
<1>0. /\ 0 \in Nat /\ n \in Nat /\ a.request.query = shownQuery /\ a.request.kind = "first"
  BY DEF Request
<1>1. CASE a.outcome # "ok"
  <2>1. k = Evict(m, 0)
    BY <1>1 DEF FirstPage
  <2> HIDE DEF k
  <2>2. Good(k, AllBut(U, 0), idle) /\ Alike(m, k)
    BY <1>0, <2>1, EvictIs
  <2>3. LeavesWaiting(a)
    BY <1>0, <1>1 DEF LeavesWaiting
  <2>4. Good(k, AllBut(U, 0), idle) /\ k.total = m.total /\ k.deferred = m.deferred
    BY <2>2 DEF Alike
  <2> QED BY <1>1, <2>3, <2>4 DEF k
<1>2. CASE a.outcome = "ok" /\ m.total = 0
  <2> DEFINE known == Unasked(m, 0)
  <2>1. k = Publish(known, n, n, payload, shownQuery)
    BY <1>0, <1>2 DEF FirstPage, Unasked
  <2>2. /\ Cached(known) /\ WithinLimits(known) /\ Alike(m, known)
        /\ known.pages = m.pages
        /\ Covered(known, AllBut(U, 0)) /\ ShowsBut(known, shownQuery, idle, 0)
    BY FirstUnaskedIs
  <2> HIDE DEF known, k
  <2>3. n = 0 => Shows(known, shownQuery, idle)
    BY <1>2, <2>2 DEF Good, Shows, NoneIsIdle
  <2>4. PICK V : V = AllBut(U, 0)
    OBVIOUS
  <2> HIDE DEF n
  <2>5. Covered(known, V)
    BY <2>2, <2>4
  <2>6. Good(k, V, idle) /\ Published(known, n, k)
    BY <1>0, <2>1, <2>2, <2>3, <2>5, PublishIs
  <2>7. k.total = n
    BY <2>6 DEF Published
  <2>9. k.deferred = m.deferred
    BY <2>2, <2>6 DEF Alike, Published
  <2>10. Good(k, AllBut(U, 0), idle)
    BY <2>4, <2>6
  <2> QED BY <1>2, <2>7, <2>9, <2>10 DEF k, n
<1>3. CASE a.outcome = "ok" /\ m.total # 0
  <2>1. k = IF 0 \in DOMAIN m.pages /\ d.deferred = <<>> THEN Prefetch(d, 0) ELSE d
    BY <1>0, <1>3 DEF FirstPage
  <2> DEFINE f == Prefetch(d, 0)
  <2>2. /\ Good(d, AllBut(U, 0), idle) /\ d.total = m.total /\ Waits(d)
        /\ d.deferred = <<>> => Good(f, AllBut(U, 0), idle) /\ f.total = m.total /\ Waits(f)
    <3> HIDE DEF n
    <3> QED BY <1>0, PageRowsCome
  <2> HIDE DEF k, d
  <2>3. Good(k, AllBut(U, 0), idle) /\ k.total = m.total /\ Waits(k)
    BY <2>1, <2>2
  <2> QED BY <2>3, <1>3 DEF k
<1> QED BY <1>1, <1>2, <1>3

\* The callback of reload's request for the number of rows.
LEMMA RowCountIs ==
  ASSUME NEW m, NEW U, NEW idle, NEW a, Good(m, U, idle), a.rows \in Nat
  PROVE  LET k == RowCount(m, a)
         IN  /\ Good(k, U, idle) /\ k.total = IF a.outcome = "ok" THEN a.rows ELSE m.total
             /\ k.deferred = m.deferred /\ k.timer = m.timer
<1> DEFINE k == RowCount(m, a)
<1>1. /\ k.total = IF a.outcome = "ok" THEN a.rows ELSE m.total
      /\ k.pages = m.pages /\ k.lru = m.lru /\ k.pending = m.pending
      /\ k.deferred = m.deferred /\ k.timer = m.timer /\ k.sent = m.sent /\ Fields(k)
  BY DEF RowCount, Good, Cached, Fields
<1> HIDE DEF k
<1>2. Good(k, U, idle)
  BY <1>1, SameCache
<1> QED BY <1>1, <1>2 DEF k

\* The idle callback of a reload with the startup's page.
LEMMA PreparedPageIs ==
  ASSUME NEW m, NEW U, NEW idle, NEW a, NEW payload \in Nat, shownQuery \in Nat, Good(m, U, idle),
         a.request.query = shownQuery, a.rows \in Nat
  PROVE  LET k == PreparedPage(m, a, payload)
         IN  /\ Good(k, U, idle) /\ k.total = IF m.total = 0 THEN a.rows ELSE m.total
             /\ k.deferred = m.deferred /\ k.timer = m.timer
<1> DEFINE n == Capped(a.rows, PageSize)
           t == a.rows
           k == PreparedPage(m, a, payload)
           s == Publish(m, t, n, payload, shownQuery)
<1>0. n \in Nat /\ t \in Nat /\ 0 \in Nat
  BY LimitsAre, CappedIs
<1>1. CASE m.total # 0
  BY <1>1 DEF PreparedPage
<1>2. CASE m.total = 0
  <2>1. k = IF t > PageSize THEN Prefetch(s, 0) ELSE s
    BY <1>2 DEF PreparedPage
  <2>2. Cached(m) /\ WithinLimits(m) /\ Covered(m, U) /\ ShowsBut(m, shownQuery, idle, 0) /\ Shows(m, shownQuery, idle)
    BY DEF Good, Shows, ShowsBut
  <2>3. Good(s, U, idle) /\ s.total = t /\ s.deferred = m.deferred /\ s.timer = m.timer
    <3> HIDE DEF n, t
    <3>1. Good(s, U, idle) /\ Published(m, t, s)
      BY <1>0, <2>2, PublishIs
    <3> QED BY <3>1 DEF Published
  <2> HIDE DEF s, k
  <2>4. Good(Prefetch(s, 0), U, idle) /\ Alike(s, Prefetch(s, 0))
    BY <2>3, PrefetchIs
  <2>5. /\ Good(k, U, idle) /\ k.total = t /\ k.deferred = m.deferred /\ k.timer = m.timer
    BY <2>1, <2>3, <2>4 DEF Alike
  <2> QED BY <1>2, <2>5 DEF k
<1> QED BY <1>1, <1>2
-----------------------------------------------------------------------------
\* The requests of queries up to q, and what comes back for them.
AskedUpTo(q) ==
  {r \in [kind : {"page", "first", "count"}, page : Nat, priority : {"visible", "prefetch"}, query : 0 .. q] :
     r \in Asks(r.query)}
PagesUpTo(q) == {r \in AskedUpTo(q) : r.kind = "page"}
Replies(q) ==
  [request : AskedUpTo(q) \cup {Request("prepared", 0, "none", x) : x \in 0 .. q},
   outcome : Outcomes, rows : Nat]

LanesShape(v, m, n) ==
  v \in Seq(AskedUpTo(n) \cup {Other}) /\ m \in Seq(PagesUpTo(n) \cup {Other})
AnswersShape(B, q) == IsABag(B) /\ DOMAIN B \subseteq Replies(q)
ListShape ==
  /\ shownQuery \in Nat /\ stored \in Nat /\ newest \in 0 .. shownQuery
  /\ outdated \in BOOLEAN /\ forgotten \in BOOLEAN
  /\ list.sent \in Seq(Asks(shownQuery))
  /\ LanesShape(visible, maintenance, newest) /\ AnswersShape(answers, shownQuery)

\* The requests of the shown query, wherever they are.
Replied == {a.request : a \in DOMAIN answers}
Asked ==
  {r \in ToSet(list.sent) \cup ToSet(visible) \cup ToSet(maintenance) \cup Replied :
     r.kind # "other" /\ r.query = shownQuery}
AsksPage(r) == r.kind \in {"first", "page"}
TheFirst == Request("first", 0, "visible", shownQuery)
TheCount == Request("count", 0, "visible", shownQuery)
ThePrepared == Request("prepared", 0, "none", shownQuery)

\* A reload's requests are made once, and there is one answer to each.
Once(s, r) == \A i, j \in DOMAIN s : s[i] = r /\ s[j] = r => i = j
OneAnswer(B, r) == \A a, b \in DOMAIN B : a.request = r /\ b.request = r => a = b /\ B[a] = 1
InOnePlace(r) ==
  /\ Once(list.sent, r) /\ Once(visible, r) /\ OneAnswer(answers, r)
  /\ r \in ToSet(list.sent) => r \notin ToSet(visible) /\ r \notin Replied
  /\ r \in ToSet(visible) => r \notin Replied

\* What the answers say is so, as long as nothing has changed.
Truthful(a, n) ==
  /\ a.request.kind \in {"count", "prepared"} => a.rows = n
  /\ a.request.kind = "first" => a.rows = RowsOf(n, 0)
AnswersAreTrue ==
  ~outdated =>
    /\ \A a \in DOMAIN answers :
         a.request.query = shownQuery /\ (a.outcome = "ok" \/ a.request.kind = "prepared") => Truthful(a, stored)
    /\ stored = 0 => list.total = 0

NothingShown == outdated \/ stored = 0
CacheHolds ==
  /\ Cached(list) /\ WithinLimits(list) /\ Shows(list, shownQuery, NothingShown)
  /\ \A p \in list.pending : \E r \in Asked : AsksPage(r) /\ r.page = p

\* Before anything is known of the query nothing happens but the answers to
\* its reload.
Untouched(m) ==
  /\ m.deferred = <<>> /\ ~m.timer
  /\ \A p \in DOMAIN m.pages : m.pages[p].state = "loading" /\ m.pages[p].loaded = 0
FirstComesFirst ==
  /\ TheFirst \in Asked /\ list.total = 0 => Untouched(list) /\ \A r \in Asked : r.kind # "page"
  /\ TheFirst \in Asked /\ TheCount \in Asked => list.total = 0
  /\ ThePrepared \in Asked => TheFirst \notin Asked /\ TheCount \notin Asked

WaitingGoOn ==
  list.deferred # <<>> => list.timer \/ forgotten \/ \E r \in Asked : AsksPage(r)

ListInv ==
  /\ ListShape
  /\ InOnePlace(TheFirst) /\ InOnePlace(TheCount)
  /\ AnswersAreTrue /\ CacheHolds /\ FirstComesFirst /\ WaitingGoOn

\* The invariant says what the property says.
LEMMA InvIs ==
  ListInv => MissingPagesCome
<1> SUFFICES ASSUME ListInv PROVE MissingPagesCome
  OBVIOUS
<1>0. ListShape /\ CacheHolds /\ WaitingGoOn /\ AnswersAreTrue
  BY DEF ListInv
<1>1. Requested = {r \in Asked : AsksPage(r)}
  BY DEF Requested, Asked, AsksPage, Replied, BagToSet
<1>2. CacheIsBounded
  <2>1. /\ list.lru \in Seq(Nat) /\ IsInjective(list.lru) /\ DOMAIN list.pages \subseteq ToSet(list.lru)
        /\ list.pending \subseteq DOMAIN list.pages
        /\ Len(list.lru) <= MaxCachedPages /\ CachedPayload(list.pages) <= MaxCachedPayload
    BY <1>0 DEF CacheHolds, Cached, Fields, WithinLimits
  <2>2. Len(list.lru) \in Nat /\ ToSet(list.lru) = {list.lru[i] : i \in 1 .. Len(list.lru)}
    <3>1. Len(list.lru) \in Nat /\ DOMAIN list.lru = 1 .. Len(list.lru)
      BY <2>1, LenProperties
    <3>2. ToSet(list.lru) = {list.lru[i] : i \in DOMAIN list.lru}
      BY DEF ToSet
    <3> QED BY <3>1, <3>2
  <2>3. IsFiniteSet(1 .. Len(list.lru)) /\ Cardinality(1 .. Len(list.lru)) = Len(list.lru)
    <3>1. PICK n \in Nat : n = Len(list.lru)
      BY <2>2
    <3>2. IsFiniteSet(1 .. n) /\ Cardinality(1 .. n) = IF 1 > n THEN 0 ELSE n - 1 + 1
      BY FS_Interval
    <3>3. Cardinality(1 .. n) = n
      BY <3>2
    <3> QED BY <3>1, <3>2, <3>3
  <2>4. [i \in 1 .. Len(list.lru) |-> list.lru[i]] \in Surjection(1 .. Len(list.lru), ToSet(list.lru))
    BY <2>2 DEF Surjection
  <2>5. IsFiniteSet(ToSet(list.lru)) /\ Cardinality(ToSet(list.lru)) <= Len(list.lru)
    BY <2>3, <2>4, FS_Surjection
  <2>6. IsFiniteSet(DOMAIN list.pages) /\ Cardinality(DOMAIN list.pages) <= Cardinality(ToSet(list.lru))
    BY <2>1, <2>5, FS_Subset
  <2>7. Cardinality(DOMAIN list.pages) \in Nat /\ Cardinality(ToSet(list.lru)) \in Nat
    BY <2>5, <2>6, FS_CardinalityType
  <2>8. Cardinality(DOMAIN list.pages) <= MaxCachedPages
    BY <2>1, <2>2, <2>5, <2>6, <2>7, LimitsAre
  <2> QED BY <2>1, <2>8 DEF CacheIsBounded
<1>3. RowsAnswerTheQuery
  BY <1>0 DEF CacheHolds, Shows, RowsAnswerTheQuery
<1>4. ASSUME NEW p \in DOMAIN list.pages, list.pages[p].state = "loading", RowsOf(list.total, p) > 0
      PROVE  Underway(p) \/ outdated
  <2>1. p \in list.pending \/ NothingShown
    BY <1>0, <1>4 DEF CacheHolds, Shows
  <2>2. CASE p \in list.pending
    BY <1>0, <1>1, <2>2 DEF CacheHolds, Underway
  <2>3. CASE NothingShown /\ ~outdated
    <3>1. list.total = 0
      BY <1>0, <2>3 DEF NothingShown, AnswersAreTrue
    <3>2. p \in Nat /\ list.total \in Nat
      BY <1>0 DEF CacheHolds, Cached, Tabled, Fields
    <3>3. RowsOf(list.total, p) = 0
      BY <3>1, <3>2, RowsAre
    <3> QED BY <1>4, <3>3
  <2> QED BY <2>1, <2>2, <2>3
<1>5. list.deferred # <<>> => list.timer \/ forgotten \/ Requested # {}
  BY <1>0, <1>1 DEF WaitingGoOn
<1> QED BY <1>2, <1>3, <1>4, <1>5 DEF MissingPagesCome

\* A sequence and its first element, and one with another at its end.
LEMMA FirstOf ==
  ASSUME NEW S, NEW s \in Seq(S), s # <<>>
  PROVE  /\ Head(s) \in S /\ Tail(s) \in Seq(S)
         /\ ToSet(s) = ToSet(Tail(s)) \cup {Head(s)}
         /\ \A r : Once(s, r) => Once(Tail(s), r) /\ (Head(s) = r => r \notin ToSet(Tail(s)))
<1>1. /\ Len(s) \in Nat \ {0} /\ DOMAIN s = 1 .. Len(s) /\ ToSet(s) = {s[i] : i \in 1 .. Len(s)}
      /\ \A i \in 1 .. Len(s) : s[i] \in S
  BY ElementsOf, EmptySeq
<1>2. /\ Head(s) = s[1] /\ Tail(s) \in Seq(S) /\ Len(Tail(s)) = Len(s) - 1
      /\ \A i \in 1 .. Len(Tail(s)) : Tail(s)[i] = s[i + 1]
  BY HeadTailProperties
<1> DEFINE t == Tail(s)
<1> HIDE DEF t
<1>3. DOMAIN t = 1 .. Len(s) - 1 /\ ToSet(t) = {t[i] : i \in 1 .. Len(s) - 1}
  <2>1. t \in Seq(S) /\ Len(t) = Len(s) - 1
    BY <1>2 DEF t
  <2> QED BY <2>1, ElementsOf
<1>4. \A i \in 1 .. Len(s) - 1 : t[i] = s[i + 1] /\ i + 1 \in 1 .. Len(s)
  BY <1>1, <1>2 DEF t
<1>5. Head(s) \in S
  BY <1>1, <1>2
<1>6. ToSet(s) = ToSet(t) \cup {Head(s)}
  <2>1. ASSUME NEW i \in 1 .. Len(s) PROVE s[i] \in ToSet(t) \cup {Head(s)}
    <3>1. CASE i = 1
      BY <3>1, <1>2
    <3>2. CASE i # 1
      <4>1. i - 1 \in 1 .. Len(s) - 1 /\ (i - 1) + 1 = i
        BY <3>2, <1>1
      <4> QED BY <4>1, <1>3, <1>4
    <3> QED BY <3>1, <3>2
  <2>2. Head(s) \in ToSet(s)
    BY <1>1, <1>2
  <2>3. ToSet(t) \subseteq ToSet(s)
    BY <1>1, <1>3, <1>4
  <2> QED BY <2>1, <2>2, <2>3, <1>1
<1>7. ASSUME NEW r, Once(s, r) PROVE Once(t, r) /\ (Head(s) = r => r \notin ToSet(t))
  <2>1. \A i, j \in 1 .. Len(s) : s[i] = r /\ s[j] = r => i = j
    BY <1>1, <1>7 DEF Once
  <2>2. Once(t, r)
    <3> SUFFICES ASSUME NEW i \in 1 .. Len(s) - 1, NEW j \in 1 .. Len(s) - 1, t[i] = r, t[j] = r PROVE i = j
      BY <1>3 DEF Once
    <3>1. i + 1 = j + 1
      BY <1>4, <2>1
    <3> QED BY <3>1
  <2>3. ASSUME NEW i \in 1 .. Len(s) - 1, t[i] = r, Head(s) = r PROVE FALSE
    <3>1. 1 \in 1 .. Len(s) /\ s[1] = r /\ s[i + 1] = r /\ i + 1 # 1
      BY <2>3, <1>1, <1>2, <1>4
    <3> QED BY <3>1, <1>4, <2>1
  <2> QED BY <2>2, <2>3, <1>3
<1> QED BY <1>2, <1>5, <1>6, <1>7 DEF t

\* A sequence with another element at its end.
LEMMA LastOf ==
  ASSUME NEW S, NEW s \in Seq(S), NEW x \in S
  PROVE  /\ Append(s, x) \in Seq(S)
         /\ ToSet(Append(s, x)) = ToSet(s) \cup {x}
         /\ \A r : Once(s, r) /\ (x = r => r \notin ToSet(s)) => Once(Append(s, x), r)
<1> DEFINE t == Append(s, x)
<1>1. /\ Len(s) \in Nat /\ DOMAIN s = 1 .. Len(s) /\ ToSet(s) = {s[i] : i \in 1 .. Len(s)}
  BY ElementsOf
<1>2. /\ t \in Seq(S) /\ Len(t) = Len(s) + 1 /\ t[Len(s) + 1] = x
      /\ \A i \in 1 .. Len(s) : t[i] = s[i]
  BY <1>1, AppendProperties
<1> HIDE DEF t
<1>3. DOMAIN t = 1 .. Len(s) + 1 /\ ToSet(t) = {t[i] : i \in 1 .. Len(s) + 1}
  BY <1>2, ElementsOf
<1>4. ToSet(t) = ToSet(s) \cup {x}
  BY <1>1, <1>2, <1>3
<1>5. ASSUME NEW r, Once(s, r), x = r => r \notin ToSet(s) PROVE Once(t, r)
  <2> SUFFICES ASSUME NEW i \in 1 .. Len(s) + 1, NEW j \in 1 .. Len(s) + 1, t[i] = r, t[j] = r PROVE i = j
    BY <1>3 DEF Once
  <2>1. CASE i \in 1 .. Len(s) /\ j \in 1 .. Len(s)
    BY <2>1, <1>1, <1>2, <1>5 DEF Once
  <2>2. CASE i = Len(s) + 1 /\ j \in 1 .. Len(s)
    BY <2>2, <1>1, <1>2, <1>5
  <2>3. CASE j = Len(s) + 1 /\ i \in 1 .. Len(s)
    BY <2>3, <1>1, <1>2, <1>5
  <2>4. CASE j = Len(s) + 1 /\ i = Len(s) + 1
    BY <2>4
  <2> QED BY <1>1, <2>1, <2>2, <2>3, <2>4
<1> QED BY <1>2, <1>4, <1>5 DEF t

\* An answer is on its way, or has come.
LEMMA AnswerAdded ==
  ASSUME NEW B, IsABag(B), NEW a, NEW C, C = B (+) SetToBag({a})
  PROVE  /\ IsABag(C) /\ DOMAIN C = DOMAIN B \cup {a}
         /\ \A r : OneAnswer(B, r) /\ (a.request = r => \A b \in DOMAIN B : b.request # r) => OneAnswer(C, r)
<1>1. DOMAIN C = DOMAIN B \cup {a}
  BY DEF SetToBag, (+)
<1>2. \A e \in DOMAIN B \cup {a} : C[e] = IF e = a THEN (IF a \in DOMAIN B THEN B[a] ELSE 0) + 1 ELSE B[e] + 0
  BY DEF SetToBag, (+)
<1>3. \A e \in DOMAIN B : B[e] \in Nat \ {0}
  BY DEF IsABag
<1>4. \A e \in DOMAIN B \cup {a} : C[e] = (IF e = a THEN (IF a \in DOMAIN B THEN B[a] ELSE 0) + 1 ELSE B[e]) /\ C[e] \in Nat \ {0}
  BY <1>2, <1>3
<1>5. C = [e \in DOMAIN C |-> C[e]]
  BY DEF SetToBag, (+)
<1>6. IsABag(C)
  BY <1>1, <1>4, <1>5 DEF IsABag
<1>7. ASSUME NEW r, OneAnswer(B, r), a.request = r => \A b \in DOMAIN B : b.request # r PROVE OneAnswer(C, r)
  <2> SUFFICES ASSUME NEW b \in DOMAIN C, NEW c \in DOMAIN C, b.request = r, c.request = r PROVE b = c /\ C[b] = 1
    BY DEF OneAnswer
  <2>1. CASE a.request = r
    <3>1. a \notin DOMAIN B /\ b = a /\ c = a
      BY <1>1, <1>7, <2>1
    <3> QED BY <3>1, <1>4
  <2>2. CASE a.request # r
    <3>1. b \in DOMAIN B /\ c \in DOMAIN B /\ b # a
      BY <1>1, <2>2
    <3>2. b = c /\ B[b] = 1
      BY <3>1, <1>7 DEF OneAnswer
    <3> QED BY <3>1, <3>2, <1>4
  <2> QED BY <2>1, <2>2
<1> QED BY <1>1, <1>6, <1>7

\* An answer is taken from the bag, which had it once if its request was
\* made once.
LEMMA AnswerTaken ==
  ASSUME NEW B, IsABag(B), NEW a \in DOMAIN B, NEW C, C = B (-) SetToBag({a})
  PROVE  /\ IsABag(C) /\ DOMAIN C \subseteq DOMAIN B
         /\ \A b \in DOMAIN B : b # a => b \in DOMAIN C
         /\ \A r : OneAnswer(B, r) => OneAnswer(C, r) /\ (a.request = r => \A b \in DOMAIN C : b.request # r)
<1> DEFINE D == [e \in DOMAIN B |-> IF e = a THEN B[e] - 1 ELSE B[e]]
<1>1. C = [e \in {d \in DOMAIN D : D[d] > 0} |-> D[e]]
  BY DEF SetToBag, (-)
<1>2. \A e \in DOMAIN B : B[e] \in Nat \ {0}
  BY DEF IsABag
<1>3. /\ DOMAIN D = DOMAIN B
      /\ \A e \in DOMAIN B : D[e] = IF e = a THEN B[e] - 1 ELSE B[e]
  OBVIOUS
<1> HIDE DEF D
<1>4. /\ DOMAIN C = {d \in DOMAIN B : D[d] > 0}
      /\ \A e \in DOMAIN C : C[e] = D[e]
  BY <1>1, <1>3
<1>5. \A e \in DOMAIN B : D[e] \in Nat
  BY <1>2, <1>3
<1>6. IsABag(C)
  <2>1. C = [e \in DOMAIN C |-> C[e]]
    BY <1>1
  <2>2. \A e \in DOMAIN C : C[e] \in {n \in Nat : n > 0}
    BY <1>4, <1>5
  <2> QED BY <2>1, <2>2 DEF IsABag
<1>7. \A b \in DOMAIN B : b # a => b \in DOMAIN C
  BY <1>2, <1>3, <1>4
<1>8. ASSUME NEW r, OneAnswer(B, r) PROVE OneAnswer(C, r) /\ (a.request = r => \A b \in DOMAIN C : b.request # r)
  <2>1. ASSUME NEW b \in DOMAIN C, b.request = r, a.request = r PROVE FALSE
    <3>1. b = a /\ B[a] = 1
      BY <1>8, <2>1, <1>4 DEF OneAnswer
    <3> QED BY <3>1, <1>3, <1>4
  <2>2. OneAnswer(C, r)
    <3> SUFFICES ASSUME NEW b \in DOMAIN C, NEW c \in DOMAIN C, b.request = r, c.request = r PROVE b = c /\ C[b] = 1
      BY DEF OneAnswer
    <3>1. b \in DOMAIN B /\ c \in DOMAIN B
      BY <1>4
    <3>2. b = c /\ B[b] = 1
      BY <3>1, <1>8 DEF OneAnswer
    <3>3. b # a
      BY <3>2, <1>3, <1>4
    <3> QED BY <3>1, <3>2, <3>3, <1>3, <1>4
  <2> QED BY <2>1, <2>2
<1> QED BY <1>4, <1>6, <1>7, <1>8

\* A request of the query q, as one of the queries up to n.
LEMMA AsksAre ==
  ASSUME NEW q \in Nat, NEW r \in Asks(q), NEW n \in Nat, q <= n
  PROVE  /\ r \in AskedUpTo(n) /\ r.query = q /\ r.kind \in {"page", "first", "count"}
         /\ r.priority \in {"visible", "prefetch"} /\ (r.priority = "prefetch" => r \in PagesUpTo(n))
BY DEF Asks, PageAsks, AskedUpTo, PagesUpTo, Request

\* A request of one of the queries up to n.
LEMMA AskedAre ==
  ASSUME NEW n \in Nat, NEW r \in AskedUpTo(n)
  PROVE  /\ r.query \in 0 .. n /\ r \in Asks(r.query) /\ r.kind \in {"page", "first", "count"}
         /\ r # Other /\ \A m \in Nat : n <= m => r \in AskedUpTo(m)
BY DEF AskedUpTo, Other

\* The request of somebody else.
LEMMA OthersAre == Other.kind = "other" /\ Other.query = 0
  BY DEF Other

\* What a lane keeps when a newer query comes.
LEMMA KeptIs ==
  ASSUME NEW S, NEW lane \in Seq(S \cup {Other}), NEW query, \A r \in S : IsSuperseded(r, query)
  PROVE  Kept(lane, query) \in Seq({Other})
<1> DEFINE n == Len(lane)
           Q == Seq({Other})
           step == [i \in 1 .. n |-> [y \in Q |-> IF IsSuperseded(lane[i], query) THEN y ELSE Append(y, lane[i])]]
           kept == CHOOSE g : g = [i \in 0 .. n |-> IF i = 0 THEN <<>>
                                             ELSE IF IsSuperseded(lane[i], query) THEN g[i - 1]
                                             ELSE Append(g[i - 1], lane[i])]
<1>0. n \in Nat /\ \A i \in 1 .. n : lane[i] \in S \cup {Other}
  BY ElementsOf
<1>1. Kept(lane, query) = kept[n]
  BY DEF Kept
<1>2. <<>> \in Q
  OBVIOUS
<1>3. \A i \in 1 .. n : ~IsSuperseded(lane[i], query) => lane[i] = Other
  BY <1>0
<1> HIDE DEF n
<1>4. step \in [1 .. n -> [Q -> Q]]
  <2>1. \A i \in 1 .. n : \A y \in Q : (IF IsSuperseded(lane[i], query) THEN y ELSE Append(y, lane[i])) \in Q
    <3> SUFFICES ASSUME NEW i \in 1 .. n, NEW y \in Q, ~IsSuperseded(lane[i], query) PROVE Append(y, lane[i]) \in Q
      OBVIOUS
    <3>1. lane[i] \in {Other}
      BY <1>3
    <3> QED BY <3>1, AppendProperties
  <2> QED BY <2>1
<1>5. PICK f \in [0 .. n -> Q] : f = [i \in 0 .. n |-> IF i = 0 THEN <<>> ELSE step[i][f[i - 1]]]
  <2> HIDE DEF step, Q
  <2>1. \E f \in [0 .. n -> Q] : Recurs(f, <<>>, n, step)
    BY <1>4, <1>0, <1>2, RecursionIs
  <2> QED BY <2>1, Zenon DEF Recurs
<1>6. \A i \in 0 .. n : f[i] = IF i = 0 THEN <<>> ELSE IF IsSuperseded(lane[i], query) THEN f[i - 1] ELSE Append(f[i - 1], lane[i])
  <2> SUFFICES ASSUME NEW i \in 0 .. n
               PROVE  f[i] = IF i = 0 THEN <<>> ELSE IF IsSuperseded(lane[i], query) THEN f[i - 1] ELSE Append(f[i - 1], lane[i])
    OBVIOUS
  <2>1. f[i] = IF i = 0 THEN <<>> ELSE step[i][f[i - 1]]
    BY <1>5
  <2>2. CASE i # 0
    <3>1. i \in 1 .. n /\ i - 1 \in 0 .. n
      BY <2>2, <1>0
    <3>2. f[i - 1] \in Q
      BY <3>1
    <3>3. step[i][f[i - 1]] = IF IsSuperseded(lane[i], query) THEN f[i - 1] ELSE Append(f[i - 1], lane[i])
      BY <3>1, <3>2
    <3> QED BY <2>1, <2>2, <3>3, Zenon
  <2> QED BY <2>1, <2>2
<1>7. f = [i \in 0 .. n |-> IF i = 0 THEN <<>> ELSE IF IsSuperseded(lane[i], query) THEN f[i - 1] ELSE Append(f[i - 1], lane[i])]
  <2>1. f = [i \in 0 .. n |-> f[i]]
    BY <1>5
  <2> QED BY <2>1, <1>6, Zenon
<1>8. kept = [i \in 0 .. n |-> IF i = 0 THEN <<>> ELSE IF IsSuperseded(lane[i], query) THEN kept[i - 1] ELSE Append(kept[i - 1], lane[i])]
  BY <1>7, Zenon
<1>9. kept[n] \in Q
  <2> HIDE DEF kept, Q
  <2> DEFINE T == {i \in 0 .. n : kept[i] \in Q}
  <2>1. 0 \in T
    <3>1. kept[0] = <<>>
      BY <1>0, <1>8
    <3> QED BY <3>1, <1>0, <1>2
  <2>2. ASSUME NEW i \in 1 .. n, i - 1 \in T PROVE i \in T
    <3>1. kept[i] = IF IsSuperseded(lane[i], query) THEN kept[i - 1] ELSE Append(kept[i - 1], lane[i])
      <4>1. i \in 0 .. n /\ i # 0
        OBVIOUS
      <4> QED BY <4>1, <1>8
    <3>2. ~IsSuperseded(lane[i], query) => Append(kept[i - 1], lane[i]) \in Q
      <4> SUFFICES ASSUME ~IsSuperseded(lane[i], query) PROVE Append(kept[i - 1], lane[i]) \in Q
        OBVIOUS
      <4>1. lane[i] \in {Other} /\ kept[i - 1] \in Seq({Other})
        BY <1>3, <2>2 DEF Q
      <4> QED BY <4>1, AppendProperties DEF Q
    <3>3. i \in 0 .. n
      OBVIOUS
    <3> QED BY <2>2, <3>1, <3>2, <3>3
  <2>3. n \in 0 .. n
    BY <1>0
  <2> HIDE DEF T
  <2>4. n \in T
    BY <1>0, <2>1, <2>2, <2>3, UpTo
  <2> QED BY <2>4 DEF T
<1> QED BY <1>1, <1>9 DEF n

\* The lanes and the answers as one record, and what they hold of the shown
\* query.
IsLanes(l) == l = [visible |-> l.visible, maintenance |-> l.maintenance, newest |-> l.newest, answers |-> l.answers]
LanesOK(l) ==
  /\ IsLanes(l) /\ l.newest \in 0 .. shownQuery
  /\ LanesShape(l.visible, l.maintenance, l.newest) /\ AnswersShape(l.answers, shownQuery)
Holds(l, r) == r \in ToSet(l.visible) \/ r \in ToSet(l.maintenance) \/ \E a \in DOMAIN l.answers : a.request = r
OnceIn(l, r) ==
  /\ Once(l.visible, r) /\ OneAnswer(l.answers, r)
  /\ r \in ToSet(l.visible) => \A a \in DOMAIN l.answers : a.request # r

\* A lane of nothing but others' requests.
LEMMA OthersOnly ==
  ASSUME NEW s \in Seq({Other}), NEW r, r.kind # "other"
  PROVE  r \notin ToSet(s) /\ Once(s, r)
<1>1. ToSet(s) = {s[i] : i \in 1 .. Len(s)} /\ DOMAIN s = 1 .. Len(s) /\ \A i \in 1 .. Len(s) : s[i] \in {Other}
  BY ElementsOf
<1>2. r # Other
  BY OthersAre
<1> QED BY <1>1, <1>2 DEF Once

\* A lane has requests of older queries only.
LEMMA NoneOf ==
  ASSUME NEW n \in Nat, NEW q \in Nat, n < q, NEW s \in Seq(AskedUpTo(n) \cup {Other}), NEW r, r.query = q, r.kind # "other"
  PROVE  r \notin ToSet(s)
<1>1. ToSet(s) = {s[i] : i \in 1 .. Len(s)} /\ \A i \in 1 .. Len(s) : s[i] \in AskedUpTo(n) \cup {Other}
  BY ElementsOf
<1>2. r # Other
  BY OthersAre
<1>3. r \notin AskedUpTo(n)
  BY AskedAre
<1> QED BY <1>1, <1>2, <1>3

\* A sequence over a set is one over a larger set.
LEMMA SeqMono == ASSUME NEW S, NEW T, S \subseteq T, NEW s \in Seq(S) PROVE s \in Seq(T)
  OBVIOUS

\* A newer query of the list drops only what the older ones asked for.
LEMMA RenewedIs ==
  ASSUME NEW l, shownQuery \in Nat, LanesOK(l), NEW request \in Asks(shownQuery), NEW k, k = Renewed(l, request)
  PROVE  /\ LanesOK(k) /\ k.newest = shownQuery /\ k.answers = l.answers
         /\ \A r : r.kind # "other" /\ r.query = shownQuery =>
              /\ r \in ToSet(k.visible) <=> r \in ToSet(l.visible)
              /\ r \in ToSet(k.maintenance) <=> r \in ToSet(l.maintenance)
              /\ Once(l.visible, r) => Once(k.visible, r)
<1>0. request.query = shownQuery /\ request.kind # "other"
  BY AsksAre
<1>1. CASE l.newest = shownQuery
  <2>1. k = l
    BY <1>0, <1>1 DEF Renewed
  <2> QED BY <2>1, <1>1
<1>2. CASE l.newest # shownQuery
  <2> DEFINE v == Kept(l.visible, shownQuery)
             m == Kept(l.maintenance, shownQuery)
  <2>1. k = [visible |-> v, maintenance |-> m, newest |-> shownQuery, answers |-> l.answers]
    BY <1>0, <1>2 DEF Renewed
  <2>2. l.newest \in Nat /\ l.newest < shownQuery
    BY <1>2 DEF LanesOK
  <2>3. /\ l.visible \in Seq(AskedUpTo(l.newest) \cup {Other})
        /\ l.maintenance \in Seq(PagesUpTo(l.newest) \cup {Other})
    BY DEF LanesOK, LanesShape
  <2>4. l.maintenance \in Seq(AskedUpTo(l.newest) \cup {Other})
    BY <2>3, SeqMono DEF PagesUpTo
  <2>5. \A r \in AskedUpTo(l.newest) : IsSuperseded(r, shownQuery)
    <3> SUFFICES ASSUME NEW r \in AskedUpTo(l.newest) PROVE IsSuperseded(r, shownQuery)
      OBVIOUS
    <3>1. r.query \in 0 .. l.newest /\ r.kind \in {"page", "first", "count"}
      BY <2>2, AskedAre
    <3> QED BY <3>1, <2>2 DEF IsSuperseded
  <2>6. v \in Seq({Other}) /\ m \in Seq({Other})
    BY <2>3, <2>4, <2>5, KeptIs
  <2> HIDE DEF v, m
  <2>7. v \in Seq(AskedUpTo(shownQuery) \cup {Other}) /\ m \in Seq(PagesUpTo(shownQuery) \cup {Other})
    BY <2>6, SeqMono
  <2>8. LanesOK(k)
    BY <2>1, <2>7 DEF LanesOK, IsLanes, LanesShape
  <2>9. ASSUME NEW r, r.kind # "other", r.query = shownQuery
        PROVE  /\ r \in ToSet(k.visible) <=> r \in ToSet(l.visible)
               /\ r \in ToSet(k.maintenance) <=> r \in ToSet(l.maintenance)
               /\ Once(k.visible, r)
    <3>1. r \notin ToSet(l.visible) /\ r \notin ToSet(l.maintenance)
      BY <2>2, <2>3, <2>4, <2>9, NoneOf
    <3>2. r \notin ToSet(k.visible) /\ r \notin ToSet(k.maintenance) /\ Once(k.visible, r)
      <4>1. r \notin ToSet(v) /\ Once(v, r)
        BY <2>6, <2>9, OthersOnly
      <4>2. r \notin ToSet(m)
        BY <2>6, <2>9, OthersOnly
      <4> QED BY <2>1, <4>1, <4>2
    <3> QED BY <3>1, <3>2
  <2> QED BY <2>1, <2>8, <2>9
<1> QED BY <1>1, <1>2

\* A request is pushed: it is in its lane or refused, and the others stay.
LEMMA PushIs ==
  ASSUME NEW l, shownQuery \in Nat, LanesOK(l), NEW request \in Asks(shownQuery), NEW k, k = Push(l, request)
  PROVE  /\ LanesOK(k)
         /\ DOMAIN k.answers \subseteq DOMAIN l.answers \cup {Answer(request, "full", 0)}
         /\ \A r : r.kind # "other" /\ r.query = shownQuery =>
              /\ Holds(k, r) <=> Holds(l, r) \/ r = request
              /\ r \in ToSet(k.visible) => r \in ToSet(l.visible) \/ r = request
              /\ OnceIn(l, r) /\ (r = request => ~Holds(l, r)) => OnceIn(k, r)
<1> DEFINE n == Renewed(l, request)
<1>0. /\ request.query = shownQuery /\ request.kind # "other" /\ request.kind \in {"page", "first", "count"}
      /\ request \in AskedUpTo(shownQuery)
      /\ request.priority = "prefetch" => request \in PagesUpTo(shownQuery)
  BY AsksAre
<1>1. /\ LanesOK(n) /\ n.newest = shownQuery /\ n.answers = l.answers
      /\ \A r : r.kind # "other" /\ r.query = shownQuery =>
           /\ r \in ToSet(n.visible) <=> r \in ToSet(l.visible)
           /\ r \in ToSet(n.maintenance) <=> r \in ToSet(l.maintenance)
           /\ Once(l.visible, r) => Once(n.visible, r)
  BY RenewedIs
<1>2. ~IsSuperseded(request, l.newest)
  BY <1>0 DEF IsSuperseded, LanesOK
<1>3. k = IF request.priority = "prefetch"
          THEN IF Len(n.maintenance) >= MaintenanceCapacity THEN Full(n, request)
               ELSE [n EXCEPT !.maintenance = Append(n.maintenance, request)]
          ELSE IF Len(n.visible) >= VisibleCapacity THEN Full(n, request)
               ELSE [n EXCEPT !.visible = Append(n.visible, request)]
  BY <1>2 DEF Push
<1> HIDE DEF n
<1>4. IsLanes(n) /\ LanesShape(n.visible, n.maintenance, shownQuery) /\ AnswersShape(n.answers, shownQuery)
  BY <1>1 DEF LanesOK
<1>5. CASE k = Full(n, request)
  <2> DEFINE a == Answer(request, "full", 0)
             B == n.answers (+) SetToBag({a})
  <2>1. k = [n EXCEPT !.answers = B]
    BY <1>5 DEF Full
  <2>2. a \in Replies(shownQuery) /\ a.request = request
    BY <1>0 DEF Answer, Replies, Outcomes
  <2>3. /\ IsABag(B) /\ DOMAIN B = DOMAIN n.answers \cup {a}
        /\ \A r : OneAnswer(n.answers, r) /\ (a.request = r => \A b \in DOMAIN n.answers : b.request # r) => OneAnswer(B, r)
    <3>1. PICK b : b = n.answers
      OBVIOUS
    <3>2. PICK C : C = b (+) SetToBag({a})
      OBVIOUS
    <3>3. IsABag(b)
      BY <1>4, <3>1 DEF AnswersShape
    <3> HIDE DEF a
    <3>4. /\ IsABag(C) /\ DOMAIN C = DOMAIN b \cup {a}
          /\ \A r : OneAnswer(b, r) /\ (a.request = r => \A e \in DOMAIN b : e.request # r) => OneAnswer(C, r)
      BY <3>2, <3>3, AnswerAdded
    <3> QED BY <3>1, <3>2, <3>4
  <2> HIDE DEF B
  <2>4. k.visible = n.visible /\ k.maintenance = n.maintenance /\ k.newest = n.newest /\ k.answers = B /\ IsLanes(k)
    BY <2>1, <1>4 DEF IsLanes
  <2>5. LanesOK(k)
    BY <1>1, <1>4, <2>2, <2>3, <2>4 DEF LanesOK, AnswersShape
  <2>6. DOMAIN k.answers = DOMAIN l.answers \cup {a}
    BY <1>1, <2>3, <2>4
  <2>7. ASSUME NEW r, r.kind # "other", r.query = shownQuery
        PROVE  /\ Holds(k, r) <=> Holds(l, r) \/ r = request
               /\ r \in ToSet(k.visible) => r \in ToSet(l.visible)
               /\ OnceIn(l, r) /\ (r = request => ~Holds(l, r)) => OnceIn(k, r)
    <3> HIDE DEF a
    <3>1. Holds(k, r) <=> Holds(l, r) \/ r = request
      BY <1>1, <2>2, <2>4, <2>6, <2>7 DEF Holds
    <3>2. r \in ToSet(k.visible) => r \in ToSet(l.visible)
      BY <1>1, <2>4, <2>7
    <3>3. ASSUME OnceIn(l, r), r = request => ~Holds(l, r) PROVE OnceIn(k, r)
      <4>1. Once(k.visible, r)
        BY <1>1, <2>4, <2>7, <3>3 DEF OnceIn
      <4>2. OneAnswer(k.answers, r)
        BY <1>1, <2>2, <2>3, <2>4, <3>3 DEF OnceIn, Holds
      <4>3. r \in ToSet(k.visible) => \A b \in DOMAIN k.answers : b.request # r
        BY <2>2, <2>6, <3>2, <3>3 DEF OnceIn, Holds
      <4> QED BY <4>1, <4>2, <4>3 DEF OnceIn
    <3> QED BY <3>1, <3>2, <3>3
  <2> QED BY <2>5, <2>6, <2>7
<1>6. CASE request.priority = "prefetch" /\ k = [n EXCEPT !.maintenance = Append(n.maintenance, request)]
  <2> DEFINE m == Append(n.maintenance, request)
  <2>1. /\ m \in Seq(PagesUpTo(shownQuery) \cup {Other}) /\ ToSet(m) = ToSet(n.maintenance) \cup {request}
    BY <1>0, <1>4, <1>6, LastOf DEF LanesShape
  <2>2. k = [n EXCEPT !.maintenance = m]
    BY <1>6
  <2> HIDE DEF m
  <2>3. k.visible = n.visible /\ k.maintenance = m /\ k.newest = n.newest /\ k.answers = l.answers /\ IsLanes(k)
    BY <2>2, <1>4, <1>1 DEF IsLanes
  <2>4. LanesOK(k)
    BY <1>1, <1>4, <2>1, <2>3 DEF LanesOK, LanesShape
  <2>5. ASSUME NEW r, r.kind # "other", r.query = shownQuery
        PROVE  /\ Holds(k, r) <=> Holds(l, r) \/ r = request
               /\ r \in ToSet(k.visible) => r \in ToSet(l.visible)
               /\ OnceIn(l, r) => OnceIn(k, r)
    <3>1. Holds(k, r) <=> Holds(l, r) \/ r = request
      BY <1>1, <2>1, <2>3, <2>5 DEF Holds
    <3>2. r \in ToSet(k.visible) => r \in ToSet(l.visible)
      BY <1>1, <2>3, <2>5
    <3>3. OnceIn(l, r) => OnceIn(k, r)
      BY <1>1, <2>3, <2>5, <3>2 DEF OnceIn
    <3> QED BY <3>1, <3>2, <3>3
  <2> QED BY <2>3, <2>4, <2>5
<1>7. CASE k = [n EXCEPT !.visible = Append(n.visible, request)]
  <2> DEFINE v == Append(n.visible, request)
  <2>1. /\ v \in Seq(AskedUpTo(shownQuery) \cup {Other}) /\ ToSet(v) = ToSet(n.visible) \cup {request}
        /\ \A r : Once(n.visible, r) /\ (request = r => r \notin ToSet(n.visible)) => Once(v, r)
    BY <1>0, <1>4, LastOf DEF LanesShape
  <2>2. k = [n EXCEPT !.visible = v]
    BY <1>7
  <2> HIDE DEF v
  <2>3. k.visible = v /\ k.maintenance = n.maintenance /\ k.newest = n.newest /\ k.answers = l.answers /\ IsLanes(k)
    BY <2>2, <1>4, <1>1 DEF IsLanes
  <2>4. LanesOK(k)
    BY <1>1, <1>4, <2>1, <2>3 DEF LanesOK, LanesShape
  <2>5. ASSUME NEW r, r.kind # "other", r.query = shownQuery
        PROVE  /\ Holds(k, r) <=> Holds(l, r) \/ r = request
               /\ r \in ToSet(k.visible) => r \in ToSet(l.visible) \/ r = request
               /\ OnceIn(l, r) /\ (r = request => ~Holds(l, r)) => OnceIn(k, r)
    <3>1. Holds(k, r) <=> Holds(l, r) \/ r = request
      BY <1>1, <2>1, <2>3, <2>5 DEF Holds
    <3>2. r \in ToSet(k.visible) => r \in ToSet(l.visible) \/ r = request
      BY <1>1, <2>1, <2>3, <2>5
    <3>3. OnceIn(l, r) /\ (r = request => ~Holds(l, r)) => OnceIn(k, r)
      <4> SUFFICES ASSUME OnceIn(l, r), r = request => ~Holds(l, r) PROVE OnceIn(k, r)
        OBVIOUS
      <4>1. Once(n.visible, r) /\ (request = r => r \notin ToSet(n.visible))
        BY <1>1, <2>5 DEF OnceIn, Holds
      <4>2. Once(k.visible, r)
        BY <4>1, <2>1, <2>3
      <4>3. OneAnswer(k.answers, r)
        BY <2>3 DEF OnceIn
      <4>4. r \in ToSet(k.visible) => \A a \in DOMAIN k.answers : a.request # r
        BY <3>2, <2>3 DEF OnceIn, Holds
      <4> QED BY <4>2, <4>3, <4>4 DEF OnceIn
    <3> QED BY <3>1, <3>2, <3>3
  <2> QED BY <2>3, <2>4, <2>5
<1> QED BY <1>3, <1>5, <1>6, <1>7

-----------------------------------------------------------------------------
\* The steps.

\* Where the requests of the shown query are.
LEMMA AskedIs ==
  \A r : r \in Asked <=> /\ r.kind # "other" /\ r.query = shownQuery
                         /\ r \in ToSet(list.sent) \/ Holds(Lanes, r)
BY DEF Asked, Replied, Holds, Lanes

\* The lanes are well formed.
LEMMA LanesAre == ListShape => LanesOK(Lanes)
BY DEF ListShape, LanesOK, IsLanes, Lanes

\* The two requests of a reload and the startup's.
LEMMA TheRequestsAre ==
  ASSUME shownQuery \in Nat
  PROVE  /\ TheFirst.kind = "first" /\ TheFirst.page = 0 /\ TheFirst.query = shownQuery
         /\ TheCount.kind = "count" /\ TheCount.query = shownQuery
         /\ ThePrepared.kind = "prepared" /\ ThePrepared.query = shownQuery
         /\ TheFirst \in Asks(shownQuery) /\ TheCount \in Asks(shownQuery)
BY DEF TheFirst, TheCount, ThePrepared, Request, Asks

\* The maintenance lane has nothing but pages and others' requests.
LEMMA OneOfTheRest ==
  ASSUME NEW s \in Seq(PagesUpTo(newest) \cup {Other}), NEW r, r.kind \notin {"page", "other"}
  PROVE  r \notin ToSet(s)
<1>1. ToSet(s) = {s[i] : i \in 1 .. Len(s)} /\ \A i \in 1 .. Len(s) : s[i] \in PagesUpTo(newest) \cup {Other}
  BY ElementsOf
<1> QED BY <1>1, OthersAre DEF PagesUpTo

\* The list but for what it still sends.
SameBut(m, k) ==
  /\ Fields(k) /\ k.total = m.total /\ k.pages = m.pages /\ k.lru = m.lru /\ k.pending = m.pending
  /\ k.deferred = m.deferred /\ k.timer = m.timer

\* What holds of the list stays while it and its requests stay.
LEMMA QuietIs ==
  ASSUME ListInv, SameBut(list, list'), \A r : r \in Asked' <=> r \in Asked,
         UNCHANGED <<shownQuery, stored, outdated, forgotten>>
  PROVE  CacheHolds' /\ FirstComesFirst' /\ WaitingGoOn'
<1>0. /\ CacheHolds /\ FirstComesFirst /\ WaitingGoOn
      /\ Fields(list') /\ list'.total = list.total /\ list'.pages = list.pages /\ list'.lru = list.lru
      /\ list'.pending = list.pending /\ list'.deferred = list.deferred /\ list'.timer = list.timer
  BY DEF ListInv, SameBut
<1>1. (NothingShown <=> NothingShown')
  BY DEF NothingShown
<1>2. Cached(list)' /\ WithinLimits(list)' /\ Shows(list, shownQuery, NothingShown)'
  BY <1>0, <1>1 DEF CacheHolds, Cached, Tabled, WithinLimits, Shows
<1>3. CacheHolds'
  BY <1>0, <1>2 DEF CacheHolds
<1>4. TheFirst' = TheFirst /\ TheCount' = TheCount /\ ThePrepared' = ThePrepared
  BY DEF TheFirst, TheCount, ThePrepared
<1>5. Untouched(list) => Untouched(list)'
  BY <1>0 DEF Untouched
<1>6. FirstComesFirst'
  BY <1>0, <1>4, <1>5 DEF FirstComesFirst
<1>7. WaitingGoOn'
  BY <1>0 DEF WaitingGoOn
<1> QED BY <1>3, <1>6, <1>7

\* The GTK thread pushes a request.
LEMMA SendStep == ASSUME ListInv, Send PROVE ListInv'
<1> DEFINE q == Head(list.sent)
           l == Lanes
           k == Push(l, q)
<1>0. /\ ListShape /\ InOnePlace(TheFirst) /\ InOnePlace(TheCount) /\ AnswersAreTrue /\ CacheHolds
      /\ list.sent # <<>> /\ UNCHANGED <<shownQuery, stored, outdated, forgotten>>
      /\ list' = [list EXCEPT !.sent = Tail(list.sent)]
      /\ visible' = k.visible /\ maintenance' = k.maintenance /\ newest' = k.newest /\ answers' = k.answers
  BY DEF ListInv, Send
<1>1. /\ shownQuery \in Nat /\ list.sent \in Seq(Asks(shownQuery)) /\ LanesOK(l)
      /\ maintenance \in Seq(PagesUpTo(newest) \cup {Other})
  BY <1>0, LanesAre DEF ListShape, LanesShape
<1>2. /\ q \in Asks(shownQuery) /\ Tail(list.sent) \in Seq(Asks(shownQuery))
      /\ ToSet(list.sent) = ToSet(Tail(list.sent)) \cup {q}
      /\ \A r : Once(list.sent, r) => Once(Tail(list.sent), r) /\ (q = r => r \notin ToSet(Tail(list.sent)))
  BY <1>0, <1>1, FirstOf
<1>3. q.query = shownQuery /\ q.kind # "other" /\ q.kind \in {"page", "first", "count"}
  BY <1>1, <1>2, AsksAre
<1> DEFINE a == Answer(q, "full", 0)
<1> HIDE DEF q, l
<1>4. /\ LanesOK(k) /\ DOMAIN k.answers \subseteq DOMAIN l.answers \cup {a}
      /\ \A r : r.kind # "other" /\ r.query = shownQuery =>
           /\ Holds(k, r) <=> Holds(l, r) \/ r = q
           /\ r \in ToSet(k.visible) => r \in ToSet(l.visible) \/ r = q
           /\ OnceIn(l, r) /\ (r = q => ~Holds(l, r)) => OnceIn(k, r)
  BY <1>1, <1>2, PushIs
<1> HIDE DEF k, a
<1>5. /\ list'.total = list.total /\ list'.pages = list.pages /\ list'.lru = list.lru /\ list'.pending = list.pending
      /\ list'.deferred = list.deferred /\ list'.timer = list.timer /\ list'.sent = Tail(list.sent) /\ Fields(list')
  BY <1>0 DEF CacheHolds, Cached, Fields
<1>6. Lanes' = k
  BY <1>0, <1>4 DEF Lanes, LanesOK, IsLanes
<1>7. ListShape'
  BY <1>0, <1>1, <1>2, <1>4, <1>5 DEF ListShape, LanesOK
<1>8. ASSUME NEW r PROVE r \in Asked' <=> r \in Asked
  <2>1. r \in Asked' <=> r.kind # "other" /\ r.query = shownQuery /\ (r \in ToSet(list'.sent) \/ Holds(k, r))
    <3>1. r \in Asked' <=> /\ r.kind # "other" /\ r.query = shownQuery'
                           /\ \/ r \in ToSet(list'.sent) \/ r \in ToSet(visible') \/ r \in ToSet(maintenance')
                              \/ \E b \in DOMAIN answers' : b.request = r
      BY DEF Asked, Replied
    <3> QED BY <1>0, <3>1 DEF Holds
  <2>2. r \in Asked <=> r.kind # "other" /\ r.query = shownQuery /\ (r \in ToSet(list.sent) \/ Holds(l, r))
    BY AskedIs DEF l
  <2> QED BY <2>1, <2>2, <1>2, <1>4, <1>5
<1>9. CacheHolds' /\ FirstComesFirst' /\ WaitingGoOn'
  BY <1>0, <1>5, <1>8, QuietIs DEF SameBut
<1>10. AnswersAreTrue'
  <2>1. a.outcome = "full" /\ a.request.kind # "prepared"
    BY <1>3 DEF a, Answer
  <2>2. l.answers = answers
    BY DEF l, Lanes
  <2> QED BY <2>1, <2>2, <1>0, <1>4, <1>5 DEF AnswersAreTrue
<1>11. ASSUME NEW r, r.kind \in {"first", "count"}, r.query = shownQuery, InOnePlace(r)
       PROVE  InOnePlace(r)'
  <2>1. l.visible = visible /\ l.maintenance = maintenance /\ l.answers = answers
    BY DEF l, Lanes
  <2>2. OnceIn(l, r)
    BY <1>11, <2>1 DEF InOnePlace, OnceIn, Replied
  <2>3. r \notin ToSet(maintenance)
    BY <1>1, <1>11, OneOfTheRest
  <2>4. r \in ToSet(list.sent) => ~Holds(l, r)
    BY <1>11, <2>1, <2>3 DEF InOnePlace, Holds, Replied
  <2>5. /\ OnceIn(k, r) /\ (Holds(k, r) <=> Holds(l, r) \/ r = q)
    BY <1>2, <1>4, <1>11, <2>2, <2>4
  <2>6. Once(list'.sent, r) /\ (r \in ToSet(list'.sent) => r \in ToSet(list.sent) /\ r # q)
    BY <1>2, <1>5, <1>11 DEF InOnePlace
  <2>7. r \in ToSet(list'.sent) => ~Holds(k, r)
    BY <2>4, <2>5, <2>6
  <2> QED BY <1>0, <2>5, <2>6, <2>7 DEF InOnePlace, OnceIn, Holds, Replied
<1>12. InOnePlace(TheFirst)' /\ InOnePlace(TheCount)'
  <2>1. TheFirst' = TheFirst /\ TheCount' = TheCount
    BY <1>0 DEF TheFirst, TheCount
  <2>2. (InOnePlace(TheFirst))' /\ (InOnePlace(TheCount))'
    BY <2>1, <1>0, <1>1, <1>11, TheRequestsAre DEF InOnePlace, Replied
  <2> QED BY <2>2
<1> QED BY <1>7, <1>9, <1>10, <1>12 DEF ListInv

\* The request x leaves its lane.
Leaves(x) ==
  /\ x \in AskedUpTo(newest) \cup {Other}
  /\ LanesShape(visible', maintenance', newest)
  /\ \A r : r \in ToSet(visible) \/ r \in ToSet(maintenance) <=> r \in ToSet(visible') \/ r \in ToSet(maintenance') \/ r = x
  /\ \A r : r \in ToSet(visible') => r \in ToSet(visible)
  /\ \A r : r.kind \in {"first", "count"} /\ Once(visible, r) =>
       Once(visible', r) /\ (x = r => r \in ToSet(visible) /\ r \notin ToSet(visible'))

\* The store's worker takes the first request of a lane.
LEMMA ServeLeaves ==
  ASSUME ListShape, Serve
  PROVE  \E x : Leaves(x) /\ Reply(x, visible')
<1>0. /\ visible \in Seq(AskedUpTo(newest) \cup {Other}) /\ maintenance \in Seq(PagesUpTo(newest) \cup {Other})
  BY DEF ListShape, LanesShape
<1>1. CASE visible # <<>> /\ visible' = Tail(visible) /\ UNCHANGED maintenance /\ Reply(Head(visible), visible')
  <2> DEFINE x == Head(visible)
  <2>1. /\ x \in AskedUpTo(newest) \cup {Other} /\ Tail(visible) \in Seq(AskedUpTo(newest) \cup {Other})
        /\ ToSet(visible) = ToSet(Tail(visible)) \cup {x}
        /\ \A r : Once(visible, r) => Once(Tail(visible), r) /\ (x = r => r \notin ToSet(Tail(visible)))
    BY <1>0, <1>1, FirstOf
  <2> HIDE DEF x
  <2>2. Leaves(x)
    BY <1>0, <1>1, <2>1 DEF Leaves, LanesShape
  <2> QED BY <1>1, <2>2 DEF x
<1>2. CASE maintenance # <<>> /\ maintenance' = Tail(maintenance) /\ UNCHANGED visible /\ Reply(Head(maintenance), maintenance')
  <2> DEFINE x == Head(maintenance)
  <2>1. /\ x \in PagesUpTo(newest) \cup {Other} /\ Tail(maintenance) \in Seq(PagesUpTo(newest) \cup {Other})
        /\ ToSet(maintenance) = ToSet(Tail(maintenance)) \cup {x}
    BY <1>0, <1>2, FirstOf
  <2> HIDE DEF x
  <2>2. x \in AskedUpTo(newest) \cup {Other} /\ x.kind \in {"page", "other"}
    BY <2>1, OthersAre DEF PagesUpTo
  <2>3. Leaves(x)
    BY <1>0, <1>2, <2>1, <2>2 DEF Leaves, LanesShape
  <2>4. Reply(x, visible')
    BY <1>2 DEF Reply, x
  <2> QED BY <2>3, <2>4
<1> QED BY <1>1, <1>2 DEF Serve

\* What a reply adds to the answers.
LEMMA ReplyIs ==
  ASSUME NEW x, NEW rest, Reply(x, rest), ListShape, x \in AskedUpTo(newest) \cup {Other}
  PROVE  \/ x = Other /\ answers' = answers
         \/ /\ x \in AskedUpTo(newest)
            /\ \E a \in Replies(shownQuery) :
                 /\ a.request = x /\ answers' = answers (+) SetToBag({a})
                 /\ a.outcome = "ok" \/ a.request.kind = "prepared" => Truthful(a, stored)
<1>0. shownQuery \in Nat /\ stored \in Nat /\ newest \in 0 .. shownQuery
  BY DEF ListShape
<1>1. CASE x.kind = "other"
  <2>1. x \notin AskedUpTo(newest)
    BY <1>0, <1>1, AskedAre
  <2> QED BY <1>1, <2>1 DEF Reply
<1>2. CASE x.kind # "other"
  <2>1. x \in AskedUpTo(newest) /\ x \in AskedUpTo(shownQuery)
    BY <1>0, <1>2, AskedAre, OthersAre
  <2>2. x.page \in Nat /\ x.kind \in {"page", "first", "count"} /\ (x.kind = "first" => x.page = 0)
    BY <2>1 DEF AskedUpTo, Asks, PageAsks, Request
  <2> DEFINE n == IF x.kind = "count" THEN stored ELSE RowsOf(stored, x.page)
  <2>3. n \in Nat
    BY <1>0, <2>2, RowsAre
  <2>4. CASE answers' = answers (+) SetToBag({Answer(x, "ok", n)})
    <3> DEFINE a == Answer(x, "ok", n)
    <3>0. (x.kind = "count" => n = stored) /\ (x.kind = "first" => n = RowsOf(stored, 0))
      BY <2>2
    <3> HIDE DEF n
    <3>1. a \in Replies(shownQuery) /\ a.request = x /\ a.outcome = "ok" /\ a.rows = n
      BY <2>1, <2>3 DEF Replies, Answer, Outcomes
    <3> HIDE DEF a
    <3>2. Truthful(a, stored)
      BY <3>0, <3>1, <2>2 DEF Truthful
    <3>3. answers' = answers (+) SetToBag({a})
      BY <2>4 DEF a
    <3> QED BY <2>1, <3>1, <3>2, <3>3
  <2>5. CASE answers' = answers (+) SetToBag({Answer(x, "error", 0)})
    <3> DEFINE a == Answer(x, "error", 0)
    <3>1. a \in Replies(shownQuery) /\ a.request = x /\ a.outcome = "error" /\ x.kind # "prepared"
      BY <2>1, <2>2 DEF Replies, Answer, Outcomes
    <3>2. answers' = answers (+) SetToBag({a})
      BY <2>5
    <3> HIDE DEF a
    <3> QED BY <2>1, <3>1, <3>2
  <2> QED BY <1>2, <2>4, <2>5 DEF Reply
<1> QED BY <1>1, <1>2

\* The store's worker answers a request.
LEMMA ServeStep == ASSUME ListInv, Serve PROVE ListInv'
<1>0. /\ ListShape /\ InOnePlace(TheFirst) /\ InOnePlace(TheCount) /\ AnswersAreTrue /\ CacheHolds
      /\ UNCHANGED <<list, shownQuery, newest, stored, outdated, forgotten>>
  BY DEF ListInv, Serve
<1>1. PICK x : Leaves(x) /\ Reply(x, visible')
  BY <1>0, ServeLeaves
<1>2. x \in AskedUpTo(newest) \cup {Other} /\ shownQuery \in Nat /\ newest \in 0 .. shownQuery /\ AnswersShape(answers, shownQuery)
  BY <1>0, <1>1 DEF Leaves, ListShape
<1>3. /\ AnswersShape(answers', shownQuery)
      /\ \A r : r.kind # "other" => (r \in Replied' <=> r \in Replied \/ r = x)
      /\ \A r : OneAnswer(answers, r) /\ (x = r => r \notin Replied) => OneAnswer(answers', r)
      /\ \A a \in DOMAIN answers' : a \in DOMAIN answers \/ (a.outcome = "ok" \/ a.request.kind = "prepared" => Truthful(a, stored))
  <2>1. CASE x = Other /\ answers' = answers
    BY <2>1, <1>2, OthersAre DEF Replied
  <2>2. CASE x \in AskedUpTo(newest) /\ \E a \in Replies(shownQuery) :
               /\ a.request = x /\ answers' = answers (+) SetToBag({a})
               /\ a.outcome = "ok" \/ a.request.kind = "prepared" => Truthful(a, stored)
    <3>1. PICK a \in Replies(shownQuery) :
               /\ a.request = x /\ answers' = answers (+) SetToBag({a})
               /\ a.outcome = "ok" \/ a.request.kind = "prepared" => Truthful(a, stored)
      BY <2>2
    <3>2. /\ IsABag(answers') /\ DOMAIN answers' = DOMAIN answers \cup {a}
          /\ \A r : OneAnswer(answers, r) /\ (a.request = r => \A b \in DOMAIN answers : b.request # r) => OneAnswer(answers', r)
      BY <3>1, <1>2, AnswerAdded DEF AnswersShape
    <3>3. AnswersShape(answers', shownQuery)
      BY <3>2, <1>2 DEF AnswersShape
    <3>4. \A r : r \in Replied' <=> r \in Replied \/ r = x
      BY <3>1, <3>2 DEF Replied
    <3>5. \A r : OneAnswer(answers, r) /\ (x = r => r \notin Replied) => OneAnswer(answers', r)
      BY <3>1, <3>2 DEF Replied
    <3> QED BY <3>1, <3>2, <3>3, <3>4, <3>5
  <2> QED BY <1>0, <1>1, <1>2, <2>1, <2>2, ReplyIs
<1>4. ListShape'
  BY <1>0, <1>1, <1>3 DEF ListShape, Leaves
<1>5. ASSUME NEW r PROVE r \in Asked' <=> r \in Asked
  BY <1>0, <1>1, <1>3 DEF Asked, Leaves
<1>6. SameBut(list, list')
  BY <1>0 DEF SameBut, CacheHolds, Cached
<1>7. CacheHolds' /\ FirstComesFirst' /\ WaitingGoOn'
  BY <1>0, <1>5, <1>6, QuietIs
<1>8. AnswersAreTrue'
  BY <1>0, <1>3 DEF AnswersAreTrue
<1>9. ASSUME NEW r, r.kind \in {"first", "count"}, InOnePlace(r)
      PROVE  InOnePlace(r)'
  <2>1. /\ Once(visible', r) /\ (x = r => r \in ToSet(visible) /\ r \notin ToSet(visible'))
        /\ r \in ToSet(visible') => r \in ToSet(visible)
    BY <1>1, <1>9 DEF Leaves, InOnePlace
  <2>2. OneAnswer(answers', r) /\ (r \in Replied' <=> r \in Replied \/ r = x)
    BY <1>3, <1>9, <2>1 DEF InOnePlace
  <2> QED BY <1>0, <1>9, <2>1, <2>2 DEF InOnePlace
<1>10. InOnePlace(TheFirst)' /\ InOnePlace(TheCount)'
  <2>1. TheFirst' = TheFirst /\ TheCount' = TheCount
    BY <1>0 DEF TheFirst, TheCount
  <2> QED BY <2>1, <1>0, <1>2, <1>9, TheRequestsAre DEF InOnePlace, Replied
<1> QED BY <1>4, <1>7, <1>8, <1>10 DEF ListInv

\* Requests of others, and changes of the library.
LEMMA OthersAsk == ASSUME ListInv, OtherVisible \/ OtherMaintenance PROVE ListInv'
<1>0. /\ ListShape /\ InOnePlace(TheFirst) /\ InOnePlace(TheCount) /\ AnswersAreTrue /\ CacheHolds
      /\ UNCHANGED <<list, shownQuery, newest, answers, stored, outdated, forgotten>>
  BY DEF ListInv, OtherVisible, OtherMaintenance
<1>1. /\ visible \in Seq(AskedUpTo(newest) \cup {Other}) /\ maintenance \in Seq(PagesUpTo(newest) \cup {Other})
  BY <1>0 DEF ListShape, LanesShape
<1>2. /\ LanesShape(visible', maintenance', newest)
      /\ \A r : r.kind # "other" => /\ r \in ToSet(visible') <=> r \in ToSet(visible)
                                    /\ r \in ToSet(maintenance') <=> r \in ToSet(maintenance)
                                    /\ Once(visible, r) => Once(visible', r)
  <2>1. CASE OtherVisible
    <3>1. visible' = Append(visible, Other) /\ maintenance' = maintenance
      BY <2>1 DEF OtherVisible
    <3>2. /\ visible' \in Seq(AskedUpTo(newest) \cup {Other}) /\ ToSet(visible') = ToSet(visible) \cup {Other}
          /\ \A r : Once(visible, r) /\ (Other = r => r \notin ToSet(visible)) => Once(visible', r)
      BY <1>1, <3>1, LastOf
    <3> QED BY <1>1, <3>1, <3>2, OthersAre DEF LanesShape
  <2>2. CASE OtherMaintenance
    <3>1. maintenance' = Append(maintenance, Other) /\ visible' = visible
      BY <2>2 DEF OtherMaintenance
    <3>2. /\ maintenance' \in Seq(PagesUpTo(newest) \cup {Other}) /\ ToSet(maintenance') = ToSet(maintenance) \cup {Other}
      BY <1>1, <3>1, LastOf
    <3> QED BY <1>1, <3>1, <3>2, OthersAre DEF LanesShape
  <2> QED BY <2>1, <2>2
<1>4. ListShape'
  BY <1>0, <1>2 DEF ListShape
<1>5. ASSUME NEW r PROVE r \in Asked' <=> r \in Asked
  BY <1>0, <1>2 DEF Asked, Replied
<1>6. SameBut(list, list')
  BY <1>0 DEF SameBut, CacheHolds, Cached
<1>7. CacheHolds' /\ FirstComesFirst' /\ WaitingGoOn'
  BY <1>0, <1>5, <1>6, QuietIs
<1>8. AnswersAreTrue'
  BY <1>0 DEF AnswersAreTrue
<1>9. InOnePlace(TheFirst)' /\ InOnePlace(TheCount)'
  <2>1. TheFirst' = TheFirst /\ TheCount' = TheCount /\ TheFirst.kind = "first" /\ TheCount.kind = "count"
    BY <1>0 DEF TheFirst, TheCount, Request
  <2> QED BY <2>1, <1>0, <1>2 DEF InOnePlace, Replied
<1> QED BY <1>4, <1>7, <1>8, <1>9 DEF ListInv

\* The library changes.
LEMMA ChangeStep == ASSUME ListInv, LibraryChanges PROVE ListInv'
<1>0. /\ ListShape /\ InOnePlace(TheFirst) /\ InOnePlace(TheCount) /\ CacheHolds /\ FirstComesFirst /\ WaitingGoOn
      /\ UNCHANGED <<list, shownQuery, visible, maintenance, newest, answers, forgotten>>
      /\ outdated' = TRUE /\ stored' \in Sizes
  BY DEF ListInv, LibraryChanges, lanes
<1>1. stored' \in Nat
  BY <1>0, PagedListAssumption
<1>2. ListShape'
  BY <1>0, <1>1 DEF ListShape
<1>3. TheFirst' = TheFirst /\ TheCount' = TheCount /\ ThePrepared' = ThePrepared /\ Asked' = Asked /\ Replied' = Replied
  BY <1>0 DEF TheFirst, TheCount, ThePrepared, Asked, Replied
<1>4. CacheHolds'
  BY <1>0, <1>3 DEF CacheHolds, NothingShown, Cached, Tabled, Shows, WithinLimits, Fields
<1>5. InOnePlace(TheFirst)' /\ InOnePlace(TheCount)'
  BY <1>0, <1>3 DEF InOnePlace
<1>6. FirstComesFirst' /\ WaitingGoOn' /\ AnswersAreTrue'
  BY <1>0, <1>3 DEF FirstComesFirst, WaitingGoOn, AnswersAreTrue, Untouched
<1> QED BY <1>2, <1>4, <1>5, <1>6 DEF ListInv

-----------------------------------------------------------------------------
\* The callbacks and events of the GTK thread.

AskedPages == {p \in Nat : \E r \in Asked : AsksPage(r) /\ r.page = p}

\* What the invariant says of the fields when the GTK thread is free.
LEMMA ListIsGood == ASSUME ListInv, list.sent = <<>> PROVE Good(list, AskedPages, NothingShown)
<1>1. ListShape /\ CacheHolds
  BY DEF ListInv
<1>2. list.sent \in Seq(PageAsks(shownQuery))
  OBVIOUS
<1>3. list.pending \subseteq Nat
  BY <1>1 DEF CacheHolds, Cached, Fields
<1>4. Covered(list, AskedPages)
  BY <1>1, <1>2, <1>3 DEF Covered, CacheHolds, AskedPages
<1> QED BY <1>1, <1>4 DEF Good, CacheHolds

\* The answers but for some to the request x.
Fewer(x) ==
  /\ IsABag(answers') /\ DOMAIN answers' \subseteq DOMAIN answers
  /\ \A a \in DOMAIN answers : a.request # x => a \in DOMAIN answers'
  /\ \A r : OneAnswer(answers, r) => OneAnswer(answers', r)

\* The list becomes one that asks for pages.
Becomes(x, V) ==
  /\ list.sent = <<>>
  /\ UNCHANGED <<shownQuery, visible, maintenance, newest, stored, outdated>>
  /\ forgotten' \in BOOLEAN /\ (forgotten => forgotten')
  /\ Fewer(x) /\ Good(list', V, NothingShown)
  /\ \A p \in V : \E r \in Asked : AsksPage(r) /\ r.page = p /\ r # x
  /\ ~outdated /\ stored = 0 => list'.total = 0

\* An event or a callback that ends with a sound cache and leaves the
\* requests where they are, all but the answered x.
LEMMA BecomesIs ==
  ASSUME ListInv, NEW x, NEW V, Becomes(x, V)
  PROVE  /\ ListShape' /\ InOnePlace(TheFirst)' /\ InOnePlace(TheCount)' /\ AnswersAreTrue' /\ CacheHolds'
         /\ \A r \in Asked : r # x => r \in Asked'
         /\ \A r \in Asked' : r \in Asked \/ r \in PageAsks(shownQuery)
         /\ Waits(list') => WaitingGoOn'
<1>0. /\ ListShape /\ InOnePlace(TheFirst) /\ InOnePlace(TheCount) /\ AnswersAreTrue
      /\ list.sent = <<>> /\ Fewer(x) /\ Good(list', V, NothingShown)
      /\ UNCHANGED <<shownQuery, visible, maintenance, newest, stored, outdated>>
      /\ forgotten' \in BOOLEAN /\ shownQuery \in Nat
      /\ ~outdated /\ stored = 0 => list'.total = 0
  BY DEF ListInv, Becomes, ListShape
<1>1. list'.sent \in Seq(PageAsks(shownQuery)) /\ list'.sent \in Seq(Asks(shownQuery))
  <2>1. list'.sent \in Seq(PageAsks(shownQuery))
    BY <1>0 DEF Good, Covered
  <2> QED BY <2>1, SeqMono DEF Asks
<1>2. ToSet(list'.sent) \subseteq PageAsks(shownQuery)
  BY <1>1, ElementsOf
<1>3. ListShape'
  BY <1>0, <1>1 DEF ListShape, AnswersShape, Fewer
<1>4. ToSet(list.sent) = {}
  BY <1>0 DEF ToSet
<1>5. \A r \in Asked' : r \in Asked \/ r \in PageAsks(shownQuery)
  BY <1>0, <1>2 DEF Asked, Replied, Fewer
<1>6. \A r \in Asked : r # x => r \in Asked'
  BY <1>0, <1>4 DEF Asked, Replied, Fewer
<1>7. AnswersAreTrue'
  BY <1>0 DEF AnswersAreTrue, Fewer
<1>8. ASSUME NEW p \in list'.pending PROVE \E r \in Asked' : AsksPage(r) /\ r.page = p
  <2>1. p \in V \/ \E i \in DOMAIN list'.sent : list'.sent[i].page = p
    BY <1>0 DEF Good, Covered
  <2>2. CASE p \in V
    BY <2>2, <1>6 DEF Becomes
  <2>3. CASE \E i \in DOMAIN list'.sent : list'.sent[i].page = p
    <3>1. PICK i \in DOMAIN list'.sent : list'.sent[i].page = p
      BY <2>3
    <3>2. PICK r : r = list'.sent[i]
      OBVIOUS
    <3>3. r \in ToSet(list'.sent) /\ r \in PageAsks(shownQuery)
      BY <1>2, <3>2 DEF ToSet
    <3>4. r.kind = "page" /\ r.query = shownQuery
      BY <3>3 DEF PageAsks
    <3>5. r \in Asked'
      BY <1>0, <3>3, <3>4 DEF Asked
    <3> QED BY <3>1, <3>2, <3>4, <3>5 DEF AsksPage
  <2> QED BY <2>1, <2>2, <2>3
<1>9. CacheHolds'
  <2>1. NothingShown' <=> NothingShown
    BY <1>0 DEF NothingShown
  <2>2. Cached(list)' /\ WithinLimits(list)' /\ Shows(list, shownQuery, NothingShown)'
    BY <1>0, <2>1 DEF Good, Cached, Fields, Tabled, WithinLimits, Shows
  <2> QED BY <1>8, <2>2 DEF CacheHolds
<1>10. Waits(list') => WaitingGoOn'
  BY <1>8 DEF Waits, WaitingGoOn
<1>11. ASSUME NEW r, r.kind # "page", InOnePlace(r) PROVE InOnePlace(r)'
  <2>1. r \notin ToSet(list'.sent)
    BY <1>2, <1>11 DEF PageAsks
  <2>2. Once(list'.sent, r)
    BY <2>1 DEF Once, ToSet
  <2>3. \A y : y \in Replied' => y \in Replied
    BY <1>0 DEF Replied, Fewer
  <2> QED BY <1>0, <1>11, <2>1, <2>2, <2>3 DEF InOnePlace, Fewer
<1>12. InOnePlace(TheFirst)' /\ InOnePlace(TheCount)'
  <2>1. TheFirst' = TheFirst /\ TheCount' = TheCount /\ TheFirst.kind = "first" /\ TheCount.kind = "count"
    BY <1>0 DEF TheFirst, TheCount, Request
  <2> QED BY <2>1, <1>0, <1>11 DEF InOnePlace, Replied
<1> QED BY <1>3, <1>5, <1>6, <1>7, <1>9, <1>10, <1>12

\* The order of what comes stays when the number of rows does.
LEMMA OrderStays ==
  ASSUME ListInv, NEW x, NEW V, Becomes(x, V), list'.total = list.total,
         TheFirst \notin Asked \/ list.total # 0 \/ TheFirst \notin Asked'
  PROVE  FirstComesFirst'
<1>0. /\ FirstComesFirst /\ shownQuery' = shownQuery
      /\ \A r \in Asked' : r \in Asked \/ r \in PageAsks(shownQuery)
  BY BecomesIs DEF ListInv, Becomes
<1>1. TheFirst' = TheFirst /\ TheCount' = TheCount /\ ThePrepared' = ThePrepared
  BY <1>0 DEF TheFirst, TheCount, ThePrepared
<1>2. /\ TheFirst \in Asked' => TheFirst \in Asked
      /\ TheCount \in Asked' => TheCount \in Asked
      /\ ThePrepared \in Asked' => ThePrepared \in Asked
  <2>1. TheFirst.kind = "first" /\ TheCount.kind = "count" /\ ThePrepared.kind = "prepared"
    BY DEF TheFirst, TheCount, ThePrepared, Request
  <2>2. TheFirst \notin PageAsks(shownQuery) /\ TheCount \notin PageAsks(shownQuery) /\ ThePrepared \notin PageAsks(shownQuery)
    BY <2>1 DEF PageAsks
  <2> QED BY <1>0, <2>2
<1> QED BY <1>0, <1>1, <1>2 DEF FirstComesFirst

\* Events that are no answers.
LEMMA EventIs ==
  ASSUME ListInv, list.sent = <<>>,
         UNCHANGED <<shownQuery, visible, maintenance, newest, answers, stored, outdated, forgotten>>,
         Good(list', AskedPages, NothingShown), list'.total = list.total,
         ~(list.total = 0 /\ Untouched(list)),
         Waits(list') \/ (list'.deferred = list.deferred /\ list'.timer = list.timer)
  PROVE  ListInv'
<1>0. /\ ListShape /\ AnswersAreTrue /\ FirstComesFirst /\ WaitingGoOn
  BY DEF ListInv
<1>1. Fewer(Other)
  BY <1>0 DEF Fewer, ListShape, AnswersShape
<1>2. \A p \in AskedPages : \E r \in Asked : AsksPage(r) /\ r.page = p /\ r # Other
  BY OthersAre DEF AskedPages, AsksPage
<1>3. Becomes(Other, AskedPages)
  BY <1>0, <1>1, <1>2 DEF Becomes, AnswersAreTrue, ListShape
<1> DEFINE V == AskedPages
<1> HIDE DEF V
<1>4. /\ ListShape' /\ InOnePlace(TheFirst)' /\ InOnePlace(TheCount)' /\ AnswersAreTrue' /\ CacheHolds'
      /\ \A r \in Asked : r # Other => r \in Asked'
      /\ Waits(list') => WaitingGoOn'
  BY <1>3, BecomesIs
<1>5. TheFirst \notin Asked \/ list.total # 0
  BY <1>0 DEF FirstComesFirst
<1>6. FirstComesFirst'
  BY <1>3, <1>5, OrderStays
<1>7. WaitingGoOn'
  <2>1. CASE list'.deferred = list.deferred /\ list'.timer = list.timer
    BY <1>0, <1>4, <2>1, OthersAre DEF WaitingGoOn, AsksPage
  <2> QED BY <2>1, <1>4
<1> QED BY <1>4, <1>6, <1>7 DEF ListInv

\* No rows, no pages.
LEMMA NoPagesOfNone == PageCount(0) = 0
<1>1. \A n \in Nat \ {0} : (n - 1) \div n = 0
  OBVIOUS
<1>2. 0 + PageSize - 1 = PageSize - 1
  BY LimitsAre
<1> QED BY <1>1, <1>2, LimitsAre DEF PageCount

\* A row is bound to the screen.
LEMMA LoadPositionStep == ASSUME ListInv, LoadPosition PROVE ListInv'
<1>1. PICK p \in 0 .. PageCount(list.total) - 1 : Become(Schedule(Defer(list, p)))
  BY DEF LoadPosition
<1>2. /\ list.sent = <<>> /\ list' = Schedule(Defer(list, p))
      /\ UNCHANGED <<shownQuery, visible, maintenance, newest, answers, stored, outdated, forgotten>>
  BY <1>1 DEF Become, LoadPosition, lanes
<1>3. Good(list, AskedPages, NothingShown)
  BY <1>2, ListIsGood
<1> DEFINE d == Defer(list, p)
           V == AskedPages
           q == NothingShown
<1> HIDE DEF V, q
<1>4. p \in Nat
  OBVIOUS
<1>5. Good(d, V, q) /\ d.total = list.total
  BY <1>3, <1>4, DeferIs DEF V, q
<1> HIDE DEF d
<1>6. list' = Schedule(d)
  BY <1>2 DEF d
<1>7. Good(list', V, q) /\ Scheduled(d, list')
  BY <1>5, <1>6, ScheduleIs
<1>8. list.total # 0
  BY <1>1, NoPagesOfNone
<1>9. Waits(list') /\ list'.total = list.total
  BY <1>5, <1>7 DEF Waits, Scheduled
<1>10. ~(list.total = 0 /\ Untouched(list))
  BY <1>8
<1>11. Waits(list') \/ (list'.deferred = list.deferred /\ list'.timer = list.timer)
  BY <1>9
<1>12. Good(list', V, q)
  BY <1>7
<1>13. list'.total = list.total
  BY <1>9
<1> QED BY <1>2, <1>10, <1>11, <1>12, <1>13, EventIs DEF V, q

\* The debounce timer fires.
LEMMA LoadDeferredStep == ASSUME ListInv, LoadDeferred PROVE ListInv'
<1>2. /\ list.sent = <<>> /\ list' = Drain(Fired(list)) /\ list.timer
      /\ UNCHANGED <<shownQuery, visible, maintenance, newest, answers, stored, outdated, forgotten>>
  BY DEF LoadDeferred, Become, lanes, Fired
<1> DEFINE d == Fired(list)
           V == AskedPages
           q == NothingShown
<1> HIDE DEF V, q
<1>3. Good(list, V, q)
  BY <1>2, ListIsGood DEF V, q
<1>5. Good(d, V, q) /\ d.total = list.total /\ d.timer = FALSE
  BY <1>3, FiredIs
<1> HIDE DEF d
<1>6. list' = Drain(d)
  BY <1>2 DEF d
<1>7. /\ Good(list', V, q) /\ list'.total = d.total /\ list'.timer = d.timer
      /\ d.timer \/ list'.deferred = <<>> \/ list'.pending # {}
  BY <1>5, <1>6, DrainIs
<1>8. ~Untouched(list)
  BY <1>2 DEF Untouched
<1>9. Waits(list') /\ list'.total = list.total
  BY <1>5, <1>7 DEF Waits
<1>10. ~(list.total = 0 /\ Untouched(list))
  BY <1>8
<1>11. Waits(list') \/ (list'.deferred = list.deferred /\ list'.timer = list.timer)
  BY <1>9
<1>12. Good(list', V, q)
  BY <1>7
<1>13. list'.total = list.total
  BY <1>9
<1> QED BY <1>2, <1>10, <1>11, <1>12, <1>13, EventIs DEF V, q

\* A failed page is asked for again.
LEMMA RetryStep == ASSUME ListInv, Retry PROVE ListInv'
<1>1. PICK p \in DOMAIN list.pages : list.pages[p].state = "failed" /\ Become(Ensure(Evict(list, p), p, "visible"))
  BY DEF Retry
<1>2. /\ list.sent = <<>> /\ list' = Ensure(Evict(list, p), p, "visible")
      /\ UNCHANGED <<shownQuery, visible, maintenance, newest, answers, stored, outdated, forgotten>>
  BY <1>1 DEF Become, Retry, lanes
<1> DEFINE d == Evict(list, p)
           V == AskedPages
           W == AllBut(V, p)
           q == NothingShown
<1> HIDE DEF V, q
<1>3. Good(list, V, q)
  BY <1>2, ListIsGood DEF V, q
<1>4. p \in Nat
  BY <1>3 DEF Good, Cached, Tabled
<1>5. Good(d, W, q) /\ Alike(list, d)
  BY <1>3, <1>4, EvictIs
<1> HIDE DEF d, W
<1>6. list' = Ensure(d, p, "visible")
  BY <1>2 DEF d
<1>7. /\ Good(list', W, q) /\ list'.total = d.total /\ list'.timer = d.timer
      /\ list'.deferred = d.deferred \/ list'.pending # {}
  <2>1. PICK priority \in {"visible", "prefetch"} : list' = Ensure(d, p, priority)
    BY <1>6
  <2> QED BY <2>1, <1>4, <1>5, EnsureIs
<1>8. ~Untouched(list)
  BY <1>1 DEF Untouched
<1>9. Good(list', V, q)
  BY <1>7 DEF Good, Covered, W, AllBut
<1>10. (Waits(list') \/ (list'.deferred = list.deferred /\ list'.timer = list.timer)) /\ list'.total = list.total
  BY <1>5, <1>7 DEF Waits, Alike
<1> QED BY <1>2, <1>8, <1>9, <1>10, EventIs DEF V, q

\* A row of a loaded page is edited.
LEMMA ReplaceRowStep == ASSUME ListInv, ReplaceRow PROVE ListInv'
<1>1. PICK p \in DOMAIN list.pages, payload \in Payloads :
        /\ list.pages[p].loaded > 0
        /\ Become(Touch([list EXCEPT !.pages = With(list.pages, p, [list.pages[p] EXCEPT !.payload = payload])], p))
  BY DEF ReplaceRow
<1> DEFINE r == [list.pages[p] EXCEPT !.payload = payload]
           V == AskedPages
           q == NothingShown
<1>2. /\ list.sent = <<>> /\ list' = Touch([list EXCEPT !.pages = With(list.pages, p, r)], p)
      /\ UNCHANGED <<shownQuery, visible, maintenance, newest, answers, stored, outdated, forgotten>>
  BY <1>1 DEF Become, ReplaceRow, lanes
<1> HIDE DEF V, q
<1>3. Good(list, V, q)
  BY <1>2, ListIsGood DEF V, q
<1>4. p \in Nat /\ list.pages[p] \in PageRecords /\ payload \in Nat
  BY <1>3, PagedListAssumption DEF Good, Cached, Tabled
<1>5. r \in PageRecords /\ r.state = list.pages[p].state /\ r.query = list.pages[p].query
  BY <1>4 DEF PageRecords
<1> HIDE DEF r
<1>6. Cached(list) /\ Covered(list, V) /\ ShowsBut(list, shownQuery, q, p)
  BY <1>3 DEF Good, Shows, ShowsBut
<1>7. PICK t : t = list'
  OBVIOUS
<1>8. /\ Cached(t) /\ WithinLimits(t) /\ Alike(list, t)
      /\ Covered(t, V) /\ ShowsBut(t, shownQuery, q, p)
      /\ p \in DOMAIN t.pages => t.pages[p] = r /\ (p \in list.pending => p \in t.pending)
  BY <1>2, <1>4, <1>5, <1>6, <1>7, PutIs
<1>9. Shows(t, shownQuery, q)
  BY <1>3, <1>5, <1>8 DEF Good, Shows, ShowsBut
<1>10. Good(list', V, q) /\ list'.total = list.total /\ list'.deferred = list.deferred /\ list'.timer = list.timer
  BY <1>7, <1>8, <1>9 DEF Good, Alike
<1>11. ~Untouched(list)
  <2>1. list.pages[p].loaded # 0
    BY <1>1
  <2> QED BY <2>1 DEF Untouched
<1> QED BY <1>2, <1>10, <1>11, EventIs DEF V, q

\* An answer of the shown query comes.
Comes(a) ==
  /\ a \in DOMAIN answers /\ answers' = answers (-) SetToBag({a})
  /\ list.sent = <<>>
  /\ UNCHANGED <<shownQuery, visible, maintenance, newest, stored, outdated>>
  /\ forgotten' = (forgotten \/ (LeavesWaiting(a) /\ list.deferred # <<>>))
  /\ a.request.query = shownQuery

\* The answer a callback takes, and the requests left.
LEMMA TakenIs ==
  ASSUME ListInv, NEW a \in DOMAIN answers, answers' = answers (-) SetToBag({a}), list.sent = <<>>
  PROVE  /\ Fewer(a.request) /\ a \in Replies(shownQuery)
         /\ InOnePlace(a.request) /\ a.request.kind \in {"first", "count"}
              => a.request \notin ToSet(visible) /\ a.request \notin ToSet(maintenance) /\ a.request \notin Replied'
<1>0. AnswersShape(answers, shownQuery) /\ maintenance \in Seq(PagesUpTo(newest) \cup {Other})
  BY DEF ListInv, ListShape, LanesShape
<1>1. PICK B : B = answers
  OBVIOUS
<1>2. PICK C : C = answers'
  OBVIOUS
<1>3. /\ IsABag(C) /\ DOMAIN C \subseteq DOMAIN B
      /\ \A b \in DOMAIN B : b # a => b \in DOMAIN C
      /\ \A r : OneAnswer(B, r) => OneAnswer(C, r) /\ (a.request = r => \A b \in DOMAIN C : b.request # r)
  <2>1. IsABag(B) /\ a \in DOMAIN B /\ C = B (-) SetToBag({a})
    BY <1>0, <1>1, <1>2 DEF AnswersShape
  <2> QED BY <2>1, AnswerTaken
<1>4. Fewer(a.request)
  BY <1>1, <1>2, <1>3 DEF Fewer
<1>5. a \in Replies(shownQuery)
  BY <1>0 DEF AnswersShape
<1>6. ASSUME InOnePlace(a.request), a.request.kind \in {"first", "count"}
      PROVE  a.request \notin ToSet(visible) /\ a.request \notin ToSet(maintenance) /\ a.request \notin Replied'
  <2>1. a.request \in Replied
    BY DEF Replied
  <2>2. a.request \notin ToSet(visible)
    BY <1>6, <2>1 DEF InOnePlace
  <2>3. a.request \notin ToSet(maintenance)
    <3>1. PICK r : r = a.request
      OBVIOUS
    <3> QED BY <3>1, <1>0, <1>6, OneOfTheRest
  <2>4. a.request \notin Replied'
    BY <1>1, <1>2, <1>3, <1>6 DEF InOnePlace, Replied
  <2> QED BY <2>2, <2>3, <2>4
<1> QED BY <1>4, <1>5, <1>6

\* What an answer is the answer to.
LEMMA AnswersTo ==
  ASSUME ListInv, NEW a, Comes(a)
  PROVE  /\ Fewer(a.request) /\ a.rows \in Nat /\ a.outcome \in Outcomes /\ a.request \in Asked
         /\ a.request \in PageAsks(shownQuery) \/ a.request = TheFirst \/ a.request = TheCount \/ a.request = ThePrepared
         /\ a.request \in {TheFirst, TheCount} => a.request \notin Asked' \/ a.request \in ToSet(list'.sent)
         /\ ~outdated /\ (a.outcome = "ok" \/ a.request.kind = "prepared") => Truthful(a, stored)
<1>0. /\ a \in DOMAIN answers /\ answers' = answers (-) SetToBag({a}) /\ list.sent = <<>>
      /\ UNCHANGED <<shownQuery, visible, maintenance>> /\ a.request.query = shownQuery
      /\ shownQuery \in Nat /\ InOnePlace(TheFirst) /\ InOnePlace(TheCount) /\ AnswersAreTrue
  BY DEF Comes, ListInv, ListShape
<1>1. /\ Fewer(a.request) /\ a \in Replies(shownQuery)
      /\ InOnePlace(a.request) /\ a.request.kind \in {"first", "count"}
           => a.request \notin ToSet(visible) /\ a.request \notin ToSet(maintenance) /\ a.request \notin Replied'
  BY <1>0, TakenIs
<1>2. /\ a.rows \in Nat /\ a.outcome \in Outcomes
      /\ a.request \in AskedUpTo(shownQuery) \cup {Request("prepared", 0, "none", x) : x \in 0 .. shownQuery}
  BY <1>1 DEF Replies
<1>3. a.request \in PageAsks(shownQuery) \/ a.request = TheFirst \/ a.request = TheCount \/ a.request = ThePrepared
  <2>1. CASE a.request \in AskedUpTo(shownQuery)
    <3>1. a.request \in Asks(shownQuery)
      BY <1>0, <2>1, AskedAre
    <3> QED BY <3>1 DEF Asks, TheFirst, TheCount
  <2>2. CASE a.request \in {Request("prepared", 0, "none", x) : x \in 0 .. shownQuery}
    <3>1. PICK x \in 0 .. shownQuery : a.request = Request("prepared", 0, "none", x)
      BY <2>2
    <3>2. a.request.query = x
      BY <3>1 DEF Request
    <3> QED BY <3>1, <3>2, <1>0 DEF ThePrepared
  <2> QED BY <1>2, <2>1, <2>2
<1>4. a.request \in Asked
  <2>1. a.request.kind # "other"
    BY <1>3, <1>0, TheRequestsAre DEF PageAsks
  <2> QED BY <1>0, <2>1 DEF Asked, Replied
<1>5. ASSUME a.request \in {TheFirst, TheCount}, a.request \notin ToSet(list'.sent)
      PROVE  a.request \notin Asked'
  <2>1. a.request \notin ToSet(visible) /\ a.request \notin ToSet(maintenance) /\ a.request \notin Replied'
    BY <1>0, <1>1, <1>5, TheRequestsAre
  <2>2. maintenance' = maintenance
    BY <1>0
  <2> QED BY <1>0, <1>5, <2>1 DEF Asked
<1>6. ~outdated /\ (a.outcome = "ok" \/ a.request.kind = "prepared") => Truthful(a, stored)
  BY <1>0 DEF AnswersAreTrue
<1> QED BY <1>1, <1>2, <1>3, <1>4, <1>5, <1>6

\* Pages under way but for one, and but for no page.
LEMMA PagesBut ==
  ASSUME NEW x, AsksPage(x) => x.page \in Nat, NEW p \in AllBut(AskedPages, x.page)
  PROVE  \E r \in Asked : AsksPage(r) /\ r.page = p /\ r # x
BY DEF AllBut, AskedPages
\* An answer that is not for a page leaves the pages' requests.
LEMMA PagesAll ==
  ASSUME NEW x, ~AsksPage(x), NEW p \in AskedPages
  PROVE  \E r \in Asked : AsksPage(r) /\ r.page = p /\ r # x
BY DEF AskedPages

\* The answer to ensure_page's request comes.
LEMMA PageAnswered ==
  ASSUME ListInv, NEW a, Comes(a), a.request \in PageAsks(shownQuery), NEW payload \in Nat,
         list' = LoadedPage(list, a, payload)
  PROVE  ListInv'
<1>0. /\ ListShape /\ AnswersAreTrue /\ FirstComesFirst /\ list.sent = <<>>
      /\ shownQuery \in Nat /\ forgotten \in BOOLEAN
      /\ UNCHANGED <<shownQuery, visible, maintenance, newest, stored, outdated>>
      /\ forgotten' = (forgotten \/ (LeavesWaiting(a) /\ list.deferred # <<>>))
  BY DEF ListInv, Comes, ListShape
<1>1. Fewer(a.request) /\ a.rows \in Nat /\ a.outcome \in Outcomes /\ a.request \in Asked
  BY AnswersTo
<1> DEFINE x == a.request
           V == AskedPages
           W == AllBut(V, x.page)
           q == NothingShown
           k == LoadedPage(list, a, payload)
<1>2. Good(list, V, q)
  BY <1>0, ListIsGood
<1> HIDE DEF V, q
<1>3. /\ Good(k, AllBut(V, a.request.page), q) /\ k.total = list.total
      /\ Waits(k) \/ (LeavesWaiting(a) /\ k.deferred = list.deferred)
  BY <1>0, <1>1, <1>2, LoadedPageIs
<1> HIDE DEF k
<1>4. list' = k
  BY DEF k
<1>5. \A p \in W : \E r \in Asked : AsksPage(r) /\ r.page = p /\ r # x
  BY PagesBut DEF PageAsks, V
<1>6. Becomes(x, W)
  BY <1>0, <1>1, <1>3, <1>4, <1>5 DEF Becomes, AnswersAreTrue, q
<1> HIDE DEF W, x
<1>7. TheFirst \notin Asked \/ list.total # 0
  BY <1>1 DEF FirstComesFirst, PageAsks, ListInv
<1>8. FirstComesFirst'
  BY <1>3, <1>4, <1>6, <1>7, OrderStays
<1>9. /\ ListShape' /\ InOnePlace(TheFirst)' /\ InOnePlace(TheCount)' /\ AnswersAreTrue' /\ CacheHolds'
      /\ Waits(list') => WaitingGoOn'
  BY <1>6, BecomesIs
<1>10. WaitingGoOn'
  <2>1. CASE Waits(list')
    BY <1>9, <2>1
  <2>2. CASE LeavesWaiting(a) /\ list'.deferred = list.deferred
    BY <1>0, <2>2 DEF WaitingGoOn
  <2> QED BY <1>3, <1>4, <2>1, <2>2
<1> QED BY <1>8, <1>9, <1>10 DEF ListInv

\* Page 0 has no rows only if there are none.
LEMMA NoRowsOfNone == ASSUME NEW n \in Nat, RowsOf(n, 0) = 0 PROVE n = 0
<1>1. 0 * PageSize = 0
  BY LimitsAre
<1> QED BY <1>1, LimitsAre DEF RowsOf, Capped

FirstDone(m, a, V, idle, k) ==
  /\ Good(k, AllBut(V, 0), idle)
  /\ a.outcome = "ok" /\ m.total = 0 => k.total = a.rows /\ k.deferred = m.deferred
  /\ ~(a.outcome = "ok" /\ m.total = 0) =>
       k.total = m.total /\ (Waits(k) \/ (LeavesWaiting(a) /\ k.deferred = m.deferred))

\* What the callback of page 0 does, in one formula.
LEMMA FirstPageDone ==
  ASSUME NEW m, NEW V, NEW idle, NEW a, NEW payload \in Nat, shownQuery \in Nat, Good(m, V, idle),
         a.request = TheFirst, a.rows \in Nat, a.outcome \in Outcomes, NoneIsIdle(a, idle)
  PROVE  FirstDone(m, a, V, idle, FirstPage(m, a, payload))
<1>1. a.request = Request("first", 0, "visible", shownQuery)
  BY DEF TheFirst
<1>2. LET k == FirstPage(m, a, payload)
      IN  /\ Good(k, AllBut(V, 0), idle)
          /\ a.outcome = "ok" /\ m.total = 0 => k.total = a.rows /\ k.deferred = m.deferred
          /\ ~(a.outcome = "ok" /\ m.total = 0) =>
               k.total = m.total /\ (Waits(k) \/ (LeavesWaiting(a) /\ k.deferred = m.deferred))
  BY <1>1, FirstPageIs
<1> QED BY <1>2 DEF FirstDone

\* The answer to reload's request for page 0 comes.
LEMMA FirstArrives ==
  ASSUME ListInv, NEW a, Comes(a), a.request = TheFirst, NEW payload \in Nat,
         list' = FirstPage(list, a, payload)
  PROVE  ListInv'
<1>0. /\ ListShape /\ AnswersAreTrue /\ FirstComesFirst /\ list.sent = <<>>
      /\ shownQuery \in Nat /\ stored \in Nat /\ forgotten \in BOOLEAN
      /\ UNCHANGED <<shownQuery, visible, maintenance, newest, stored, outdated>>
      /\ forgotten' = (forgotten \/ (LeavesWaiting(a) /\ list.deferred # <<>>))
  BY DEF ListInv, Comes, ListShape
<1>1. /\ Fewer(a.request) /\ a.rows \in Nat /\ a.outcome \in Outcomes /\ a.request \in Asked
      /\ a.request \notin Asked' \/ a.request \in ToSet(list'.sent)
      /\ ~outdated /\ a.outcome = "ok" => Truthful(a, stored)
  BY AnswersTo
<1>2. TheFirst.kind = "first" /\ TheFirst.page = 0 /\ AsksPage(TheFirst)
  BY <1>0, TheRequestsAre DEF AsksPage
<1>3. ~outdated /\ a.outcome = "ok" => a.rows = RowsOf(stored, 0)
  BY <1>1, <1>2 DEF Truthful
<1> DEFINE V == AskedPages
           W == AllBut(V, 0)
           q == NothingShown
           k == FirstPage(list, a, payload)
<1>4. NoneIsIdle(a, q)
  <2> SUFFICES ASSUME a.outcome = "ok", a.rows = 0, ~outdated PROVE stored = 0
    BY DEF NothingShown, NoneIsIdle
  <2>1. RowsOf(stored, 0) = 0
    BY <1>3
  <2> QED BY <2>1, <1>0, NoRowsOfNone
<1>5. Good(list, V, q)
  BY <1>0, ListIsGood
<1> HIDE DEF V, q
<1>6. /\ Good(k, AllBut(V, 0), q)
      /\ a.outcome = "ok" /\ list.total = 0 => k.total = a.rows /\ k.deferred = list.deferred
      /\ ~(a.outcome = "ok" /\ list.total = 0) =>
           k.total = list.total /\ (Waits(k) \/ (LeavesWaiting(a) /\ k.deferred = list.deferred))
  <2>1. shownQuery \in Nat /\ a.rows \in Nat /\ a.outcome \in Outcomes
    BY <1>0, <1>1
  <2>2. FirstDone(list, a, V, q, k)
    BY <2>1, <1>4, <1>5, FirstPageDone
  <2> QED BY <2>2 DEF FirstDone
<1> HIDE DEF k
<1>7. list' = k
  BY DEF k
<1>8. \A p \in W : \E r \in Asked : AsksPage(r) /\ r.page = p /\ r # a.request
  BY <1>2, PagesBut DEF V
<1>9. ~outdated /\ stored = 0 => list'.total = 0
  BY <1>0, <1>3, <1>6, <1>7, RowsAre DEF AnswersAreTrue
<1>10. Becomes(a.request, W)
  BY <1>0, <1>1, <1>6, <1>7, <1>8, <1>9 DEF Becomes, q
<1> HIDE DEF W
<1>11. /\ ListShape' /\ InOnePlace(TheFirst)' /\ InOnePlace(TheCount)' /\ AnswersAreTrue' /\ CacheHolds'
       /\ \A r \in Asked' : r \in Asked \/ r \in PageAsks(shownQuery)
       /\ Waits(list') => WaitingGoOn'
  BY <1>10, BecomesIs
<1>12. TheFirst \notin Asked'
  <2>1. list'.sent \in Seq(PageAsks(shownQuery))
    BY <1>6, <1>7 DEF Good, Covered
  <2>2. TheFirst \notin ToSet(list'.sent)
    <3>1. /\ ToSet(list'.sent) = {list'.sent[i] : i \in 1 .. Len(list'.sent)}
          /\ \A i \in 1 .. Len(list'.sent) : list'.sent[i] \in PageAsks(shownQuery)
      BY <2>1, ElementsOf
    <3>2. TheFirst \notin PageAsks(shownQuery)
      BY <1>2 DEF PageAsks
    <3> QED BY <3>1, <3>2
  <2> QED BY <1>1, <2>2
<1>13. TheFirst' = TheFirst /\ TheCount' = TheCount /\ ThePrepared' = ThePrepared
  BY <1>0 DEF TheFirst, TheCount, ThePrepared
<1>14. FirstComesFirst'
  <2>1. ThePrepared \notin PageAsks(shownQuery)
    BY DEF ThePrepared, PageAsks, Request
  <2>2. ThePrepared \notin Asked'
    BY <1>0, <1>1, <1>11, <2>1 DEF FirstComesFirst
  <2> QED BY <1>12, <1>13, <2>2 DEF FirstComesFirst
<1>15. WaitingGoOn'
  <2>1. CASE a.outcome = "ok" /\ list.total = 0
    <3>1. list.deferred = <<>>
      BY <1>0, <1>1, <2>1 DEF FirstComesFirst, Untouched
    <3> QED BY <3>1, <2>1, <1>6, <1>7 DEF WaitingGoOn
  <2>2. CASE ~(a.outcome = "ok" /\ list.total = 0) /\ Waits(k)
    BY <2>2, <1>7, <1>11
  <2>3. CASE LeavesWaiting(a) /\ k.deferred = list.deferred
    BY <1>0, <1>7, <2>3 DEF WaitingGoOn
  <2> QED BY <1>6, <2>1, <2>2, <2>3
<1> QED BY <1>11, <1>14, <1>15 DEF ListInv

\* The number of rows comes.
LEMMA CountArrives ==
  ASSUME ListInv, NEW a, Comes(a), a.request = TheCount, list' = RowCount(list, a)
  PROVE  ListInv'
<1>0. /\ ListShape /\ AnswersAreTrue /\ FirstComesFirst /\ WaitingGoOn /\ list.sent = <<>>
      /\ shownQuery \in Nat /\ stored \in Nat /\ forgotten \in BOOLEAN
      /\ UNCHANGED <<shownQuery, visible, maintenance, newest, stored, outdated>>
      /\ forgotten' = (forgotten \/ (LeavesWaiting(a) /\ list.deferred # <<>>))
  BY DEF ListInv, Comes, ListShape
<1>1. /\ Fewer(a.request) /\ a.rows \in Nat /\ a.outcome \in Outcomes /\ a.request \in Asked
      /\ a.request \notin Asked' \/ a.request \in ToSet(list'.sent)
      /\ ~outdated /\ a.outcome = "ok" => Truthful(a, stored)
  BY AnswersTo
<1>2. TheCount.kind = "count" /\ ~AsksPage(TheCount)
  BY <1>0, TheRequestsAre DEF AsksPage
<1>3. ~outdated /\ a.outcome = "ok" => a.rows = stored
  BY <1>1, <1>2 DEF Truthful
<1> DEFINE V == AskedPages
           q == NothingShown
<1>5. Good(list, V, q)
  BY <1>0, ListIsGood
<1> HIDE DEF V, q
<1>6. /\ list'.total = IF a.outcome = "ok" THEN a.rows ELSE list.total
      /\ list'.pages = list.pages /\ list'.lru = list.lru /\ list'.pending = list.pending
      /\ list'.deferred = list.deferred /\ list'.timer = list.timer /\ list'.sent = list.sent /\ Fields(list')
  BY <1>1, <1>5 DEF RowCount, Good, Cached, Fields
<1>7. Good(list', V, q)
  BY <1>5, <1>6, SameCache
<1>8. \A p \in V : \E r \in Asked : AsksPage(r) /\ r.page = p /\ r # a.request
  BY <1>2, PagesAll DEF V
<1>9. ~outdated /\ stored = 0 => list'.total = 0
  BY <1>0, <1>3, <1>6 DEF AnswersAreTrue
<1>10. Becomes(a.request, V)
  BY <1>0, <1>1, <1>7, <1>8, <1>9 DEF Becomes, q
<1>11. /\ ListShape' /\ InOnePlace(TheFirst)' /\ InOnePlace(TheCount)' /\ AnswersAreTrue' /\ CacheHolds'
       /\ \A r \in Asked : r # a.request => r \in Asked'
  BY <1>10, BecomesIs
<1>12. ToSet(list'.sent) = {}
  BY <1>0, <1>6 DEF ToSet
<1>13. TheCount \notin Asked' /\ \A r \in Asked' : r \in Asked
  BY <1>0, <1>1, <1>12 DEF Asked, Replied, Fewer
<1>14. TheFirst' = TheFirst /\ TheCount' = TheCount /\ ThePrepared' = ThePrepared
  BY <1>0 DEF TheFirst, TheCount, ThePrepared
<1>15. FirstComesFirst'
  <2>1. TheFirst \in Asked => list.total = 0 /\ Untouched(list) /\ \A r \in Asked : r.kind # "page"
    BY <1>0, <1>1 DEF FirstComesFirst
  <2>2. Untouched(list) => Untouched(list')
    BY <1>6 DEF Untouched
  <2>3. ThePrepared \notin Asked
    BY <1>0, <1>1 DEF FirstComesFirst
  <2>4. TheFirst \in Asked' => Untouched(list') /\ \A r \in Asked' : r.kind # "page"
    BY <2>1, <2>2, <1>13
  <2> QED BY <2>3, <2>4, <1>13, <1>14 DEF FirstComesFirst
<1>16. WaitingGoOn'
  BY <1>0, <1>2, <1>6, <1>11 DEF WaitingGoOn
<1> QED BY <1>11, <1>15, <1>16 DEF ListInv

\* The startup's page comes.
LEMMA PreparedArrives ==
  ASSUME ListInv, NEW a, Comes(a), a.request = ThePrepared, NEW payload \in Nat,
         list' = PreparedPage(list, a, payload)
  PROVE  ListInv'
<1>0. /\ ListShape /\ AnswersAreTrue /\ FirstComesFirst /\ WaitingGoOn /\ list.sent = <<>>
      /\ shownQuery \in Nat /\ stored \in Nat /\ forgotten \in BOOLEAN
      /\ UNCHANGED <<shownQuery, visible, maintenance, newest, stored, outdated>>
      /\ forgotten' = (forgotten \/ (LeavesWaiting(a) /\ list.deferred # <<>>))
  BY DEF ListInv, Comes, ListShape
<1>1. ThePrepared.kind = "prepared" /\ ~AsksPage(ThePrepared) /\ ThePrepared.query = shownQuery
  BY <1>0, TheRequestsAre DEF AsksPage
<1>2. /\ Fewer(a.request) /\ a.rows \in Nat /\ a.request \in Asked
      /\ ~outdated => Truthful(a, stored)
  BY <1>1, AnswersTo
<1>3. ~outdated => a.rows = stored
  BY <1>1, <1>2 DEF Truthful
<1> DEFINE V == AskedPages
           q == NothingShown
           k == PreparedPage(list, a, payload)
<1>5. Good(list, V, q)
  BY <1>0, ListIsGood
<1> HIDE DEF V, q
<1>6. /\ Good(k, V, q) /\ k.total = IF list.total = 0 THEN a.rows ELSE list.total
      /\ k.deferred = list.deferred /\ k.timer = list.timer
  <2>1. a.request.query = shownQuery
    BY <1>1
  <2> QED BY <2>1, <1>0, <1>2, <1>5, PreparedPageIs
<1> HIDE DEF k
<1>7. list' = k
  BY DEF k
<1>8. \A p \in V : \E r \in Asked : AsksPage(r) /\ r.page = p /\ r # a.request
  BY <1>1, PagesAll DEF V
<1>9. ~outdated /\ stored = 0 => list'.total = 0
  BY <1>0, <1>3, <1>6, <1>7 DEF AnswersAreTrue
<1>10. Becomes(a.request, V)
  BY <1>0, <1>2, <1>6, <1>7, <1>8, <1>9 DEF Becomes, q
<1>11. /\ ListShape' /\ InOnePlace(TheFirst)' /\ InOnePlace(TheCount)' /\ AnswersAreTrue' /\ CacheHolds'
       /\ \A r \in Asked : r # a.request => r \in Asked'
       /\ \A r \in Asked' : r \in Asked \/ r \in PageAsks(shownQuery)
  BY <1>10, BecomesIs
<1>12. TheFirst \notin Asked' /\ TheCount \notin Asked'
  <2>1. TheFirst \notin PageAsks(shownQuery) /\ TheCount \notin PageAsks(shownQuery)
    BY DEF TheFirst, TheCount, PageAsks, Request
  <2> QED BY <2>1, <1>0, <1>2, <1>11 DEF FirstComesFirst
<1>13. TheFirst' = TheFirst /\ TheCount' = TheCount
  BY <1>0 DEF TheFirst, TheCount
<1>14. FirstComesFirst'
  BY <1>12, <1>13 DEF FirstComesFirst
<1>15. WaitingGoOn'
  BY <1>0, <1>1, <1>6, <1>7, <1>11 DEF WaitingGoOn
<1> QED BY <1>11, <1>14, <1>15 DEF ListInv

\* The answer to a query that is shown no more.
LEMMA StaleArrives ==
  ASSUME ListInv, NEW a \in DOMAIN answers, answers' = answers (-) SetToBag({a}), a.request.query # shownQuery,
         Become(list), UNCHANGED <<shownQuery, stored, outdated, forgotten>>
  PROVE  ListInv'
<1>0. /\ ListShape /\ AnswersAreTrue /\ list.sent = <<>>
      /\ UNCHANGED <<list, shownQuery, visible, maintenance, newest, stored, outdated, forgotten>>
      /\ CacheHolds
  BY DEF ListInv, Become, lanes
<1>1. Fewer(a.request)
  BY <1>0, TakenIs
<1> DEFINE V == AskedPages
<1>2. Good(list', V, NothingShown)
  BY <1>0, ListIsGood
<1>3. \A p \in V : \E r \in Asked : AsksPage(r) /\ r.page = p /\ r # a.request
  BY DEF AskedPages, Asked
<1> HIDE DEF V
<1>4. Becomes(a.request, V)
  BY <1>0, <1>1, <1>2, <1>3 DEF Becomes, AnswersAreTrue, ListShape
<1>5. /\ ListShape' /\ InOnePlace(TheFirst)' /\ InOnePlace(TheCount)' /\ AnswersAreTrue'
      /\ \A r \in Asked : r # a.request => r \in Asked'
  BY <1>4, BecomesIs
<1>6. \A r : r \in Asked' <=> r \in Asked
  <2>1. \A r \in Asked : r # a.request
    BY DEF Asked
  <2>2. \A r \in Asked' : r \in Asked
    BY <1>0, <1>1 DEF Asked, Replied, Fewer
  <2> QED BY <1>5, <2>1, <2>2
<1>7. SameBut(list, list')
  BY <1>0 DEF SameBut, CacheHolds, Cached
<1>8. CacheHolds' /\ FirstComesFirst' /\ WaitingGoOn'
  BY <1>0, <1>6, <1>7, QuietIs
<1> QED BY <1>5, <1>8 DEF ListInv

\* A callback runs.
LEMMA ArriveStep == ASSUME ListInv, Arrive PROVE ListInv'
<1>1. PICK a \in DOMAIN answers :
        /\ answers' = answers (-) SetToBag({a})
        /\ \/ /\ a.request.query = shownQuery
              /\ \E payload \in Payloads : Become(Callback(list, a, payload))
              /\ forgotten' = (forgotten \/ (LeavesWaiting(a) /\ list.deferred # <<>>))
           \/ /\ a.request.query # shownQuery
              /\ Become(list)
              /\ UNCHANGED forgotten
  BY DEF Arrive, BagToSet
<1>2. UNCHANGED <<shownQuery, stored, outdated>>
  BY DEF Arrive
<1>3. CASE a.request.query # shownQuery
  BY <1>1, <1>2, <1>3, StaleArrives
<1>4. CASE a.request.query = shownQuery
  <2>1. PICK payload \in Payloads : Become(Callback(list, a, payload))
    BY <1>1, <1>4
  <2>2. Comes(a) /\ list' = Callback(list, a, payload) /\ payload \in Nat
    BY <1>1, <1>2, <1>4, <2>1, PagedListAssumption DEF Comes, Become, lanes
  <2>3. a.request \in PageAsks(shownQuery) \/ a.request = TheFirst \/ a.request = TheCount \/ a.request = ThePrepared
    BY <2>2, AnswersTo
  <2>4. CASE a.request \in PageAsks(shownQuery)
    <3>1. a.request.kind = "page"
      BY <2>4 DEF PageAsks
    <3>2. list' = LoadedPage(list, a, payload)
      BY <2>2, <3>1 DEF Callback
    <3> QED BY <2>2, <2>4, <3>2, PageAnswered
  <2>5. CASE a.request = TheFirst
    <3>1. a.request.kind = "first"
      BY <2>5 DEF TheFirst, Request
    <3>2. list' = FirstPage(list, a, payload)
      BY <2>2, <3>1 DEF Callback
    <3> QED BY <2>2, <2>5, <3>2, FirstArrives
  <2>6. CASE a.request = TheCount
    <3>1. a.request.kind = "count"
      BY <2>6 DEF TheCount, Request
    <3>2. list' = RowCount(list, a)
      BY <2>2, <3>1 DEF Callback
    <3> QED BY <2>2, <2>6, <3>2, CountArrives
  <2>7. CASE a.request = ThePrepared
    <3>1. a.request.kind = "prepared"
      BY <2>7 DEF ThePrepared, Request
    <3>2. list' = PreparedPage(list, a, payload)
      BY <2>2, <3>1 DEF Callback
    <3> QED BY <2>2, <2>7, <3>2, PreparedArrives
  <2> QED BY <2>3, <2>4, <2>5, <2>6, <2>7
<1> QED BY <1>3, <1>4

\* A list of which nothing is known, and one whose first page is asked for.
LEMMA EmptyIs ==
  ASSUME NEW q, NEW idle
  PROVE  Cached(EmptyList) /\ WithinLimits(EmptyList) /\ Shows(EmptyList, q, idle)
<1>1. DOMAIN EmptyList.pages = {} /\ EmptyList.lru = <<>> /\ EmptyList.pending = {}
  BY DEF EmptyList
<1>2. Fields(EmptyList)
  BY DEF EmptyList, Fields
<1>3. Tabled(EmptyList)
  BY DEF EmptyList, Tabled
<1>4. Cached(EmptyList)
  BY <1>1, <1>2, <1>3 DEF Cached, IsInjective
<1>5. CachedPayload(EmptyList.pages) = 0
  <2>1. Units(EmptyList.pages) = {}
    BY <1>1 DEF Units
  <2> QED BY <2>1, PayloadIs, FS_EmptySet
<1>6. WithinLimits(EmptyList)
  BY <1>1, <1>5, LimitsAre DEF WithinLimits
<1> QED BY <1>1, <1>4, <1>6 DEF Shows

\* The list of a reload that asks the store.
LEMMA ReloadedIs ==
  ASSUME NEW q, NEW idle, NEW x
  PROVE  /\ Cached(Reloaded(x)) /\ WithinLimits(Reloaded(x)) /\ Shows(Reloaded(x), q, idle)
         /\ Untouched(Reloaded(x)) /\ Reloaded(x).total = 0 /\ Reloaded(x).pending = {0}
         /\ Reloaded(x).sent = FirstRequests(x)
<1> DEFINE r == Placeholders(PageSize)
           f == [p \in {0} |-> r]
           m == Reloaded(x)
<1>1. /\ m.pages = f /\ m.lru = <<0>> /\ m.pending = {0} /\ m.total = 0 /\ m.sent = FirstRequests(x)
      /\ m.deferred = <<>> /\ m.timer = FALSE
  BY DEF Reloaded
<1>2. r \in PageRecords /\ r.payload = 0 /\ r.state = "loading" /\ r.loaded = 0
  BY LimitsAre, RecordsAre DEF Placeholders
<1> HIDE DEF r
<1>3. DOMAIN f = {0} /\ f[0] = r /\ f \in [{0} -> PageRecords]
  BY <1>2
<1> HIDE DEF f
<1>4. Fields(m)
  BY DEF Reloaded, Fields
<1> HIDE DEF m
<1>5. ToSet(<<0>>) = {0} /\ IsInjective(<<0>>) /\ Len(<<0>>) = 1
  BY DEF ToSet, IsInjective
<1>6. Cached(m)
  BY <1>1, <1>3, <1>4, <1>5 DEF Cached, Tabled
<1>7. CachedPayload(m.pages) = 0
  <2>1. UnitsOf(m.pages, 0) = {}
    BY <1>1, <1>2, <1>3 DEF UnitsOf
  <2>2. Units(m.pages) = {}
    BY <1>1, <1>3, <2>1 DEF Units
  <2> QED BY <2>2, PayloadIs, FS_EmptySet
<1>8. WithinLimits(m)
  BY <1>1, <1>5, <1>7, LimitsAre DEF WithinLimits
<1>9. Shows(m, q, idle) /\ Untouched(m)
  BY <1>1, <1>2, <1>3 DEF Shows, Untouched
<1> QED BY <1>1, <1>6, <1>8, <1>9 DEF m

\* The invariant holds at the start.
LEMMA InitIs == ASSUME ListInit PROVE ListInv
<1>1. /\ list = EmptyList /\ shownQuery = 0 /\ visible = <<>> /\ maintenance = <<>> /\ newest = 0
      /\ answers = EmptyBag /\ stored \in Nat /\ outdated = FALSE /\ forgotten = FALSE
  BY PagedListAssumption DEF ListInit
<1>2. DOMAIN answers = {} /\ IsABag(answers)
  BY <1>1 DEF EmptyBag, SetToBag, IsABag
<1>3. /\ list.sent = <<>> /\ list.total = 0 /\ list.deferred = <<>> /\ list.pending = {}
  BY <1>1 DEF EmptyList
<1>4. ListShape
  <2>1. \A S : <<>> \in Seq(S)
    OBVIOUS
  <2>2. LanesShape(visible, maintenance, newest)
    BY <1>1, <2>1 DEF LanesShape
  <2>3. AnswersShape(answers, shownQuery)
    BY <1>2 DEF AnswersShape
  <2>4. list.sent \in Seq(Asks(shownQuery))
    BY <1>3, <2>1
  <2>5. newest \in 0 .. shownQuery /\ shownQuery \in Nat /\ stored \in Nat
    BY <1>1
  <2>6. outdated \in BOOLEAN /\ forgotten \in BOOLEAN
    BY <1>1
  <2> QED BY <2>2, <2>3, <2>4, <2>5, <2>6 DEF ListShape
<1>5. Asked = {} /\ Replied = {}
  BY <1>1, <1>2, <1>3 DEF Asked, Replied, ToSet
<1>6. \A r : InOnePlace(r)
  BY <1>1, <1>2, <1>3, <1>5 DEF InOnePlace, Once, OneAnswer, ToSet
<1>7. CacheHolds
  BY <1>1, <1>3, EmptyIs DEF CacheHolds
<1>8. AnswersAreTrue /\ FirstComesFirst /\ WaitingGoOn
  BY <1>2, <1>3, <1>5 DEF AnswersAreTrue, FirstComesFirst, WaitingGoOn
<1> QED BY <1>4, <1>6, <1>7, <1>8 DEF ListInv

\* Another query is shown.
LEMMA ReloadStep == ASSUME ListInv, Reload PROVE ListInv'
<1> DEFINE q == shownQuery + 1
<1>0. /\ ListShape /\ shownQuery \in Nat /\ stored \in Nat /\ newest \in 0 .. shownQuery
      /\ AnswersShape(answers, shownQuery) /\ LanesShape(visible, maintenance, newest)
      /\ UNCHANGED <<visible, maintenance, newest, stored>>
      /\ shownQuery' = q /\ outdated' = FALSE /\ forgotten' = FALSE
  BY DEF ListInv, ListShape, Reload, Become, lanes
<1>1. \/ /\ list' = EmptyList
         /\ answers' = answers (+) SetToBag({Answer(Request("prepared", 0, "none", q), "ok", stored)})
      \/ list' = Reloaded(q) /\ answers' = answers
  BY DEF Reload, Become
<1> DEFINE first == Request("first", 0, "visible", q)
           count == Request("count", 0, "visible", q)
           ready == Request("prepared", 0, "none", q)
<1>2. /\ first.kind = "first" /\ first.page = 0 /\ first.query = q /\ count.kind = "count" /\ count.query = q
      /\ ready.kind = "prepared" /\ ready.query = q /\ first # count
  BY DEF Request
<1>3. TheFirst' = first /\ TheCount' = count /\ ThePrepared' = ready
  BY <1>0 DEF TheFirst, TheCount, ThePrepared
<1>4. FirstRequests(q) = <<first, count>>
  BY DEF FirstRequests
<1>5. first \in Asks(q) /\ count \in Asks(q) /\ q \in Nat /\ newest \in Nat /\ newest < q
  BY <1>0 DEF Asks
<1> HIDE DEF first, count
<1>6. ASSUME NEW r, r.query = q, r.kind # "other"
      PROVE  r \notin ToSet(visible) /\ r \notin ToSet(maintenance) /\ r \notin Replied
  <2>1. visible \in Seq(AskedUpTo(newest) \cup {Other}) /\ maintenance \in Seq(AskedUpTo(newest) \cup {Other})
    <3>1. maintenance \in Seq(PagesUpTo(newest) \cup {Other})
      BY <1>0 DEF LanesShape
    <3> QED BY <1>0, <3>1, SeqMono DEF LanesShape, PagesUpTo
  <2>2. r \notin ToSet(visible) /\ r \notin ToSet(maintenance)
    BY <2>1, <1>5, <1>6, NoneOf
  <2>3. \A a \in DOMAIN answers : a.request.query \in 0 .. shownQuery
    <3> SUFFICES ASSUME NEW a \in DOMAIN answers PROVE a.request.query \in 0 .. shownQuery
      OBVIOUS
    <3>1. a \in Replies(shownQuery)
      BY <1>0 DEF AnswersShape
    <3>2. a.request \in AskedUpTo(shownQuery) \/ \E x \in 0 .. shownQuery : a.request = Request("prepared", 0, "none", x)
      BY <3>1 DEF Replies
    <3>3. CASE a.request \in AskedUpTo(shownQuery)
      BY <3>3, <1>0, AskedAre
    <3>4. ASSUME NEW x \in 0 .. shownQuery, a.request = Request("prepared", 0, "none", x)
          PROVE  a.request.query = x
      BY <3>4 DEF Request
    <3> QED BY <3>2, <3>3, <3>4
  <2>4. r \notin Replied
    BY <2>3, <1>0, <1>6 DEF Replied
  <2> QED BY <2>2, <2>4
<1>7. Replies(shownQuery) \subseteq Replies(q)
  <2>1. AskedUpTo(shownQuery) \subseteq AskedUpTo(q)
    BY <1>0, AskedAre
  <2>2. {Request("prepared", 0, "none", x) : x \in 0 .. shownQuery} \subseteq {Request("prepared", 0, "none", x) : x \in 0 .. q}
    BY <1>0
  <2> QED BY <2>1, <2>2 DEF Replies
<1>8. LanesShape(visible', maintenance', newest')
  BY <1>0
<1>9. CASE list' = Reloaded(q) /\ answers' = answers
  <2> HIDE DEF q
  <2>1. /\ Cached(list') /\ WithinLimits(list') /\ Shows(list', q, NothingShown')
        /\ Untouched(list') /\ list'.total = 0 /\ list'.pending = {0}
        /\ list'.sent = <<first, count>> /\ list'.deferred = <<>>
    BY <1>4, <1>9, ReloadedIs DEF Untouched
  <2>2. /\ list'.sent \in Seq(Asks(q)) /\ ToSet(list'.sent) = {first, count}
        /\ Once(list'.sent, first) /\ Once(list'.sent, count)
    BY <2>1, <1>2, <1>5 DEF ToSet, Once
  <2>3. AnswersShape(answers', q)
    BY <1>0, <1>7, <1>9 DEF AnswersShape
  <2>4. ListShape'
    <3>1. newest' \in 0 .. shownQuery' /\ shownQuery' \in Nat /\ stored' \in Nat
      BY <1>0, <1>5
    <3>2. outdated' \in BOOLEAN /\ forgotten' \in BOOLEAN
      BY <1>0
    <3>3. list'.sent \in Seq(Asks(shownQuery')) /\ AnswersShape(answers', shownQuery')
      BY <1>0, <2>2, <2>3
    <3> QED BY <1>8, <3>1, <3>2, <3>3 DEF ListShape
  <2>5. Replied' = Replied
    BY <1>9 DEF Replied
  <2>6. Asked' = {first, count}
    <3>1. \A r : r \in Asked' <=> r.kind # "other" /\ r.query = q
            /\ (r \in {first, count} \/ r \in ToSet(visible) \/ r \in ToSet(maintenance) \/ r \in Replied)
      BY <1>0, <2>2, <2>5 DEF Asked
    <3> QED BY <3>1, <1>2, <1>6
  <2>7. ASSUME NEW r \in {first, count} PROVE InOnePlace(r)'
    <3>1. r \notin ToSet(visible) /\ r \notin ToSet(maintenance) /\ r \notin Replied
      BY <1>2, <1>6
    <3>2. Once(visible', r) /\ OneAnswer(answers', r) /\ r \notin ToSet(visible')
      BY <1>0, <1>9, <3>1 DEF Once, OneAnswer, ToSet, Replied
    <3> QED BY <2>2, <2>5, <3>1, <3>2 DEF InOnePlace
  <2>8. InOnePlace(TheFirst)' /\ InOnePlace(TheCount)'
    BY <1>3, <2>7 DEF InOnePlace, Replied
  <2>9. AnswersAreTrue'
    <3>1. \A a \in DOMAIN answers' : a.request.query = q /\ a.request.kind # "other" => FALSE
      BY <1>6, <1>9 DEF Replied
    <3>2. \A a \in DOMAIN answers' : a.request.kind = "other" => Truthful(a, stored')
      BY DEF Truthful
    <3> QED BY <1>0, <2>1, <3>1, <3>2 DEF AnswersAreTrue
  <2>10. CacheHolds'
    <3>1. first \in Asked' /\ AsksPage(first) /\ first.page = 0
      BY <1>2, <2>6 DEF AsksPage
    <3> QED BY <1>0, <2>1, <3>1 DEF CacheHolds
  <2>11. FirstComesFirst' /\ WaitingGoOn'
    BY <1>2, <1>3, <2>1, <2>6 DEF FirstComesFirst, WaitingGoOn, ready
  <2> QED BY <2>4, <2>8, <2>9, <2>10, <2>11 DEF ListInv
<1>10. CASE /\ list' = EmptyList
            /\ answers' = answers (+) SetToBag({Answer(Request("prepared", 0, "none", q), "ok", stored)})
  <2> DEFINE a == Answer(ready, "ok", stored)
  <2>1. a.request = ready /\ a.outcome = "ok" /\ a.rows = stored /\ a \in Replies(q)
    BY <1>0, <1>5 DEF Answer, Replies, Outcomes
  <2>2. answers' = answers (+) SetToBag({a})
    BY <1>10
  <2> HIDE DEF a, ready, q
  <2>3. IsABag(answers') /\ DOMAIN answers' = DOMAIN answers \cup {a}
    BY <1>0, <2>2, AnswerAdded DEF AnswersShape
  <2>4. AnswersShape(answers', q)
    BY <1>0, <1>7, <2>1, <2>3 DEF AnswersShape
  <2>5. list'.sent = <<>> /\ list'.total = 0 /\ list'.deferred = <<>> /\ list'.pending = {}
    BY <1>10 DEF EmptyList
  <2>6. ListShape'
    <3>1. newest' \in 0 .. shownQuery' /\ shownQuery' \in Nat /\ stored' \in Nat
      BY <1>0, <1>5
    <3>2. outdated' \in BOOLEAN /\ forgotten' \in BOOLEAN
      BY <1>0
    <3>3. \A S : <<>> \in Seq(S)
      OBVIOUS
    <3>4. list'.sent \in Seq(Asks(shownQuery')) /\ AnswersShape(answers', shownQuery')
      BY <1>0, <2>4, <2>5, <3>3
    <3> QED BY <1>8, <3>1, <3>2, <3>4 DEF ListShape
  <2>7. Replied' = Replied \cup {ready}
    BY <2>1, <2>3 DEF Replied
  <2>8. Asked' = {ready}
    <3>1. ToSet(list'.sent) = {}
      BY <2>5 DEF ToSet
    <3>2. \A r : r \in Asked' <=> r.kind # "other" /\ r.query = q
            /\ (r \in ToSet(visible) \/ r \in ToSet(maintenance) \/ r \in Replied \/ r = ready)
      BY <1>0, <2>7, <3>1 DEF Asked
    <3> QED BY <3>2, <1>2, <1>6
  <2>9. ASSUME NEW r \in {first, count} PROVE InOnePlace(r)'
    <3>1. r \notin ToSet(visible) /\ r \notin ToSet(maintenance) /\ r \notin Replied /\ r # ready
      BY <1>2, <1>6
    <3>2. Once(list'.sent, r) /\ r \notin ToSet(list'.sent)
      BY <2>5 DEF Once, ToSet
    <3>3. r \notin Replied'
      BY <2>7, <3>1
    <3>4. OneAnswer(answers', r)
      BY <3>3 DEF OneAnswer, Replied
    <3>5. Once(visible', r) /\ r \notin ToSet(visible')
      BY <1>0, <3>1 DEF Once, ToSet
    <3> QED BY <3>2, <3>3, <3>4, <3>5 DEF InOnePlace
  <2>10. InOnePlace(TheFirst)' /\ InOnePlace(TheCount)'
    BY <1>3, <2>9 DEF InOnePlace, Replied
  <2>11. AnswersAreTrue'
    <3>1. \A b \in DOMAIN answers : b.request.query = q => b.request.kind = "other"
      BY <1>6 DEF Replied
    <3>2. \A b \in DOMAIN answers : b.request.kind = "other" => Truthful(b, stored')
      BY DEF Truthful
    <3>3. Truthful(a, stored')
      BY <1>0, <1>2, <2>1 DEF Truthful
    <3> QED BY <1>0, <2>3, <2>5, <3>1, <3>2, <3>3 DEF AnswersAreTrue
  <2>12. CacheHolds'
    BY <1>10, <2>5, EmptyIs DEF CacheHolds
  <2>13. FirstComesFirst' /\ WaitingGoOn'
    BY <1>2, <1>3, <2>5, <2>8 DEF FirstComesFirst, WaitingGoOn
  <2> QED BY <2>6, <2>10, <2>11, <2>12, <2>13 DEF ListInv
<1> QED BY <1>1, <1>9, <1>10

\* A page that is not there yet comes: for every size of the pages, of the
\* cache, of the lanes and of the library, and however many queries, edits and
\* failures there are.
THEOREM PagesCome == ListSpec => []MissingPagesCome
<1>1. ListInit => ListInv
  BY InitIs
<1>2. ListInv /\ [ListNext]_listVars => ListInv'
  <2> SUFFICES ASSUME ListInv, [ListNext]_listVars PROVE ListInv'
    OBVIOUS
  <2>1. CASE UNCHANGED listVars
    <3>1. UNCHANGED <<list, shownQuery, visible, maintenance, newest, answers, stored, outdated, forgotten>>
      BY <2>1 DEF listVars, lanes
    <3>2. ListInv /\ TheFirst' = TheFirst /\ TheCount' = TheCount /\ ThePrepared' = ThePrepared /\ Asked' = Asked /\ Replied' = Replied
      BY <3>1 DEF TheFirst, TheCount, ThePrepared, Asked, Replied
    <3> QED BY <3>1, <3>2 DEF ListInv, ListShape, InOnePlace, AnswersAreTrue, CacheHolds, NothingShown, FirstComesFirst, WaitingGoOn
  <2>2. CASE ListNext
    BY <2>2, ReloadStep, LoadPositionStep, LoadDeferredStep, RetryStep, ReplaceRowStep, ArriveStep,
       SendStep, ServeStep, OthersAsk, ChangeStep DEF ListNext
  <2> QED BY <2>1, <2>2
<1> QED BY <1>1, <1>2, InvIs, PTL DEF ListSpec
=============================================================================
