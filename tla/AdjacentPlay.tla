----------------------------- MODULE AdjacentPlay -----------------------------
(***************************************************************************)
(* Next, Previous and Continue: which sound of the shown list follows the  *)
(* active one.  The list knows the place of the active sound only while    *)
(* the page with it is in its cache (navigation_context); Continue asks    *)
(* the store for it.  The sound at the place before or after is a request  *)
(* of its own, so the library may change in between                        *)
(* (commands/playback/mod.rs, library_store.rs).                           *)
(***************************************************************************)
EXTENDS Integers, Sequences, SequencesExt, FiniteSets

CONSTANTS
  ApSounds,     \* sounds, numbered in the order of their public ids
  ApPlaces,     \* general_position, or membership.position in a manual tab
  ApMaxPlays,   \* bound: presses of Next or Previous, continuations
  ApMaxChanges  \* bound: changes of the library, pages dropped

ASSUME AdjacentAssumption ==
  /\ ApSounds \subseteq Nat \ {0} /\ IsFiniteSet(ApSounds) /\ ApPlaces \subseteq Nat
  /\ {ApMaxPlays, ApMaxChanges} \subseteq Nat

VARIABLES
  apIn,     \* the sounds of the scope that the search finds
  apPlace,  \* the stored place of each; two may share one
  apShown,  \* the list as it was last loaded
  apCached, \* the sounds whose page is in the list's cache
  apPlaying, \* the sound that plays, 0 if none
  apActive, \* active_sound_id: what the last snapshot said of it
  apJob,    \* the command under way
  apFrom,   \* history: the list when the command began, <<>> once it was changed
  apPlays, apChanges

apVars == <<apIn, apPlace, apShown, apCached, apPlaying, apActive, apJob, apFrom, apPlays, apChanges>>

NoFollowing == [step |-> "none", by |-> "press", sound |-> 0, position |-> -1, offset |-> 0, total |-> 0, found |-> 0]

\* ORDER BY position, public_id
Precedes(places, s, t) == places[s] < places[t] \/ (places[s] = places[t] /\ s < t)
Listing(in, places) ==
  [k \in 1 .. Cardinality(in) |-> CHOOSE s \in in : Cardinality({t \in in : Precedes(places, t, s)}) = k - 1]

\* Faulty variant: sounds of the same place are not told apart.
IsPlacedBefore(s, t) == apPlace[s] < apPlace[t]
\* load_sound_position: how many precede the sound.
ComesBefore(s, t) == Precedes(apPlace, s, t)
StoredPosition(s) == Cardinality({t \in apIn : ComesBefore(t, s)})
\* load_sound_at, 0 if there is none.
SoundAt(k) == IF k \in 0 .. Cardinality(apIn) - 1 THEN Listing(apIn, apPlace)[k + 1] ELSE 0

ApInit ==
  /\ apIn \in SUBSET ApSounds /\ apPlace \in [ApSounds -> ApPlaces]
  /\ apShown = Listing(apIn, apPlace) /\ apCached = apIn
  /\ apActive \in {0} \cup ApSounds /\ apPlaying = apActive
  /\ apJob = NoFollowing /\ apFrom = <<>>
  /\ apPlays = 0 /\ apChanges = 0

ListShown == UNCHANGED <<apIn, apPlace, apShown, apCached>>
PlayStep(job) == apJob' = job /\ ListShown /\ UNCHANGED <<apPlaying, apActive, apFrom, apPlays, apChanges>>
\* Everything is stopped before the next sound is looked for.
StartPlay(job) ==
  /\ apJob = NoFollowing /\ apPlays < ApMaxPlays
  /\ apPlays' = apPlays + 1
  /\ apJob' = job /\ apFrom' = apShown /\ apPlaying' = 0
  /\ ListShown /\ UNCHANGED <<apActive, apChanges>>

\* navigation_context: position_for_id looks in the cache.
ShownPosition == IF apActive \in apCached THEN CHOOSE k \in DOMAIN apShown : apShown[k] = apActive ELSE 0

\* TransportInner::play_adjacent_sound
PressAdjacent(offset) ==
  StartPlay([NoFollowing EXCEPT !.step = "count", !.sound = apActive, !.position = ShownPosition - 1, !.offset = offset])
\* continue_to_next_sound, from the sound that was remembered as the cursor.
ContinueFrom(s) ==
  StartPlay([NoFollowing EXCEPT !.step = "position", !.by = "continue", !.sound = s, !.offset = 1])

\* play_adjacent_from_sound_id_from_library
FindPosition ==
  /\ apJob.step = "position"
  /\ PlayStep(IF apJob.sound \in apIn
              THEN [apJob EXCEPT !.step = "count", !.position = StoredPosition(apJob.sound)]
              ELSE [apJob EXCEPT !.step = "done"])

\* play_adjacent_from_library
CountSounds ==
  /\ apJob.step = "count"
  /\ PlayStep([apJob EXCEPT !.total = Cardinality(apIn),
                            !.step = IF apIn = {} THEN "done"
                                     ELSE IF apJob.position < 0 THEN "boundary" ELSE "adjacent"])
\* load_adjacent_sound
FindAdjacent ==
  LET found == SoundAt(apJob.position + apJob.offset) IN
  /\ apJob.step = "adjacent"
  /\ PlayStep([apJob EXCEPT !.found = found, !.step = IF found = 0 THEN "boundary" ELSE "done"])
FindBoundary ==
  /\ apJob.step = "boundary"
  /\ PlayStep([apJob EXCEPT !.found = SoundAt(IF apJob.offset < 0 THEN apJob.total - 1 ELSE 0),
                            !.step = "done"])
\* play_resolved_sound: a sound that is disabled or lost its file is not played.
PlayFound ==
  /\ apJob.step = "done"
  /\ apJob' = NoFollowing
  /\ apPlaying' \in {0, apJob.found}
  /\ ListShown /\ UNCHANGED <<apActive, apFrom, apPlays, apChanges>>

\* The snapshot handler of the window: set_active_sound_id.
SnapshotComes ==
  /\ apActive # apPlaying /\ apActive' = apPlaying
  /\ ListShown /\ UNCHANGED <<apPlaying, apJob, apFrom, apPlays, apChanges>>

\* Sounds are imported, removed and ordered by others; the list is loaded anew
\* after that, and drops pages that were scrolled away.
ApChange == apChanges < ApMaxChanges /\ apChanges' = apChanges + 1
ListedChange ==
  /\ ApChange
  /\ \/ /\ \E s \in ApSounds : apIn' = IF s \in apIn THEN apIn \ {s} ELSE apIn \cup {s}
        /\ UNCHANGED apPlace
     \/ /\ \E s \in apIn, p \in ApPlaces : p # apPlace[s] /\ apPlace' = [apPlace EXCEPT ![s] = p]
        /\ UNCHANGED apIn
  /\ apFrom' = <<>>
  /\ UNCHANGED <<apShown, apCached, apPlaying, apActive, apJob, apPlays>>
ListLoads ==
  /\ apShown # Listing(apIn, apPlace)
  /\ apShown' = Listing(apIn, apPlace) /\ apCached' = apIn
  /\ UNCHANGED <<apIn, apPlace, apPlaying, apActive, apJob, apFrom, apPlays, apChanges>>
PageDropped ==
  /\ ApChange
  /\ \E s \in apCached : apCached' = apCached \ {s}
  /\ UNCHANGED <<apIn, apPlace, apShown, apPlaying, apActive, apJob, apFrom, apPlays>>

ApNext ==
  \/ \E offset \in {-1, 1} : PressAdjacent(offset)
  \/ \E s \in ApSounds : ContinueFrom(s)
  \/ FindPosition \/ CountSounds \/ FindAdjacent \/ FindBoundary \/ PlayFound \/ SnapshotComes
  \/ ListedChange \/ ListLoads \/ PageDropped

ApSpec == ApInit /\ [][ApNext]_apVars

-------------------------------------------------------------------------------

AdjacentTypeOK ==
  /\ apIn \subseteq ApSounds /\ apPlace \in [ApSounds -> ApPlaces]
  /\ ToSet(apShown) \subseteq ApSounds /\ apCached \subseteq ToSet(apShown)
  /\ {apPlaying, apActive, apJob.sound, apJob.found} \subseteq {0} \cup ApSounds
  /\ apJob.step \in {"none", "position", "count", "adjacent", "boundary", "done"}
  /\ apJob.position \in -1 .. Cardinality(ApSounds) - 1

\* The sound that follows in a cyclic list, at its end if there is none before.
Successor(list, s, offset) ==
  IF list = <<>> THEN 0
  ELSE IF s \notin ToSet(list) THEN (IF offset < 0 THEN Last(list) ELSE list[1])
  ELSE LET k == CHOOSE k \in DOMAIN list : list[k] = s IN list[1 + ((k - 1 + offset) % Len(list))]

\* As long as the shown list is the library's, Next, Previous and Continue go
\* through it in its order and around its ends, sounds of the same place among
\* them: no sound is skipped, none played twice. (Not so Next and Previous when
\* the page with the active sound was dropped, or before the snapshot with the
\* last one they started: they start again from an end, or from the one before.
\* Continue does not go on from a sound that has left the list.)
AdjacentFollowsTheList ==
  apJob.step = "done" /\ apFrom # <<>> /\ apFrom = Listing(apIn, apPlace) =>
    \/ apJob.found = Successor(apFrom, apJob.sound, apJob.offset)
    \/ apJob.by = "press" /\ apJob.position < 0 /\ apJob.found = Successor(apFrom, 0, apJob.offset)
    \/ apJob.by = "continue" /\ apJob.sound \notin apIn /\ apJob.found = 0
===============================================================================
