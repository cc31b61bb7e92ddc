------------------------------- MODULE MixQueues -------------------------------
(***************************************************************************)
(* The engine's mixing loop between a decoder and three sample queues.     *)
(* A timer of the loop trims and fills the queues; PipeWire's realtime     *)
(* threads take from "local" and "virtual_out" and add to "mic_in" in      *)
(* between.  Nobody waits for the queues' lock: who does not get it gives  *)
(* that step up.                                                           *)
(*                                                                         *)
(* The unit is MIX_CHUNK_FRAMES; what a fade leaves is shorter and counts  *)
(* as one chunk of silence.  Of the virtual queue and the microphone's     *)
(* only the length is kept.  Volume, gain and limiters are left out.       *)
(***************************************************************************)
EXTENDS Naturals, Sequences

CONSTANTS
  MxLocal,     \* LOCAL_OUTPUT_QUEUE_TARGET_FRAMES
  MxCapacity,  \* OUTPUT_QUEUE_CAPACITY_SAMPLES
  MxUltra,     \* virtual_target_frames of the ultra profile
  MxLow,       \* and of the low profile
  MxPatience,  \* ULTRA_STARVATION_TICK_FALLBACK_THRESHOLD
  MxLength,    \* chunks of a sound
  MxMaxEdits,  \* bound: commands, and changes of the streams
  MxMaxMic,    \* bound: chunks waiting in mic_in
  MxMaxFaults  \* bound: times that the lock is not free, or a file is gone

ASSUME MixAssumption ==
  /\ {MxLocal, MxCapacity, MxUltra, MxLow, MxPatience, MxLength} \subseteq Nat \ {0}
  /\ MxLocal <= MxCapacity /\ 2 * MxLow <= MxCapacity /\ MxUltra <= MxLow
  /\ {MxMaxEdits, MxMaxMic, MxMaxFaults} \subseteq Nat

VARIABLES
  mxPlay,     \* active_playback, and the chunk its source gives next
  mxQueue,    \* queues.local
  mxVirtual,  \* queues.virtual_out: its length
  mxMic,      \* queues.mic_in: its length
  mxRuntime,  \* runtime: mic_latency_profile (its target), looping, mic_passthrough
  mxCapture,  \* capture_stream_active
  mxPlays,    \* backend_playback_available
  mxStarved,  \* ultra_starvation_ticks
  mxTick,     \* where the loop is in a tick, and the batches it may still fill
  mxHeard,    \* history: the last chunk of a sound that local output played
  mxCut,      \* history: plays that lost chunks to a command, the lock or the capacity
  mxEdits, mxFaults

mxStreams == <<mxCapture, mxPlays>>
mxBounds == <<mxEdits, mxFaults>>
mxVars == <<mxPlay, mxQueue, mxVirtual, mxMic, mxRuntime, mxStreams, mxStarved, mxTick, mxHeard, mxCut,
            mxBounds>>

NoPlay == [id |-> 0, next |-> 1, paused |-> FALSE, finished |-> FALSE]
Silence == [id |-> 0, at |-> 1]
Rest == [at |-> "rest", left |-> 0]

MxInit ==
  /\ mxPlay = NoPlay /\ mxQueue = <<>> /\ mxVirtual = 0 /\ mxMic = 0
  /\ mxRuntime \in [target : {MxUltra, MxLow}, looping : BOOLEAN, passthrough : BOOLEAN]
  /\ mxCapture = mxRuntime.passthrough /\ mxPlays = TRUE /\ mxStarved = 0 /\ mxTick = Rest
  /\ mxHeard = Silence /\ mxCut = {}
  /\ mxEdits = 0 /\ mxFaults = 0

\* try_lock succeeds, or not.
LockFree == UNCHANGED mxFaults
LockHeld == mxFaults < MxMaxFaults /\ mxFaults' = mxFaults + 1

Least(m, n) == IF m < n THEN m ELSE n
Excess(m, n) == IF m > n THEN m - n ELSE 0

Active == mxPlay.id # 0
Passes == mxRuntime.passthrough /\ mxCapture
WantsVirtual == Active \/ Passes
\* current_queue_deficits
Short == (Active /\ Len(mxQueue) < MxLocal) \/ (WantsVirtual /\ mxVirtual < mxRuntime.target)

(***************************************************************************)
(* A tick.                                                                 *)
(***************************************************************************)

\* The most that may wait: max_virtual_backlog_frames, max_mic_backlog_frames.
Backlog == 2 * mxRuntime.target
MaxBatches == IF Active /\ MxLocal > mxRuntime.target THEN MxLocal ELSE mxRuntime.target

\* fill_output_queues begins, with trim_latency_backlog.
TickBegins ==
  /\ mxTick = Rest /\ mxPlays
  /\ IF WantsVirtual
     THEN /\ mxTick' = [at |-> "fill", left |-> MaxBatches] /\ UNCHANGED mxStarved
          /\ \/ /\ LockFree
                /\ mxVirtual' = Least(mxVirtual, Backlog)
                /\ mxMic' = Least(mxMic, Backlog)
             \/ LockHeld /\ UNCHANGED <<mxVirtual, mxMic>>
     ELSE mxStarved' = 0 /\ UNCHANGED <<mxTick, mxVirtual, mxMic, mxFaults>>
  /\ UNCHANGED <<mxPlay, mxQueue, mxRuntime, mxStreams, mxHeard, mxCut, mxEdits>>

\* ActivePlayback::render_into for one chunk.  A loop opens its file again.
Silent == mxPlay.finished \/ mxPlay.paused
Rendered(reopens) ==
  IF Silent THEN [play |-> mxPlay, chunk |-> Silence]
  ELSE IF mxPlay.next <= MxLength
       THEN [play |-> [mxPlay EXCEPT !.next = @ + 1], chunk |-> [id |-> mxPlay.id, at |-> mxPlay.next]]
  ELSE IF mxRuntime.looping /\ reopens
       THEN [play |-> [mxPlay EXCEPT !.next = 2], chunk |-> [id |-> mxPlay.id, at |-> 1]]
  ELSE [play |-> [mxPlay EXCEPT !.finished = TRUE], chunk |-> Silence]

\* Faulty variant: the local queue is kept at its target.
PushSliceTrimmed(chunk) == IF Len(mxQueue) < MxLocal THEN Append(mxQueue, chunk) ELSE Append(Tail(mxQueue), chunk)
\* SampleQueue::push_slice
PushSlice(chunk) == IF Len(mxQueue) < MxCapacity THEN Append(mxQueue, chunk) ELSE Append(Tail(mxQueue), chunk)
Overflows == Len(mxQueue) = MxCapacity

Fill(left) == mxTick' = IF left = 0 THEN [at |-> "end", left |-> 0] ELSE [at |-> "fill", left |-> left]
Batches(reopens) ==
  /\ LET r == Rendered(reopens) IN mxPlay' = r.play /\ mxQueue' = PushSlice(r.chunk)
  /\ mxCut' = IF Overflows THEN mxCut \cup {Head(mxQueue).id} ELSE mxCut
  /\ mxVirtual' = Least(mxVirtual + 1, MxCapacity)
  /\ mxMic' = IF Passes THEN Excess(mxMic, 1) ELSE mxMic
  /\ Fill(mxTick.left - 1)

\* The sound is rendered before the lock is tried: the chunk is lost.
EnqueueLocked ==
  /\ LockHeld
  /\ mxPlay' = Rendered(TRUE).play
  /\ mxCut' = mxCut \cup {mxPlay.id}
  /\ Fill(0)
  /\ UNCHANGED <<mxQueue, mxVirtual, mxMic>>

\* enqueue_mixed_chunk, after current_queue_deficits.
MixBatch ==
  /\ mxTick.at = "fill" /\ Short
  /\ \/ Active /\ LockFree /\ Batches(TRUE)
     \/ /\ Active /\ ~Silent /\ mxPlay.next > MxLength /\ mxRuntime.looping
        /\ mxFaults < MxMaxFaults /\ mxFaults' = mxFaults + 1
        /\ Batches(FALSE)
     \/ Active /\ EnqueueLocked
     \/ /\ ~Active /\ LockFree
        /\ UNCHANGED <<mxPlay, mxQueue, mxCut>>
        /\ IF mxMic = 0 THEN Fill(0) /\ UNCHANGED <<mxMic, mxVirtual>>
           ELSE mxMic' = mxMic - 1 /\ mxVirtual' = mxVirtual + 1 /\ Fill(mxTick.left - 1)
     \/ ~Active /\ LockHeld /\ Fill(0) /\ UNCHANGED <<mxPlay, mxQueue, mxCut, mxMic, mxVirtual>>
  /\ UNCHANGED <<mxRuntime, mxStreams, mxStarved, mxHeard, mxEdits>>

\* A playback that has finished goes at the end of the tick.
PlaybackEnds == mxPlay' = IF mxPlay.finished THEN NoPlay ELSE mxPlay

\* mix_tick ends; ultra latency that starves for several ticks falls back to low.
TickEnds ==
  /\ mxTick.at = "end" \/ (mxTick.at = "fill" /\ ~Short)
  /\ mxTick' = Rest
  /\ LET starving == mxRuntime.target = MxUltra /\ WantsVirtual /\ Short
     IN IF starving /\ mxStarved + 1 >= MxPatience
        THEN /\ mxRuntime' = [mxRuntime EXCEPT !.target = MxLow]
             /\ mxStarved' = 0
             /\ \/ LockFree /\ mxVirtual' = 0 /\ mxMic' = 0
                \/ LockHeld /\ UNCHANGED <<mxVirtual, mxMic>>
        ELSE /\ mxStarved' = IF starving THEN mxStarved + 1 ELSE 0
             /\ UNCHANGED <<mxRuntime, mxVirtual, mxMic, mxFaults>>
  /\ PlaybackEnds
  /\ UNCHANGED <<mxQueue, mxStreams, mxHeard, mxCut, mxEdits>>

\* current_queue_deficits does not get the lock, before a batch or after the last.
TickGivesUp ==
  /\ mxTick # Rest /\ mxTick' = Rest
  /\ LockHeld
  /\ PlaybackEnds
  /\ UNCHANGED <<mxQueue, mxVirtual, mxMic, mxRuntime, mxStreams, mxStarved, mxHeard, mxCut,
                 mxEdits>>

(***************************************************************************)
(* Commands.                                                               *)
(***************************************************************************)

MxEdit == mxTick = Rest /\ mxEdits < MxMaxEdits /\ mxEdits' = mxEdits + 1

\* fade_output_queues
Fade ==
  \/ LockFree /\ mxQueue' = (IF mxQueue = <<>> THEN <<>> ELSE <<Silence>>) /\ mxVirtual' = Least(mxVirtual, 1)
  \/ LockHeld /\ UNCHANGED <<mxQueue, mxVirtual>>
Cuts == mxCut' = mxCut \cup {mxPlay.id}
MixEditRest == UNCHANGED <<mxMic, mxStreams, mxStarved, mxTick, mxHeard>>

\* The playback is named by the number of its command. A sound that cannot be
\* opened leaves the earlier one as it is.
MixPlay ==
  /\ mxPlays /\ MxEdit
  /\ mxPlay' = [NoPlay EXCEPT !.id = mxEdits']
  /\ UNCHANGED <<mxQueue, mxVirtual, mxMic, mxRuntime, mxStreams, mxStarved, mxTick, mxHeard, mxCut,
                 mxFaults>>

\* StopSound of the active sound, and StopAll.
MixStop ==
  /\ MxEdit /\ mxPlay' = NoPlay /\ Cuts /\ Fade
  /\ UNCHANGED mxRuntime /\ MixEditRest

\* Seek; where the file cannot be opened again the playback stays where it was,
\* and the queues fade all the same.
MixSeek ==
  /\ MxEdit /\ Active /\ Cuts /\ Fade
  /\ \E at \in 1..MxLength : mxPlay' \in {mxPlay, [mxPlay EXCEPT !.next = at, !.finished = FALSE]}
  /\ UNCHANGED mxRuntime /\ MixEditRest

\* Pause and Resume.
MixPause ==
  /\ MxEdit /\ Active /\ mxPlay' = [mxPlay EXCEPT !.paused = ~@]
  /\ UNCHANGED <<mxQueue, mxVirtual, mxRuntime, mxCut, mxFaults>> /\ MixEditRest

MixLooping ==
  /\ MxEdit /\ mxRuntime' = [mxRuntime EXCEPT !.looping = ~@]
  /\ UNCHANGED <<mxPlay, mxQueue, mxVirtual, mxCut, mxFaults>> /\ MixEditRest

\* clear_mic_input_queue; then the old stream, which may add to it once more, is
\* dropped.
MicCleared ==
  \/ LockFree /\ mxMic' \in IF mxCapture THEN {0, 1} ELSE {0}
  \/ LockHeld /\ UNCHANGED mxMic

\* recreate_capture_stream of SetMicPassthrough, SetMicLatencyProfile,
\* SetMicSource and the watchdog.
Recreates ==
  /\ MxEdit
  /\ MicCleared
  /\ \/ mxRuntime' = [mxRuntime EXCEPT !.passthrough = ~@] /\ UNCHANGED mxStarved
     \/ \E target \in {MxUltra, MxLow} : mxRuntime' = [mxRuntime EXCEPT !.target = target] /\ mxStarved' = 0
     \/ UNCHANGED <<mxRuntime, mxStarved>>
  /\ mxCapture' \in IF mxRuntime'.passthrough THEN BOOLEAN ELSE {FALSE}
  /\ UNCHANGED <<mxPlay, mxQueue, mxVirtual, mxPlays, mxTick, mxHeard, mxCut>>

(***************************************************************************)
(* PipeWire's realtime threads; a callback that finds the lock held plays  *)
(* silence, or drops what it has captured.                                 *)
(***************************************************************************)

RealtimeRest ==
  UNCHANGED <<mxPlay, mxRuntime, mxStreams, mxStarved, mxTick, mxCut, mxBounds>>

\* write_output_buffer
LocalPlays ==
  /\ mxQueue # <<>> /\ mxQueue' = Tail(mxQueue)
  /\ mxHeard' = IF Head(mxQueue) = Silence THEN mxHeard ELSE Head(mxQueue)
  /\ UNCHANGED <<mxVirtual, mxMic>> /\ RealtimeRest
VirtualPlays ==
  /\ mxVirtual > 0 /\ mxVirtual' = mxVirtual - 1
  /\ UNCHANGED <<mxQueue, mxMic, mxHeard>> /\ RealtimeRest

\* read_capture_buffer
Captures ==
  /\ mxCapture /\ mxMic < MxMaxMic /\ mxMic' = mxMic + 1
  /\ UNCHANGED <<mxQueue, mxVirtual, mxHeard>> /\ RealtimeRest

\* state_changed of a stream.
StreamChanges ==
  /\ MxEdit
  /\ \/ mxPlays' = ~mxPlays /\ UNCHANGED mxCapture
     \/ mxRuntime.passthrough /\ mxCapture' = ~mxCapture /\ UNCHANGED mxPlays
  /\ UNCHANGED <<mxPlay, mxQueue, mxVirtual, mxMic, mxRuntime, mxStarved, mxTick, mxHeard, mxCut,
                 mxFaults>>

MxNext ==
  \/ TickBegins \/ MixBatch \/ TickEnds \/ TickGivesUp
  \/ MixPlay \/ MixStop \/ MixSeek \/ MixPause \/ MixLooping \/ Recreates
  \/ LocalPlays \/ VirtualPlays \/ Captures \/ StreamChanges

MxSpec == MxInit /\ [][MxNext]_mxVars

(***************************************************************************)
(* Properties.                                                             *)
(***************************************************************************)

Chunks == [id : 0..MxMaxEdits, at : 1..MxLength]

MixTypeOK ==
  /\ mxPlay \in [id : 0..MxMaxEdits, next : 1..MxLength + 1, paused : BOOLEAN, finished : BOOLEAN]
  /\ mxQueue \in Seq(Chunks) /\ Len(mxQueue) <= MxCapacity /\ mxVirtual \in 0..MxCapacity
  /\ mxMic \in 0..MxMaxMic
  /\ mxRuntime \in [target : {MxUltra, MxLow}, looping : BOOLEAN, passthrough : BOOLEAN]
  /\ {mxCapture, mxPlays} \subseteq BOOLEAN /\ mxStarved \in 0..MxPatience
  /\ mxTick \in [at : {"rest", "fill", "end"}, left : 0..MxCapacity]
  /\ mxHeard \in Chunks /\ mxCut \subseteq 0..MxMaxEdits
  /\ mxEdits \in 0..MxMaxEdits /\ mxFaults \in 0..MxMaxFaults

\* What was heard last, what is queued, and what comes next of the active sound.
Upcoming == IF mxPlay.finished THEN Silence ELSE [id |-> mxPlay.id, at |-> mxPlay.next]
Chunk(heard, queue, upcoming, i) ==
  IF i = 0 THEN heard ELSE IF i <= Len(queue) THEN queue[i] ELSE upcoming
Sounding == [i \in 0 .. Len(mxQueue) + 1 |-> Chunk(mxHeard, mxQueue, Upcoming, i)]
Follows(chunk, other) ==
  \/ other.id > chunk.id
  \/ other.id = chunk.id /\ (other.at = chunk.at + 1 \/ (chunk.at >= MxLength /\ other.at = 1))

\* A sound comes out of the queue as its file has it, chunk by chunk, however
\* the ticks, the callbacks, pauses, loops, and other plays fall: nothing is
\* left out, repeated or mixed with a later sound. Only a stop, a seek, a lock
\* that is not free or a queue at its capacity takes a chunk.
LocalOutputIsTheSound ==
  \A i, j \in DOMAIN Sounding :
    /\ i < j /\ Sounding[i].id # 0 /\ Sounding[j].id # 0
    /\ \A k \in i + 1 .. j - 1 : Sounding[k].id = 0
    => Follows(Sounding[i], Sounding[j]) \/ Sounding[i].id \in mxCut
===============================================================================
