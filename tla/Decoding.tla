------------------------------- MODULE Decoding -------------------------------
(***************************************************************************)
(* From the packets of a file to the frames that are played: the decoders  *)
(* take packets, drop the encoder's delay and the padding at the end, and  *)
(* seek; a converter changes the sampling rate.                            *)
(*                                                                         *)
(* Demuxers and codecs are external: a packet gives its frames, those that *)
(* the trims of its demuxer leave, or it fails in one of the ways that the *)
(* code tells apart.  Frames are numbered in the order in which they are   *)
(* decoded, a packet is told by the number of its last one; channels are   *)
(* left out, and the converter's fraction is a whole number of output steps*)
(***************************************************************************)
EXTENDS Integers, Sequences

CONSTANTS
  DcPackets,  \* bound: packets of a file
  DcFrames,   \* bound: frames of a packet
  DcRates,    \* <<from, to>>: pairs of sampling rates
  DcMaxSeeks  \* bound: seeks

ASSUME DecodingAssumption ==
  /\ {DcPackets, DcFrames, DcMaxSeeks} \subseteq Nat
  /\ DcRates \subseteq (Nat \ {0}) \X (Nat \ {0})

VARIABLES
  dcFile,   \* what the file holds
  dcRate,   \* its sampling rate, and TARGET_OUTPUT_SAMPLE_RATE
  dcSource, \* the decoder: its reader, the delay it has to cut, remaining_playable_frames, buffer
  dcConv,   \* ChannelSampleRateConverter: current, next, frac, source_exhausted
  dcPhase,  \* what the next frame is for
  dcDrop,   \* frames that a seek has to drop
  dcStart,  \* history: the packet where reading began, whether to cut the delay, frames to drop
  dcOut,    \* outputs given since then
  dcKept,   \* what a seek replaces if it succeeds
  dcSeeks

dcPlayer == <<dcSource, dcConv, dcPhase, dcStart, dcOut>>
dcVars == <<dcFile, dcRate, dcPlayer, dcDrop, dcKept, dcSeeks>>

From == dcRate[1]
To == dcRate[2]

(***************************************************************************)
(* Files.  What a reader meets: a packet with sound; one that cannot be    *)
(* decoded, or of which reading fails, and that is passed over; one of     *)
(* another stream, a header or an empty one; a request to reset the        *)
(* decoder; an error that ends the sound.                                  *)
(***************************************************************************)

PacketKinds == {"sound", "broken", "foreign", "reset", "fault"}
Packets == [kind : PacketKinds, end : 0..DcPackets * DcFrames]
\* Frames decoded before packet i of a list. What holds of neighbours, that the
\* number never goes back, is also said of any two packets: it follows.
BeforeOf(list, i) == IF i = 1 THEN 0 ELSE list[i - 1].end
PacketLists ==
  {list \in UNION {[1..n -> Packets] : n \in 0..DcPackets} :
     /\ \A i \in DOMAIN list :
          /\ list[i].end - BeforeOf(list, i) \in 0..DcFrames
          /\ list[i].kind # "sound" => list[i].end = BeforeOf(list, i)
     /\ \A i, j \in DOMAIN list : i < j => list[i].end <= list[j].end}
OggLists == {list \in PacketLists : \A i \in DOMAIN list : list[i].kind # "reset"}
\* A container's skip is the pre-skip of ContainerOpusDecoder (container_opus_pre_skip);
\* other codecs have none.
Files ==
  [kind : {"ogg"}, packets : OggLists, skip : 0..DcFrames, granule : 0..DcPackets * DcFrames, ended : BOOLEAN]
    \cup [kind : {"container"}, packets : PacketLists, skip : 0..DcFrames, granule : {0}, ended : {TRUE}]

Before(i) == BeforeOf(dcFile.packets, i)
Decoded == Before(Len(dcFile.packets) + 1)

\* scan_ogg_opus_frames: what makes a file unplayable, beside an error of reading,
\* which the scan may meet or which may come after it (DcInit).
Scannable(file) ==
  \/ file.kind = "container"
  \/ /\ \E i \in DOMAIN file.packets : file.packets[i].kind \in {"sound", "broken"}
     /\ file.ended /\ file.granule >= file.skip

(***************************************************************************)
(* The decoder.                                                            *)
(***************************************************************************)

Reader(packet, skip, remaining) ==
  [packet |-> packet, skip |-> skip, remaining |-> remaining, from |-> 1, to |-> 0]
NoSource == Reader(1, 0, DcPackets * DcFrames)
\* from_path: an Ogg file tells how long it plays, a container plays to its end.
Opened(file) ==
  Reader(1, file.skip, IF file.kind = "ogg" THEN file.granule - file.skip ELSE DcPackets * DcFrames)
ReadFrom(packet, cuts, drop) == [packet |-> packet, cuts |-> cuts, drop |-> drop]

Buffered == dcSource.from <= dcSource.to
\* decode_next_packet gives nothing, however often it is called.
AtEnd ==
  /\ ~Buffered
  /\ \/ dcSource.remaining = 0
     \/ dcSource.packet \in DOMAIN dcFile.packets => dcFile.packets[dcSource.packet].kind = "fault"

Lesser(m, n) == IF m < n THEN m ELSE n
\* Faulty variant: the delay is dropped from every packet.
TakenSkippingAll(frames) ==
  LET skipped == Lesser(frames, dcSource.skip)
      kept == Lesser(frames - skipped, dcSource.remaining)
      first == Before(dcSource.packet) + skipped + 1
  IN [packet |-> dcSource.packet + 1, skip |-> dcSource.skip,
      remaining |-> dcSource.remaining - kept, from |-> first, to |-> first + kept - 1]
\* What is left of the delay: ContainerOpusDecoder::decode cuts it from the first
\* packet that it decodes, as far as that packet goes.
SkipLeft(skipped) == IF dcFile.kind = "ogg" THEN dcSource.skip - skipped ELSE 0
\* What decode_next_packet makes of a packet's frames.
Taken(frames) ==
  LET skipped == Lesser(frames, dcSource.skip)
      kept == Lesser(frames - skipped, dcSource.remaining)
      first == Before(dcSource.packet) + skipped + 1
  IN [packet |-> dcSource.packet + 1, skip |-> SkipLeft(skipped),
      remaining |-> dcSource.remaining - kept, from |-> first, to |-> first + kept - 1]

\* ContainerOpusDecoder::reset_for_seek
ResetSkip(atStart) == IF atStart THEN dcFile.skip ELSE 0

Reading == dcPhase \in {"drop", "current", "next", "more"}

Decode ==
  /\ Reading /\ ~Buffered /\ ~AtEnd
  /\ LET packet == dcFile.packets[dcSource.packet]
     IN \/ packet.kind = "sound" /\ dcSource' = Taken(packet.end - Before(dcSource.packet))
        \/ packet.kind \in {"broken", "foreign"} /\ dcSource' = [dcSource EXCEPT !.packet = @ + 1]
        \/ packet.kind = "reset" /\ dcSource' = [dcSource EXCEPT !.packet = @ + 1, !.skip = ResetSkip(FALSE)]
  /\ UNCHANGED <<dcFile, dcRate, dcConv, dcPhase, dcDrop, dcStart, dcOut, dcKept, dcSeeks>>

(***************************************************************************)
(* The converter: an output lies between two frames.                       *)
(***************************************************************************)

NoConv == [current |-> 0, next |-> 0, frac |-> 0, exhausted |-> FALSE]

\* The loop at the end of ChannelSampleRateConverter::next, up to its read.
Settle(conv) ==
  IF conv.frac < To THEN dcConv' = conv /\ dcPhase' = "emit"
  ELSE IF conv.exhausted THEN dcConv' = conv /\ dcPhase' = "done"
  ELSE dcConv' = [conv EXCEPT !.current = conv.next, !.frac = @ - To] /\ dcPhase' = "more"

\* read_source_frame gives a frame.
Pull ==
  /\ Reading /\ Buffered
  /\ dcSource' = [dcSource EXCEPT !.from = @ + 1]
  /\ LET frame == dcSource.from
     IN \/ /\ dcPhase = "drop" /\ dcDrop' = dcDrop - 1
           /\ dcPhase' = IF dcDrop' = 0 THEN "current" ELSE "drop"
           /\ UNCHANGED dcConv
        \/ /\ dcPhase = "current" /\ dcConv' = [NoConv EXCEPT !.current = frame] /\ dcPhase' = "next"
           /\ UNCHANGED dcDrop
        \/ /\ dcPhase \in {"next", "more"} /\ Settle([dcConv EXCEPT !.next = frame])
           /\ UNCHANGED dcDrop
  /\ UNCHANGED <<dcFile, dcRate, dcStart, dcOut, dcKept, dcSeeks>>

\* It has none.  Without a first frame a seek fails and what was played goes on.
PullNothing ==
  /\ Reading /\ AtEnd
  /\ \/ /\ dcPhase = "drop" /\ dcPhase' = "current" /\ dcDrop' = 0
        /\ UNCHANGED <<dcSource, dcConv, dcStart, dcOut, dcKept>>
     \/ /\ dcPhase = "current" /\ dcKept # <<>>
        /\ dcSource' = dcKept[1] /\ dcConv' = dcKept[2] /\ dcPhase' = dcKept[3]
        /\ dcStart' = dcKept[4] /\ dcOut' = dcKept[5]
        /\ dcKept' = <<>> /\ UNCHANGED dcDrop
     \/ /\ dcPhase = "current" /\ dcKept = <<>> /\ dcPhase' = "refused"
        /\ UNCHANGED <<dcSource, dcConv, dcDrop, dcStart, dcOut, dcKept>>
     \/ /\ dcPhase \in {"next", "more"}
        /\ Settle([dcConv EXCEPT !.next = dcConv.current, !.exhausted = TRUE])
        /\ UNCHANGED <<dcSource, dcDrop, dcStart, dcOut, dcKept>>
  /\ UNCHANGED <<dcFile, dcRate, dcSeeks>>

\* ChannelSampleRateConverter::next
Emit ==
  /\ dcPhase = "emit"
  /\ dcOut' = dcOut + 1
  /\ Settle([dcConv EXCEPT !.frac = @ + From])
  /\ dcKept' = <<>>
  /\ UNCHANGED <<dcFile, dcRate, dcSource, dcDrop, dcStart, dcSeeks>>

(***************************************************************************)
(* Opening and seeking.                                                    *)
(***************************************************************************)

DcInit ==
  /\ dcFile \in Files /\ dcRate \in DcRates
  /\ \/ Scannable(dcFile) /\ dcSource = Opened(dcFile) /\ dcPhase = "current"
     \/ /\ Scannable(dcFile) => \E i \in DOMAIN dcFile.packets : dcFile.packets[i].kind = "fault"
        /\ dcSource = NoSource /\ dcPhase = "refused"
  /\ dcConv = NoConv /\ dcDrop = 0 /\ dcStart = ReadFrom(1, TRUE, 0)
  /\ dcOut = 0 /\ dcKept = <<>> /\ dcSeeks = 0

\* Where a coarse seek of a container may land: at a packet that begins at or
\* before the wanted frame.
Landings(frame) ==
  {i \in DOMAIN dcFile.packets :
     dcFile.packets[i].kind # "foreign" /\ Before(i) <= Lesser(frame, Decoded - 1)}

\* ResettablePlaybackSource::seek_internal. An Ogg file is opened again and its
\* frames are dropped; a container cuts the delay again only after a seek to the
\* very start (reset_for_seek). One that fails leaves everything as it was.
DcSeek ==
  /\ dcPhase \in {"emit", "done"}
  /\ dcSeeks < DcMaxSeeks /\ dcSeeks' = dcSeeks + 1
  /\ dcKept' = dcPlayer
  /\ \E frame \in 0..Decoded :
       \/ /\ dcFile.kind = "ogg"
          /\ dcSource' = Opened(dcFile)
          /\ dcStart' = ReadFrom(1, TRUE, frame) /\ dcDrop' = frame
          /\ dcPhase' = IF frame = 0 THEN "current" ELSE "drop"
       \/ /\ dcFile.kind = "container"
          /\ \E i \in Landings(frame), toStart \in BOOLEAN :
               /\ toStart => frame = 0
               /\ dcSource' = [Opened(dcFile) EXCEPT !.packet = i, !.skip = ResetSkip(toStart)]
               /\ dcStart' = ReadFrom(i, toStart, 0)
          /\ dcDrop' = 0 /\ dcPhase' = "current"
  /\ dcConv' = NoConv /\ dcOut' = 0
  /\ UNCHANGED <<dcFile, dcRate>>

DcNext == Decode \/ Pull \/ PullNothing \/ Emit \/ DcSeek

DcSpec == DcInit /\ [][DcNext]_dcVars

(***************************************************************************)
(* Properties.                                                             *)
(***************************************************************************)

DecodingTypeOK ==
  /\ dcFile \in Files /\ dcRate \in DcRates
  /\ dcSource \in [packet : 1..DcPackets + 1, skip : 0..DcFrames, remaining : 0..DcPackets * DcFrames,
                   from : Nat, to : Nat]
  /\ dcConv \in [current : 0..Decoded, next : 0..Decoded, frac : Nat, exhausted : BOOLEAN]
  /\ dcPhase \in {"drop", "current", "next", "more", "emit", "done", "refused"}
  /\ dcStart \in [packet : 1..DcPackets + 1, cuts : BOOLEAN, drop : 0..DcPackets * DcFrames]
  /\ {dcDrop, dcOut, dcSeeks} \subseteq Nat

\* The first packet of these kinds, from packet i of a list on; past the last if none.
FirstKind(list, kinds, i) ==
  CHOOSE j \in i..Len(list) + 1 :
    /\ j \in DOMAIN list => list[j].kind \in kinds
    /\ \A k \in i..j - 1 : list[k].kind \notin kinds
FramesOf(list, i) == IF i \in DOMAIN list THEN list[i].end - BeforeOf(list, i) ELSE 0

\* The delay that is not heard: in an Ogg file all of it, in a container what the
\* first packet that is decoded holds of it, and nothing if the decoder is reset before.
CutFrom(start) ==
  IF dcFile.kind = "ogg" THEN dcFile.skip
  ELSE IF start.cuts
  THEN LET first == FirstKind(dcFile.packets, {"sound", "reset", "fault"}, start.packet)
       IN Lesser(dcFile.skip, FramesOf(dcFile.packets, first))
  ELSE 0

\* The frames that are heard of a file that is read from there: from behind the
\* delay to the error that ends the sound, and in an Ogg file not past the length
\* that its last page states.
FirstFrame(start) == Before(start.packet) + CutFrom(start) + 1
LastFrame(start) ==
  LET end == Before(FirstKind(dcFile.packets, {"fault"}, start.packet))
  IN IF dcFile.kind = "ogg" THEN Lesser(dcFile.granule, end) ELSE end

\* Every output lies where the sampling rates put it, between the right two
\* frames, in a sound played from its start and after any seek, and it ends with its
\* last frame and not before: no frame is lost, repeated or out of place. A
\* played file is heard from behind the encoder's delay, and an Ogg file also after a
\* seek, to where its last page ends it; packets of others and broken ones change nothing
\* but the frames they lack. The delay of Opus in a container is
\* heard as far as it lasts longer than the first packet that is decoded, if the
\* decoder is reset before, and where a seek past 0 ms lands in it; an error
\* that is not of decoding ends the sound where it is met (decode.rs:618, 652-656,
\* 786-789, 816-819), and a seek that meets one at once leaves what was played.
FramesAreExact ==
  /\ dcPhase = "emit" =>
       LET at == FirstFrame(dcStart) + dcStart.drop + (dcOut * From) \div To
       IN dcConv = [current |-> at, next |-> Lesser(at + 1, LastFrame(dcStart)), frac |-> (dcOut * From) % To,
                    exhausted |-> at = LastFrame(dcStart)]
  /\ dcPhase = "done" =>
       dcOut = ((LastFrame(dcStart) - FirstFrame(dcStart) + 1 - dcStart.drop) * To + From - 1) \div From
===============================================================================
