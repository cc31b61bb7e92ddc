----------------------------- MODULE AudioProofs -----------------------------
(***************************************************************************)
(* What the engine makes of the graph of PipeWire, and of a sound.         *)
(***************************************************************************)
EXTENDS CaptureRouting, FeederLinks, MixQueues, Decoding, SequenceTheorems, WellFoundedInduction, TLAPS

-----------------------------------------------------------------------------
(***************************************************************************)
(* CaptureRouting.                                                         *)
(*                                                                         *)
(* Which microphone is captured, and for how long a wanted one is not, for *)
(* any sources, ranks, settings, faults and any order of events.           *)
(***************************************************************************)

(***************************************************************************)
(* The invariant.                                                          *)
(***************************************************************************)

\* The types that the argument needs: a stream is a record and not CrNobody, and
\* what is counted is a number.
StreamTyped ==
  /\ crStream \in CrStreams \cup {CrNobody} /\ crOn \in BOOLEAN
  /\ crSource \in CrNames \cup {CrAuto}
  /\ crIds \in Nat /\ crFaults \in Nat /\ crMiss \in Nat /\ crLate \in Nat

\* The watchdog's misses account for every tick that left the microphone alone,
\* and the second miss makes a new stream.
MissesCover == crLate <= crMiss /\ crMiss <= 1

CaptureInv == StreamTyped /\ SelectedMicIsNotBypassed /\ MissesCover

(***************************************************************************)
(* The stream.                                                             *)
(***************************************************************************)

\* A target that is found for a selection is the selection.
LEMMA ResolvedIsSelected ==
  ASSUME NEW sources, NEW source, source # CrAuto
  PROVE  Resolve(sources, source) \in {source, CrNobody}
BY DEF Resolve

\* While something is wanted, it is what the watchdog expects.
LEMMA WantedIsExpected ==
  ASSUME NEW sources, Resolve(sources, crSource) # CrNobody
  PROVE  Expected(sources) = Resolve(sources, crSource)
BY DEF Expected

\* Making the stream again: it is the resolved one, or there is none, for want of
\* a target or because of a fault.
LEMMA RecreatedStream ==
  ASSUME StreamTyped, NEW events, NEW sources, NEW on \in BOOLEAN, NEW source,
         Recreate(events, sources, on, source)
  PROVE  /\ crMiss' = 0 /\ crIds' \in Nat /\ crFaults' \in Nat
         /\ \/ /\ on /\ crStream' \in CrStreams /\ ~crStream'.failed
               /\ crTarget' = Resolve(sources, source) /\ crTarget' # CrNobody
            \/ /\ crStream' = CrNobody /\ crTarget' = CrNobody
               /\ (on /\ Resolve(sources, source) # CrNobody) => crFaults' # crFaults
<1> DEFINE target == Resolve(sources, source)
           wanted == on /\ target # CrNobody
<1>1. \/ /\ wanted /\ crIds' = NextId /\ crTarget' = target /\ UNCHANGED crFaults
         /\ crStream' = [node |-> NextId, failed |-> FALSE]
      \/ /\ crFaults' = IF wanted THEN crFaults + 1 ELSE crFaults
         /\ crStream' = CrNobody /\ crTarget' = CrNobody /\ UNCHANGED crIds
  BY Zenon DEF Recreate, Node
<1>2. crMiss' = 0
  BY DEF Recreate
<1>3. crIds \in Nat /\ crFaults \in Nat
  BY DEF StreamTyped
<1>4. CASE /\ wanted /\ crIds' = NextId /\ crTarget' = target /\ UNCHANGED crFaults
           /\ crStream' = [node |-> NextId, failed |-> FALSE]
  <2>1. crStream' \in CrStreams /\ ~crStream'.failed
    BY <1>3, <1>4 DEF CrStreams, NextId
  <2> QED BY <1>2, <1>3, <1>4, <2>1 DEF NextId
<1>5. CASE /\ crFaults' = IF wanted THEN crFaults + 1 ELSE crFaults
           /\ crStream' = CrNobody /\ crTarget' = CrNobody /\ UNCHANGED crIds
  BY <1>2, <1>3, <1>5
<1> QED BY <1>1, <1>4, <1>5

\* What leaves the stream alone.
LEMMA KeptStream ==
  ASSUME NEW events, NEW miss, Keep(events, miss)
  PROVE  /\ crMiss' = miss
         /\ UNCHANGED <<crStream, crTarget, crIds, crFaults>>
BY DEF Keep, crCapture

\* So the selection is kept to when the stream is made with the new settings.
LEMMA RecreatedIsSelected ==
  ASSUME StreamTyped, NEW events, NEW sources,
         crOn' \in BOOLEAN, crSource' \in CrNames \cup {CrAuto},
         Recreate(events, sources, crOn', crSource')
  PROVE  SelectedMicIsNotBypassed' /\ crStream' \in CrStreams \cup {CrNobody}
<1>1. crSource' # CrAuto => Resolve(sources, crSource') \in {crSource', CrNobody}
  BY ResolvedIsSelected
<1>2. CrNobody \notin CrStreams
  BY CaptureAssumption
<1> QED BY <1>1, <1>2, RecreatedStream DEF SelectedMicIsNotBypassed

\* A stream made from the sources known afterwards is not late, or a fault counts
\* it out.
LEMMA RecreatedIsNotLate ==
  ASSUME StreamTyped, NEW events, crOn' \in BOOLEAN,
         Recreate(events, crSources', crOn', crSource'), NEW ticks, Counts(ticks)
  PROVE  crLate' = 0
<1>1. CrNobody \notin CrStreams
  BY CaptureAssumption
<1>2. \/ crFaults' # crFaults
      \/ ~Late(crSources', crOn', crSource', crStream', crTarget')
  BY <1>1, RecreatedStream DEF Late
<1> QED BY <1>2 DEF Counts

(***************************************************************************)
(* The watchdog, and the arrival of a source.                              *)
(***************************************************************************)

\* It makes the stream again, or leaves it and counts what it saw.
LEMMA EnsuredStream ==
  ASSUME CaptureInv, NEW events, NEW sources, NEW links, UNCHANGED crSettings,
         EnsureCapture(events, sources, links)
  PROVE  \/ Recreate(events, sources, crOn', crSource')
         \/ /\ Keep(events, crMiss') /\ crMiss' \in Nat /\ crMiss' <= 1
            /\ \/ crMiss' = crMiss + 1
               \/ ~Late(sources, crOn, crSource, crStream, crTarget)
<1>1. crOn' = crOn /\ crSource' = crSource
  BY DEF crSettings
<1>2. CASE ~crOn /\ Keep(events, 0)
  BY <1>2, KeptStream DEF Late
<1>3. CASE crOn /\ crStream = CrNobody
  <2>1. CASE Expected(sources) # CrNobody
    BY <1>1, <1>3, <2>1, CaptureAssumption DEF EnsureCapture
  <2>2. CASE Expected(sources) = CrNobody
    <3>1. Keep(events, crMiss)
      BY <1>3, <2>2 DEF EnsureCapture
    <3>2. Resolve(sources, crSource) = CrNobody
      BY <2>2, WantedIsExpected
    <3> QED BY <3>1, <3>2, KeptStream DEF Late, CaptureInv, MissesCover, StreamTyped
  <2> QED BY <2>1, <2>2
<1>4. CASE crOn /\ crStream # CrNobody
  <2>1. CASE crTarget = Expected(sources) /\ StreamHeard(sources, links)
    <3>1. Keep(events, 0)
      BY <1>4, <2>1 DEF EnsureCapture
    <3>2. ~crStream.failed
      BY <2>1 DEF StreamHeard
    <3>3. Resolve(sources, crSource) # CrNobody => crTarget = Resolve(sources, crSource)
      BY <2>1, WantedIsExpected
    <3> QED BY <1>4, <3>1, <3>2, <3>3, KeptStream DEF Late
  <2>2. CASE ~(crTarget = Expected(sources) /\ StreamHeard(sources, links)) /\ ~Unfit(sources)
    <3>1. Keep(events, crMiss)
      BY <1>4, <2>2 DEF EnsureCapture
    <3>2. ~crStream.failed /\ crTarget = Expected(sources)
      BY <2>2 DEF Unfit
    <3>3. Resolve(sources, crSource) # CrNobody => crTarget = Resolve(sources, crSource)
      BY <3>2, WantedIsExpected
    <3> QED BY <1>4, <3>1, <3>2, <3>3, KeptStream DEF Late, CaptureInv, MissesCover, StreamTyped
  <2>3. CASE ~(crTarget = Expected(sources) /\ StreamHeard(sources, links)) /\ Unfit(sources)
    <3>1. CASE crMiss + 1 < Threshold
      <4>1. Keep(events, crMiss + 1)
        BY <1>4, <2>3, <3>1 DEF EnsureCapture
      <4> QED BY <3>1, <4>1, KeptStream DEF Threshold, CaptureInv, StreamTyped
    <3>2. CASE ~(crMiss + 1 < Threshold)
      BY <1>1, <1>4, <2>3, <3>2 DEF EnsureCapture
    <3> QED BY <3>1, <3>2
  <2> QED BY <2>1, <2>2, <2>3
<1> QED BY <1>2, <1>3, <1>4 DEF EnsureCapture

\* A step that leaves the stream and does not count a tick keeps the invariant.
LEMMA QuietStep ==
  ASSUME CaptureInv, UNCHANGED <<crSettings, crTarget, crMiss>>,
         crStream' \in CrStreams \cup {CrNobody}, crStream' = CrNobody <=> crStream = CrNobody,
         crIds' \in Nat, crFaults' \in Nat, Counts(0)
  PROVE  CaptureInv'
<1>1. crLate' \in Nat /\ crLate' <= crLate
  BY DEF Counts, CaptureInv, StreamTyped
<1> QED BY <1>1 DEF CaptureInv, StreamTyped, SelectedMicIsNotBypassed, MissesCover, crSettings

\* So does one that makes the stream again from what is known afterwards.
LEMMA RecreateStep ==
  ASSUME CaptureInv, NEW events, crOn' \in BOOLEAN, crSource' \in CrNames \cup {CrAuto},
         Recreate(events, crSources', crOn', crSource'), NEW ticks, Counts(ticks)
  PROVE  CaptureInv'
<1>1. StreamTyped
  BY DEF CaptureInv
<1>2. crMiss' = 0 /\ crIds' \in Nat /\ crFaults' \in Nat
  BY <1>1, RecreatedStream
<1>3. SelectedMicIsNotBypassed' /\ crStream' \in CrStreams \cup {CrNobody}
  BY <1>1, RecreatedIsSelected
<1>4. crLate' = 0
  BY <1>1, RecreatedIsNotLate
<1> QED BY <1>2, <1>3, <1>4 DEF CaptureInv, StreamTyped, MissesCover

\* And the watchdog's step, after which a tick may be counted.
LEMMA EnsureStep ==
  ASSUME CaptureInv, NEW events, NEW links, UNCHANGED crSettings,
         EnsureCapture(events, crSources', links), NEW ticks \in {0, 1}, Counts(ticks)
  PROVE  CaptureInv'
<1>1. crOn' \in BOOLEAN /\ crSource' \in CrNames \cup {CrAuto} /\ crOn' = crOn /\ crSource' = crSource
  BY DEF CaptureInv, StreamTyped, crSettings
<1>2. CASE Recreate(events, crSources', crOn', crSource')
  BY <1>1, <1>2, RecreateStep
<1>3. CASE /\ Keep(events, crMiss') /\ crMiss' \in Nat /\ crMiss' <= 1
           /\ \/ crMiss' = crMiss + 1
              \/ ~Late(crSources', crOn, crSource, crStream, crTarget)
  <2>1. UNCHANGED <<crStream, crTarget, crIds, crFaults>>
    BY <1>3, KeptStream
  <2>2. crLate' \in Nat /\ crLate' <= crMiss'
    <3>1. crLate \in Nat /\ crMiss \in Nat /\ crLate <= crMiss
      BY DEF CaptureInv, StreamTyped, MissesCover
    <3>2. CASE crMiss' = crMiss + 1
      BY <3>1, <3>2 DEF Counts
    <3>3. CASE ~Late(crSources', crOn, crSource, crStream, crTarget)
      <4>1. ~Late(crSources', crOn', crSource', crStream', crTarget')
        BY <1>1, <2>1, <3>3
      <4> QED BY <1>3, <4>1 DEF Counts
    <3> QED BY <1>3, <3>2, <3>3
  <2> QED BY <1>1, <1>3, <2>1, <2>2 DEF CaptureInv, StreamTyped, SelectedMicIsNotBypassed, MissesCover
<1> QED BY <1>2, <1>3, EnsuredStream

(***************************************************************************)
(* The steps.                                                              *)
(***************************************************************************)

LEMMA ReceiveStep ==
  ASSUME CaptureInv, Receive
  PROVE  CaptureInv'
<1> DEFINE op == Head(crEvents).op
           object == Head(crEvents).object
           events == Tail(crEvents)
<1>1. UNCHANGED crSettings /\ Arrives(op, object, events) /\ Counts(0)
  BY DEF Receive
<1>2. crOn' = crOn /\ crSource' = crSource /\ crOn \in BOOLEAN /\ crSource \in CrNames \cup {CrAuto}
  BY <1>1 DEF crSettings, CaptureInv, StreamTyped
<1>3. CASE EnsureCapture(events, crSources', crLinks)
  BY <1>1, <1>3, EnsureStep
<1>4. CASE Recreate(events, crSources', crOn, crSource)
  BY <1>1, <1>2, <1>4, RecreateStep
<1>5. CASE Keep(events, crMiss)
  <2>1. UNCHANGED <<crMiss, crStream, crTarget, crIds, crFaults>>
    BY <1>5, KeptStream
  <2> QED BY <1>1, <2>1, QuietStep DEF CaptureInv, StreamTyped
<1>6. CASE UNCHANGED <<crGraph, crStream, crTarget, crMiss, crTables, crIds, crFaults>>
  <2>1. UNCHANGED <<crMiss, crStream, crTarget, crIds, crFaults>>
    BY <1>6
  <2> QED BY <1>1, <2>1, QuietStep DEF CaptureInv, StreamTyped
<1> QED BY <1>1, <1>3, <1>4, <1>5, <1>6 DEF Arrives

LEMMA GraphStep ==
  ASSUME CaptureInv, SourceAppears \/ SourceVanishes \/ Links \/ Unlinks \/ StreamFails
  PROVE  CaptureInv'
<1>1. UNCHANGED <<crSettings, crTarget, crMiss>> /\ Counts(0)
  BY DEF SourceAppears, SourceVanishes, Links, Unlinks, StreamFails, GraphActs
<1>2. crIds' \in Nat /\ crFaults' \in Nat
  BY DEF SourceAppears, SourceVanishes, Links, Unlinks, StreamFails, NextId, CaptureInv, StreamTyped
<1>3. /\ crStream' \in CrStreams \cup {CrNobody}
      /\ crStream' = CrNobody <=> crStream = CrNobody
  <2>1. CASE StreamFails
    BY <2>1, CaptureAssumption DEF StreamFails, CaptureInv, StreamTyped, CrStreams
  <2>2. CASE UNCHANGED crStream
    BY <2>2 DEF CaptureInv, StreamTyped
  <2> QED BY <2>1, <2>2 DEF SourceAppears, SourceVanishes, Links, Unlinks
<1> QED BY <1>1, <1>2, <1>3, QuietStep

LEMMA CaptureStep ==
  ASSUME CaptureInv, [CrNext]_crVars
  PROVE  CaptureInv'
<1>1. CASE Receive
  BY <1>1, ReceiveStep
<1>2. CASE WatchdogTick
  <2>1. UNCHANGED crSettings /\ EnsureCapture(crEvents, crSources', crLinks) /\ Counts(1)
    BY <1>2 DEF WatchdogTick, crTables
  <2> QED BY <2>1, EnsureStep
<1>3. CASE Command
  <2>1. /\ crOn' \in BOOLEAN /\ crSource' \in CrNames \cup {CrAuto}
        /\ Recreate(crEvents, crSources', crOn', crSource') /\ Counts(0)
    BY <1>3 DEF Command, crTables, CaptureInv, StreamTyped
  <2> QED BY <2>1, RecreateStep
<1>4. CASE SourceAppears \/ SourceVanishes \/ Links \/ Unlinks \/ StreamFails
  BY <1>4, GraphStep
<1>5. CASE UNCHANGED crVars
  BY <1>5 DEF crVars, crSettings, crCapture, CaptureInv, StreamTyped, SelectedMicIsNotBypassed, MissesCover
<1> QED BY <1>1, <1>2, <1>3, <1>4, <1>5 DEF CrNext

LEMMA CaptureInvariant == CrSpec => []CaptureInv
<1>1. CrInit => CaptureInv
  BY DEF CrInit, CaptureInv, StreamTyped, SelectedMicIsNotBypassed, MissesCover
<1>2. CaptureInv /\ [CrNext]_crVars => CaptureInv'
  BY CaptureStep
<1> QED BY <1>1, <1>2, PTL DEF CrSpec

(***************************************************************************)
(* Theorems.                                                               *)
(***************************************************************************)

\* A microphone that the user did not select is never captured in place of the
\* selected one (resolve_capture_target, recreate_capture_stream).
THEOREM SelectionIsKept == CrSpec => []SelectedMicIsNotBypassed
<1>1. CaptureInv => SelectedMicIsNotBypassed
  BY DEF CaptureInv
<1> QED BY <1>1, CaptureInvariant, PTL

(***************************************************************************)
(* What the engine hears of the graph.                                     *)
(***************************************************************************)

\* What the engine may be looking for; it is a name, which does not matter here.
Targets == CrNames \cup {CrNobody} \cup {Best(sources) : sources \in SUBSET CrObjects}
Known == CrObjects \cup [kind : {"capture"}, id : 1..CrMaxIds, name : Targets]
CrEvent == [op : {"add", "remove"}, object : Known]

GraphTyped ==
  /\ crGraph \subseteq Known /\ crEvents \in Seq(CrEvent)
  /\ crSources \subseteq CrObjects /\ crLinks \subseteq CrObjects
  /\ \A s \in crSources : s.kind = "source"
  /\ \A l \in crLinks : l.kind = "link"
  /\ crStream # CrNobody => crStream \in [node : 1..CrMaxIds, failed : BOOLEAN]
  /\ crTarget \in Targets /\ crNode \in Nat
  /\ crIds \in 0..CrMaxIds /\ crSource \in CrNames \cup {CrAuto} /\ crOn \in BOOLEAN

\* The graph holds the engine's capture node and no other; sources differ in
\* their names; and a link joins the capture node and the source it is made for.
CapturesOf(stream, target) ==
  IF stream = CrNobody THEN {} ELSE {Node("capture", stream.node, target)}
WellJoined(graph, stream, target) ==
  /\ Objects(graph, "capture") = CapturesOf(stream, target)
  /\ \A s, t \in Objects(graph, "source") : s.name = t.name => s = t
  /\ \A l \in Objects(graph, "link") : \E s \in Objects(graph, "source") :
       stream # CrNobody /\ s.name = target /\ l = Link(s.id, stream.node)

\* The last event about an object says whether it is there; with no event under
\* way, the engine knows.
Replayed(queue, object, known, there) ==
  /\ \A i \in 1..Len(queue) :
       queue[i].object = object /\ (\A j \in 1..Len(queue) : i < j => queue[j].object # object)
         => (queue[i].op = "add" <=> there)
  /\ (\A i \in 1..Len(queue) : queue[i].object # object) => (known <=> there)
TablesFollow(queue, known, graph) ==
  \A object \in CrObjects : object.kind # "capture" =>
    Replayed(queue, object, object \in known, object \in graph)

\* What the engine takes for its capture node is that, or its removal is under way.
Removed(queue, id, from) ==
  \E i \in 1..Len(queue) : from < i /\ queue[i].op = "remove"
                           /\ queue[i].object.kind = "capture" /\ queue[i].object.id = id
NodeFollows(queue, node, stream) ==
  /\ node = 0 \/ (stream # CrNobody /\ node = stream.node) \/ Removed(queue, node, 0)
  /\ \A i \in 1..Len(queue) :
       queue[i].op = "add" /\ queue[i].object.kind = "capture" =>
         (stream # CrNobody /\ queue[i].object.id = stream.node)
           \/ Removed(queue, queue[i].object.id, i)

HearingInv ==
  /\ GraphTyped
  /\ crStream = CrNobody <=> crTarget = CrNobody
  /\ WellJoined(crGraph, crStream, crTarget)
  /\ TablesFollow(crEvents, crSources \cup crLinks, crGraph)
  /\ NodeFollows(crEvents, crNode, crStream)

\* A record that is a link is the link of its ends.
LEMMA LinksAreRecords ==
  ASSUME NEW o \in CrObjects, o.kind = "link"
  PROVE  o = Link(o.from, o.to)
BY DEF CrObjects, Link

\* When no event is under way the engine hears its microphone just when the two
\* are joined.
LEMMA HeardWhenSettled == HearingInv => SettledGraphIsHeard
<1> SUFFICES ASSUME HearingInv, crEvents = <<>>, crStream # CrNobody, ~crStream.failed
             PROVE  StreamHeard(crSources, crLinks)
                      <=> \E l \in Objects(crGraph, "link") : l.to = crStream.node
  BY DEF SettledGraphIsHeard
<1> DEFINE node == IF crNode # 0 THEN crNode ELSE crStream.node
<1>1. \A i \in 1..Len(crEvents) : FALSE
  OBVIOUS
<1>2. node = crStream.node
  BY <1>1 DEF HearingInv, NodeFollows, Removed
<1>3. \A o \in CrObjects : o.kind # "capture" => (o \in crSources \cup crLinks <=> o \in crGraph)
  BY <1>1 DEF HearingInv, TablesFollow, Replayed
<1>4. Objects(crGraph, "source") = crSources /\ Objects(crGraph, "link") = crLinks
  BY <1>3 DEF HearingInv, GraphTyped, Objects, Known
<1>5. StreamHeard(crSources, crLinks) <=>
        /\ Named(crSources, crTarget) # {}
        /\ \A s \in Named(crSources, crTarget) : Link(s.id, crStream.node) \in crLinks
  BY <1>2 DEF StreamHeard
<1>6. ASSUME Named(crSources, crTarget) # {},
             \A s \in Named(crSources, crTarget) : Link(s.id, crStream.node) \in crLinks
      PROVE  \E l \in Objects(crGraph, "link") : l.to = crStream.node
  <2>1. PICK s \in crSources : Link(s.id, crStream.node) \in crLinks
    BY <1>6 DEF Named
  <2>2. Link(s.id, crStream.node).to = crStream.node
    BY DEF Link
  <2> QED BY <1>4, <2>1, <2>2
<1>7. ASSUME NEW l \in Objects(crGraph, "link"), l.to = crStream.node
      PROVE  /\ Named(crSources, crTarget) # {}
             /\ \A s \in Named(crSources, crTarget) : Link(s.id, crStream.node) \in crLinks
  <2>1. PICK s \in Objects(crGraph, "source") : s.name = crTarget /\ l = Link(s.id, crStream.node)
    BY DEF HearingInv, WellJoined
  <2>2. s \in Named(crSources, crTarget)
    BY <1>4, <2>1 DEF Named
  <2>3. \A t \in Named(crSources, crTarget) : t = s
    BY <1>4, <2>1 DEF Named, HearingInv, WellJoined
  <2> QED BY <1>4, <2>1, <2>2, <2>3
<1> QED BY <1>5, <1>6, <1>7

\* An event that is added to the queue.
LEMMA Added ==
  ASSUME NEW queue \in Seq(CrEvent), NEW e \in CrEvent
  PROVE  /\ Len(Append(queue, e)) = Len(queue) + 1 /\ Len(queue) \in Nat
         /\ Append(queue, e) \in Seq(CrEvent)
         /\ Append(queue, e)[Len(queue) + 1] = e
         /\ \A i \in 1..Len(queue) : Append(queue, e)[i] = queue[i]
         /\ \A i \in 1..Len(Append(queue, e)) : i \in 1..Len(queue) \/ i = Len(queue) + 1
         /\ \A i \in 1..Len(queue) : i \in 1..Len(Append(queue, e)) /\ i < Len(queue) + 1
         /\ Len(queue) + 1 \in 1..Len(Append(queue, e))
OBVIOUS

\* And one that is taken out.
LEMMA GraphEventTaken ==
  ASSUME NEW queue \in Seq(CrEvent), queue # <<>>
  PROVE  /\ Len(Tail(queue)) = Len(queue) - 1 /\ Len(queue) \in Nat \ {0}
         /\ Tail(queue) \in Seq(CrEvent) /\ Head(queue) \in CrEvent
         /\ 1 \in 1..Len(queue) /\ Head(queue) = queue[1]
         /\ \A i \in 1..Len(Tail(queue)) :
              i + 1 \in 1..Len(queue) /\ i \in Nat /\ Tail(queue)[i] = queue[i + 1] /\ 1 < i + 1
         /\ \A i \in 1..Len(queue) :
              i = 1 \/ (i - 1 \in 1..Len(Tail(queue)) /\ queue[i] = Tail(queue)[i - 1])
OBVIOUS

\* Sources and links are records of the known shapes.
LEMMA NotCapture ==
  ASSUME NEW o \in Known, o.kind # "capture"
  PROVE  o \in CrObjects
BY DEF Known

\* The graph changes and sends the event that says so.
LEMMA EventAdded ==
  ASSUME NEW queue \in Seq(CrEvent), NEW e \in CrEvent, NEW known, NEW graph, NEW graph2,
         TablesFollow(queue, known, graph),
         e.object.kind # "capture" => (e.object \in graph2 <=> e.op = "add"),
         \A o \in CrObjects : o.kind # "capture" /\ o # e.object => (o \in graph2 <=> o \in graph)
  PROVE  TablesFollow(Append(queue, e), known, graph2)
<1> DEFINE new == Append(queue, e)
<1>1. /\ Len(new) = Len(queue) + 1 /\ Len(queue) \in Nat
      /\ new[Len(queue) + 1] = e
      /\ \A i \in 1..Len(queue) : new[i] = queue[i]
      /\ \A i \in 1..Len(new) : i \in 1..Len(queue) \/ i = Len(queue) + 1
      /\ \A i \in 1..Len(queue) : i \in 1..Len(new) /\ i < Len(queue) + 1
      /\ Len(queue) + 1 \in 1..Len(new)
  BY Added
<1> HIDE DEF new
<1> SUFFICES ASSUME NEW o \in CrObjects, o.kind # "capture"
             PROVE  Replayed(new, o, o \in known, o \in graph2)
  BY DEF TablesFollow, new
<1>2. Replayed(queue, o, o \in known, o \in graph)
  BY DEF TablesFollow
<1>3. ASSUME NEW i \in 1..Len(new), new[i].object = o,
             \A j \in 1..Len(new) : i < j => new[j].object # o
      PROVE  new[i].op = "add" <=> o \in graph2
  <2>1. CASE i = Len(queue) + 1
    BY <1>1, <1>3, <2>1
  <2>2. CASE i \in 1..Len(queue)
    <3>1. o # e.object
      BY <1>1, <1>3, <2>2
    <3>2. queue[i].object = o /\ \A j \in 1..Len(queue) : i < j => queue[j].object # o
      BY <1>1, <1>3, <2>2
    <3>3. queue[i].op = "add" <=> o \in graph
      BY <1>2, <2>2, <3>2 DEF Replayed
    <3> QED BY <1>1, <2>2, <3>1, <3>3
  <2> QED BY <1>1, <2>1, <2>2
<1>4. ASSUME \A i \in 1..Len(new) : new[i].object # o
      PROVE  o \in known <=> o \in graph2
  <2>1. o # e.object /\ \A i \in 1..Len(queue) : queue[i].object # o
    BY <1>1, <1>4
  <2> QED BY <1>2, <2>1 DEF Replayed
<1> QED BY <1>3, <1>4 DEF Replayed

\* Only captures change.
LEMMA CapturesDiffer ==
  ASSUME NEW queue, NEW known, NEW graph, NEW graph2, TablesFollow(queue, known, graph),
         \A o \in CrObjects : o.kind # "capture" => (o \in graph2 <=> o \in graph)
  PROVE  TablesFollow(queue, known, graph2)
BY DEF TablesFollow, Replayed

\* The engine has handled an event and holds what it says.
LEMMA EventHandled ==
  ASSUME NEW queue \in Seq(CrEvent), queue # <<>>, NEW known, NEW known2, NEW graph,
         TablesFollow(queue, known, graph),
         Head(queue).object.kind # "capture"
           => (Head(queue).object \in known2 <=> Head(queue).op = "add"),
         \A o \in CrObjects : o.kind # "capture" /\ o # Head(queue).object
           => (o \in known2 <=> o \in known)
  PROVE  TablesFollow(Tail(queue), known2, graph)
<1> DEFINE rest == Tail(queue)
           e == Head(queue)
<1>1. /\ Len(rest) = Len(queue) - 1 /\ Len(queue) \in Nat \ {0}
      /\ 1 \in 1..Len(queue) /\ e = queue[1]
      /\ \A i \in 1..Len(rest) :
           i + 1 \in 1..Len(queue) /\ i \in Nat /\ rest[i] = queue[i + 1] /\ 1 < i + 1
      /\ \A i \in 1..Len(queue) :
           i = 1 \/ (i - 1 \in 1..Len(rest) /\ queue[i] = rest[i - 1])
  BY GraphEventTaken
<1> HIDE DEF rest, e
<1> SUFFICES ASSUME NEW o \in CrObjects, o.kind # "capture"
             PROVE  Replayed(rest, o, o \in known2, o \in graph)
  BY DEF TablesFollow, rest
<1>2. Replayed(queue, o, o \in known, o \in graph)
  BY DEF TablesFollow
<1>3. ASSUME NEW i \in 1..Len(rest), rest[i].object = o,
             \A j \in 1..Len(rest) : i < j => rest[j].object # o
      PROVE  rest[i].op = "add" <=> o \in graph
  <2>1. i + 1 \in 1..Len(queue) /\ queue[i + 1] = rest[i]
    BY <1>1
  <2>2. ASSUME NEW j \in 1..Len(queue), i + 1 < j PROVE queue[j].object # o
    <3>1. j - 1 \in 1..Len(rest) /\ queue[j] = rest[j - 1] /\ i < j - 1
      BY <1>1, <2>2
    <3> QED BY <1>3, <3>1
  <2> QED BY <1>2, <1>3, <2>1, <2>2 DEF Replayed
<1>4. ASSUME \A i \in 1..Len(rest) : rest[i].object # o
      PROVE  o \in known2 <=> o \in graph
  <2>1. ASSUME NEW j \in 1..Len(queue), 1 < j PROVE queue[j].object # o
    <3>1. j - 1 \in 1..Len(rest) /\ queue[j] = rest[j - 1]
      BY <1>1, <2>1
    <3> QED BY <1>4, <3>1
  <2>2. CASE o = e.object
    <3>1. queue[1].op = "add" <=> o \in graph
      BY <1>1, <1>2, <2>1, <2>2 DEF Replayed
    <3> QED BY <1>1, <2>2, <3>1 DEF e
  <2>3. CASE o # e.object
    <3>1. \A j \in 1..Len(queue) : queue[j].object # o
      BY <1>1, <2>1, <2>3
    <3>2. o \in known <=> o \in graph
      BY <1>2, <3>1 DEF Replayed
    <3> QED BY <2>3, <3>2 DEF e
  <2> QED BY <2>2, <2>3
<1> QED BY <1>3, <1>4 DEF Replayed

(***************************************************************************)
(* The same of the capture node.                                           *)
(***************************************************************************)

\* An event that is no new capture node.
LEMMA OtherEventAdded ==
  ASSUME NEW queue \in Seq(CrEvent), NEW e \in CrEvent, NEW node, NEW stream,
         NodeFollows(queue, node, stream), ~(e.op = "add" /\ e.object.kind = "capture")
  PROVE  NodeFollows(Append(queue, e), node, stream)
<1> DEFINE new == Append(queue, e)
<1>1. /\ Len(new) = Len(queue) + 1 /\ Len(queue) \in Nat
      /\ new[Len(queue) + 1] = e
      /\ \A i \in 1..Len(queue) : new[i] = queue[i]
      /\ \A i \in 1..Len(new) : i \in 1..Len(queue) \/ i = Len(queue) + 1
      /\ \A i \in 1..Len(queue) : i \in 1..Len(new) /\ i < Len(queue) + 1
  BY Added
<1> HIDE DEF new
<1>2. \A id, from : Removed(queue, id, from) => Removed(new, id, from)
  BY <1>1 DEF Removed
<1>3. NodeFollows(new, node, stream)
  BY <1>1, <1>2 DEF NodeFollows
<1> QED BY <1>3 DEF new

\* The capture node of the stream goes: every one that was announced has gone.
LEMMA CaptureGone ==
  ASSUME NEW queue \in Seq(CrEvent), NEW e \in CrEvent, NEW node, NEW stream,
         NodeFollows(queue, node, stream),
         e.op = "remove", e.object.kind = "capture", e.object.id = stream.node
  PROVE  NodeFollows(Append(queue, e), 0, CrNobody)
<1> DEFINE new == Append(queue, e)
<1>1. /\ Len(new) = Len(queue) + 1 /\ Len(queue) \in Nat
      /\ new[Len(queue) + 1] = e
      /\ \A i \in 1..Len(queue) : new[i] = queue[i]
      /\ \A i \in 1..Len(new) : i \in 1..Len(queue) \/ i = Len(queue) + 1
      /\ \A i \in 1..Len(queue) : i \in 1..Len(new) /\ i < Len(queue) + 1
      /\ Len(queue) + 1 \in 1..Len(new)
  BY Added
<1> HIDE DEF new
<1>2. \A id, from : Removed(queue, id, from) => Removed(new, id, from)
  BY <1>1 DEF Removed
<1>3. \A i \in 1..Len(queue) : Removed(new, stream.node, i)
  BY <1>1 DEF Removed
<1>4. ASSUME NEW i \in 1..Len(new), new[i].op = "add", new[i].object.kind = "capture"
      PROVE  Removed(new, new[i].object.id, i)
  <2>1. i \in 1..Len(queue) /\ new[i] = queue[i]
    BY <1>1, <1>4
  <2> QED BY <1>2, <1>3, <1>4, <2>1 DEF NodeFollows
<1>5. NodeFollows(new, 0, CrNobody)
  BY <1>4 DEF NodeFollows
<1> QED BY <1>5 DEF new

\* A stream is made where there was none.
LEMMA CaptureMade ==
  ASSUME NEW queue \in Seq(CrEvent), NEW e \in CrEvent, NEW stream, stream # CrNobody,
         NodeFollows(queue, 0, CrNobody),
         e.op = "add", e.object.kind = "capture", e.object.id = stream.node
  PROVE  NodeFollows(Append(queue, e), 0, stream)
<1> DEFINE new == Append(queue, e)
<1>1. /\ Len(new) = Len(queue) + 1 /\ Len(queue) \in Nat
      /\ new[Len(queue) + 1] = e
      /\ \A i \in 1..Len(queue) : new[i] = queue[i]
      /\ \A i \in 1..Len(new) : i \in 1..Len(queue) \/ i = Len(queue) + 1
      /\ \A i \in 1..Len(queue) : i \in 1..Len(new) /\ i < Len(queue) + 1
  BY Added
<1> HIDE DEF new
<1>2. \A id, from : Removed(queue, id, from) => Removed(new, id, from)
  BY <1>1 DEF Removed
<1>3. NodeFollows(new, 0, stream)
  BY <1>1, <1>2 DEF NodeFollows
<1> QED BY <1>3 DEF new

\* The engine has handled an event.
LEMMA NodeHandled ==
  ASSUME NEW queue \in Seq(CrEvent), queue # <<>>, NEW node, NEW node2, NEW stream,
         NodeFollows(queue, node, stream),
         Head(queue).object.kind # "capture" => node2 = node,
         Head(queue).object.kind = "capture" =>
           node2 = IF Head(queue).op = "add" THEN Head(queue).object.id
                   ELSE IF node = Head(queue).object.id THEN 0 ELSE node
  PROVE  NodeFollows(Tail(queue), node2, stream)
<1> DEFINE rest == Tail(queue)
           e == Head(queue)
<1>1. /\ Len(rest) = Len(queue) - 1 /\ Len(queue) \in Nat \ {0}
      /\ 1 \in 1..Len(queue) /\ e = queue[1] /\ e \in CrEvent
      /\ \A i \in 1..Len(rest) :
           i + 1 \in 1..Len(queue) /\ i \in Nat /\ rest[i] = queue[i + 1] /\ 1 < i + 1
      /\ \A i \in 1..Len(queue) :
           i = 1 \/ (i - 1 \in 1..Len(rest) /\ queue[i] = rest[i - 1])
  BY GraphEventTaken
<1>0. /\ e.object.kind # "capture" => node2 = node
      /\ e.object.kind = "capture" =>
           node2 = IF e.op = "add" THEN e.object.id ELSE IF node = e.object.id THEN 0 ELSE node
  OBVIOUS
<1> HIDE DEF rest, e
<1>2. ASSUME NEW id, NEW from \in Nat, Removed(queue, id, from + 1) PROVE Removed(rest, id, from)
  <2>1. PICK i \in 1..Len(queue) : from + 1 < i /\ queue[i].op = "remove"
          /\ queue[i].object.kind = "capture" /\ queue[i].object.id = id
    BY <1>2 DEF Removed
  <2>2. i - 1 \in 1..Len(rest) /\ queue[i] = rest[i - 1] /\ from < i - 1
    BY <1>1, <2>1
  <2> QED BY <2>1, <2>2 DEF Removed
<1>3. ASSUME NEW id, Removed(queue, id, 0),
             ~(e.op = "remove" /\ e.object.kind = "capture" /\ e.object.id = id)
      PROVE  Removed(rest, id, 0)
  <2>1. PICK i \in 1..Len(queue) : queue[i].op = "remove"
          /\ queue[i].object.kind = "capture" /\ queue[i].object.id = id
    BY <1>3 DEF Removed
  <2>2. i - 1 \in 1..Len(rest) /\ queue[i] = rest[i - 1]
    BY <1>1, <1>3, <2>1
  <2> QED BY <2>1, <2>2 DEF Removed
<1>4. node2 = 0 \/ (stream # CrNobody /\ node2 = stream.node) \/ Removed(rest, node2, 0)
  <2>1. CASE e.object.kind = "capture" /\ e.op = "add"
    <3>1. node2 = queue[1].object.id
      BY <1>0, <1>1, <2>1
    <3>2. (stream # CrNobody /\ node2 = stream.node) \/ Removed(queue, node2, 1)
      BY <1>1, <2>1, <3>1 DEF NodeFollows
    <3>3. Removed(queue, node2, 1) => Removed(rest, node2, 0)
      BY <1>2
    <3> QED BY <3>2, <3>3
  <2>2. CASE ~(e.object.kind = "capture" /\ e.op = "add")
    <3>1. node2 = 0 \/ (node2 = node /\ ~(e.op = "remove" /\ e.object.kind = "capture" /\ e.object.id = node))
      BY <1>0, <1>1, <2>2 DEF CrEvent
    <3> QED BY <1>3, <3>1 DEF NodeFollows
  <2> QED BY <2>1, <2>2
<1>5. ASSUME NEW i \in 1..Len(rest), rest[i].op = "add", rest[i].object.kind = "capture"
      PROVE  (stream # CrNobody /\ rest[i].object.id = stream.node)
               \/ Removed(rest, rest[i].object.id, i)
  <2>1. i + 1 \in 1..Len(queue) /\ i \in Nat /\ rest[i] = queue[i + 1]
    BY <1>1
  <2>2. (stream # CrNobody /\ rest[i].object.id = stream.node) \/ Removed(queue, rest[i].object.id, i + 1)
    BY <1>5, <2>1 DEF NodeFollows
  <2> QED BY <1>2, <2>1, <2>2
<1>6. NodeFollows(rest, node2, stream)
  BY <1>4, <1>5 DEF NodeFollows
<1> QED BY <1>6 DEF rest

(***************************************************************************)
(* A node leaves the graph.                                                *)
(***************************************************************************)

\* The links there are join one source and the capture node: there is at most one.
LEMMA OneLink ==
  ASSUME WellJoined(crGraph, crStream, crTarget),
         NEW l \in Objects(crGraph, "link"), NEW k \in Objects(crGraph, "link")
  PROVE  l = k
<1>1. PICK s \in Objects(crGraph, "source") : s.name = crTarget /\ l = Link(s.id, crStream.node)
  BY DEF WellJoined
<1>2. PICK t \in Objects(crGraph, "source") : t.name = crTarget /\ k = Link(t.id, crStream.node)
  BY DEF WellJoined
<1>3. s = t
  BY <1>1, <1>2 DEF WellJoined
<1> QED BY <1>1, <1>2, <1>3

\* The events of a removal are about the node and its links, and follow the graph.
LEMMA RemovalFollows ==
  ASSUME GraphTyped, WellJoined(crGraph, crStream, crTarget), NEW queue \in Seq(CrEvent),
         NEW known, TablesFollow(queue, known, crGraph), NEW n \in crGraph, n.kind # "link",
         NEW node, NodeFollows(queue, node, crStream)
  PROVE  /\ queue \o Removal(n) \in Seq(CrEvent)
         /\ TablesFollow(queue \o Removal(n), known, crGraph \ ({n} \cup LinksOf(n)))
         /\ n.kind # "capture" => NodeFollows(queue \o Removal(n), node, crStream)
         /\ n.kind = "capture" /\ n.id = crStream.node
              => NodeFollows(queue \o Removal(n), 0, CrNobody)
<1> DEFINE e == Event("remove", n)
<1>1. /\ e \in CrEvent /\ e.op = "remove" /\ e.object = n
      /\ n \in Known
  BY DEF GraphTyped, CrEvent, Event
<1>2. \A l \in LinksOf(n) : l \in crGraph /\ l \in Known /\ l.kind = "link"
  BY DEF LinksOf, Objects, GraphTyped
<1> HIDE DEF e
<1>3. CASE LinksOf(n) = {}
  <2>1. queue \o Removal(n) = Append(queue, e)
    BY <1>1, <1>3 DEF Removal, e
  <2>2. Append(queue, e) \in Seq(CrEvent)
    BY <1>1, Added
  <2>3. TablesFollow(Append(queue, e), known, crGraph \ ({n} \cup LinksOf(n)))
    BY <1>1, <1>3, EventAdded
  <2>4. n.kind # "capture" => NodeFollows(Append(queue, e), node, crStream)
    BY <1>1, OtherEventAdded
  <2>5. n.kind = "capture" /\ n.id = crStream.node => NodeFollows(Append(queue, e), 0, CrNobody)
    BY <1>1, CaptureGone
  <2> QED BY <2>1, <2>2, <2>3, <2>4, <2>5
<1>4. CASE LinksOf(n) # {}
  <2> DEFINE l == CHOOSE k \in LinksOf(n) : TRUE
             d == Event("remove", l)
             queue2 == Append(queue, d)
  <2>1. l \in LinksOf(n)
    BY <1>4
  <2>2. LinksOf(n) = {l}
    BY <2>1, OneLink DEF LinksOf
  <2>3. queue \o Removal(n) = Append(queue2, e)
    <3>1. Removal(n) = <<d, e>>
      BY <1>4 DEF Removal, e
    <3>2. d \in CrEvent
      BY <1>2, <2>1 DEF CrEvent, Event
    <3> HIDE DEF d
    <3> QED BY <1>1, <3>1, <3>2
  <2> HIDE DEF l
  <2>4. d \in CrEvent /\ d.op = "remove" /\ d.object = l /\ l.kind = "link" /\ l \in Known
    BY <1>2, <2>1 DEF CrEvent, Event
  <2> HIDE DEF d
  <2>5. queue2 \in Seq(CrEvent) /\ Append(queue2, e) \in Seq(CrEvent)
    BY <1>1, <2>4, Added
  <2>6. TablesFollow(queue2, known, crGraph \ {l})
    BY <2>4, EventAdded
  <2>7. NodeFollows(queue2, node, crStream)
    BY <2>4, OtherEventAdded
  <2> HIDE DEF queue2
  <2>8. TablesFollow(Append(queue2, e), known, (crGraph \ {l}) \ {n})
    BY <1>1, <2>5, <2>6, EventAdded
  <2>9. (crGraph \ {l}) \ {n} = crGraph \ ({n} \cup LinksOf(n))
    BY <2>2
  <2>10. n.kind # "capture" => NodeFollows(Append(queue2, e), node, crStream)
    BY <1>1, <2>5, <2>7, OtherEventAdded
  <2>11. n.kind = "capture" /\ n.id = crStream.node => NodeFollows(Append(queue2, e), 0, CrNobody)
    BY <1>1, <2>5, <2>7, CaptureGone
  <2> QED BY <2>3, <2>5, <2>8, <2>9, <2>10, <2>11
<1> QED BY <1>3, <1>4


(***************************************************************************)
(* The stream is made again.                                               *)
(***************************************************************************)

LEMMA ResolvedIsATarget ==
  ASSUME NEW sources \in SUBSET CrObjects, NEW source \in CrNames \cup {CrAuto}
  PROVE  Resolve(sources, source) \in Targets
BY DEF Resolve, Targets

\* Whatever was there, the old capture node goes with its link, and the new one
\* comes without.
LEMMA RecreateHeard ==
  ASSUME GraphTyped, WellJoined(crGraph, crStream, crTarget),
         NEW events \in Seq(CrEvent), NEW known, TablesFollow(events, known, crGraph),
         NEW node, NodeFollows(events, node, crStream),
         NEW sources \in SUBSET CrObjects, NEW source \in CrNames \cup {CrAuto}, NEW on,
         Recreate(events, sources, on, source)
  PROVE  /\ crGraph' \subseteq Known /\ crEvents' \in Seq(CrEvent)
         /\ crStream' # CrNobody => crStream' \in [node : 1..CrMaxIds, failed : BOOLEAN]
         /\ crTarget' \in Targets /\ crNode' = 0 /\ crIds' \in 0..CrMaxIds
         /\ crStream' = CrNobody <=> crTarget' = CrNobody
         /\ WellJoined(crGraph', crStream', crTarget')
         /\ TablesFollow(crEvents', known, crGraph')
         /\ NodeFollows(crEvents', 0, crStream')
<1> DEFINE old == {n \in Objects(crGraph, "capture") : crStream # CrNobody /\ n.id = crStream.node}
           gone == old \cup UNION {LinksOf(n) : n \in old}
           left == IF old = {} THEN events ELSE events \o Removal(CHOOSE n \in old : TRUE)
           target == Resolve(sources, source)
           new == Node("capture", NextId, target)
           wanted == on /\ target # CrNobody
           bare == crGraph \ gone
<1>1. /\ crNode' = 0
      /\ \/ /\ wanted /\ crIds < CrMaxIds
            /\ crIds' = NextId
            /\ crStream' = [node |-> new.id, failed |-> FALSE] /\ crTarget' = target
            /\ crGraph' = bare \cup {new}
            /\ crEvents' = Append(left, Event("add", new))
         \/ /\ crStream' = CrNobody /\ crTarget' = CrNobody
            /\ crGraph' = bare
            /\ crEvents' = left
            /\ crIds' = crIds
  BY Zenon DEF Recreate
<1>2. target \in Targets
  BY ResolvedIsATarget
<1>3. /\ left \in Seq(CrEvent) /\ TablesFollow(left, known, bare) /\ NodeFollows(left, 0, CrNobody)
      /\ Objects(bare, "capture") = {} /\ Objects(bare, "link") = {}
      /\ bare \subseteq crGraph
  <2>1. CASE crStream = CrNobody
    <3>1. old = {} /\ gone = {} /\ left = events /\ bare = crGraph
      BY <2>1
    <3>2. Objects(crGraph, "capture") = {} /\ Objects(crGraph, "link") = {}
      BY <2>1 DEF WellJoined, CapturesOf
    <3>3. NodeFollows(events, 0, CrNobody)
      BY <2>1 DEF NodeFollows
    <3> QED BY <3>1, <3>2, <3>3
  <2>2. CASE crStream # CrNobody
    <3> DEFINE c == Node("capture", crStream.node, crTarget)
    <3>1. Objects(crGraph, "capture") = {c} /\ c.id = crStream.node /\ c.kind = "capture"
      BY <2>2 DEF WellJoined, CapturesOf, Node
    <3> HIDE DEF c
    <3>2. old = {c}
      BY <2>2, <3>1
    <3>3. (CHOOSE n \in old : TRUE) = c
      BY <3>2
    <3>4. gone = {c} \cup LinksOf(c) /\ left = events \o Removal(c) /\ c \in crGraph
      BY <3>1, <3>2, <3>3 DEF Objects
    <3>5. /\ left \in Seq(CrEvent) /\ TablesFollow(left, known, bare)
          /\ NodeFollows(left, 0, CrNobody)
      BY <3>1, <3>4, RemovalFollows
    <3>6. Objects(bare, "capture") = {}
      BY <3>1, <3>4 DEF Objects
    <3>7. \A l \in Objects(crGraph, "link") : l \in LinksOf(c)
      <4>1. \A l \in Objects(crGraph, "link") : l.to = c.id
        BY <3>1 DEF WellJoined, Link
      <4> QED BY <4>1 DEF LinksOf
    <3>8. Objects(bare, "link") = {}
      BY <3>4, <3>7 DEF Objects
    <3> QED BY <3>5, <3>6, <3>8
  <2> QED BY <2>1, <2>2
<1>4. \A s, t \in Objects(bare, "source") : s.name = t.name => s = t
  BY <1>3 DEF Objects, WellJoined
<1>5. crGraph \subseteq Known /\ crIds \in 0..CrMaxIds
  BY DEF GraphTyped
<1>6. new.id = NextId /\ new.kind = "capture" /\ new = Node("capture", NextId, target)
  BY DEF Node
<1> HIDE DEF left, bare, target
<1>7. CASE /\ wanted /\ crIds < CrMaxIds
           /\ crIds' = NextId
           /\ crStream' = [node |-> new.id, failed |-> FALSE] /\ crTarget' = target
           /\ crGraph' = bare \cup {new}
           /\ crEvents' = Append(left, Event("add", new))
  <2>1. NextId \in 1..CrMaxIds /\ crIds' \in 0..CrMaxIds
    BY <1>5, <1>7, CaptureAssumption DEF NextId
  <2>2. crStream' \in [node : 1..CrMaxIds, failed : BOOLEAN] /\ crStream'.node = NextId
    BY <1>6, <1>7, <2>1
  <2>3. crStream' # CrNobody
    BY <2>2, CaptureAssumption DEF CrStreams
  <2>4. new \in Known
    BY <1>2, <2>1 DEF Known, Node
  <2> DEFINE e == Event("add", new)
  <2>5. e \in CrEvent /\ e.op = "add" /\ e.object = new
    BY <2>4 DEF Event, CrEvent
  <2> HIDE DEF new, e
  <2>6. crEvents' = Append(left, e)
    BY <1>7 DEF e
  <2>7. crEvents' \in Seq(CrEvent)
    BY <1>3, <2>5, <2>6, Added
  <2>8. TablesFollow(crEvents', known, crGraph')
    <3>1. \A o \in CrObjects : o.kind # "capture" /\ o # e.object => (o \in bare \cup {new} <=> o \in bare)
      BY <2>5
    <3>2. TablesFollow(Append(left, e), known, bare \cup {new})
      BY <1>3, <1>6, <2>5, <3>1, EventAdded
    <3> QED BY <1>7, <2>6, <3>2
  <2>9. NodeFollows(crEvents', 0, crStream')
    BY <1>3, <1>6, <2>2, <2>3, <2>5, <2>6, CaptureMade
  <2>10. WellJoined(crGraph', crStream', crTarget')
    <3>1. /\ Objects(crGraph', "capture") = {new}
          /\ Objects(crGraph', "source") = Objects(bare, "source")
          /\ Objects(crGraph', "link") = {}
      BY <1>3, <1>6, <1>7 DEF Objects
    <3>2. new = Node("capture", crStream'.node, crTarget')
      BY <1>6, <1>7, <2>2
    <3> QED BY <1>4, <2>3, <3>1, <3>2 DEF WellJoined, CapturesOf
  <2> QED BY <1>1, <1>2, <1>3, <1>5, <1>7, <2>1, <2>2, <2>3, <2>4, <2>7, <2>8, <2>9, <2>10
<1>8. CASE /\ crStream' = CrNobody /\ crTarget' = CrNobody
           /\ crGraph' = bare
           /\ crEvents' = left
           /\ crIds' = crIds
  <2>1. WellJoined(crGraph', crStream', crTarget')
    BY <1>3, <1>4, <1>8 DEF WellJoined, CapturesOf
  <2>2. CrNobody \in Targets
    BY DEF Targets
  <2> QED BY <1>1, <1>3, <1>5, <1>8, <2>1, <2>2
<1> QED BY <1>1, <1>7, <1>8

\* The stream is left alone.
LEMMA KeepHeard ==
  ASSUME NEW events, NEW miss, Keep(events, miss)
  PROVE  crEvents' = events /\ UNCHANGED <<crGraph, crStream, crTarget, crNode, crIds>>
BY DEF Keep, crCapture

\* The parts of the invariant, after a step.
LEMMA Together ==
  ASSUME crGraph' \subseteq Known, crEvents' \in Seq(CrEvent),
         crSources' \subseteq CrObjects, crLinks' \subseteq CrObjects,
         \A s \in crSources' : s.kind = "source", \A l \in crLinks' : l.kind = "link",
         crStream' # CrNobody => crStream' \in [node : 1..CrMaxIds, failed : BOOLEAN],
         crTarget' \in Targets, crNode' \in Nat, crIds' \in 0..CrMaxIds,
         crSource' \in CrNames \cup {CrAuto}, crOn' \in BOOLEAN,
         crStream' = CrNobody <=> crTarget' = CrNobody,
         WellJoined(crGraph', crStream', crTarget'),
         TablesFollow(crEvents', crSources' \cup crLinks', crGraph'),
         NodeFollows(crEvents', crNode', crStream')
  PROVE  HearingInv'
BY DEF HearingInv, GraphTyped, WellJoined, CapturesOf, TablesFollow, Replayed, NodeFollows, Removed,
       Objects, Node, Link

\* A step of the engine, with the events and the tables after it.
LEMMA EngineHears ==
  ASSUME HearingInv, NEW events \in Seq(CrEvent),
         crSources' \subseteq CrObjects, crLinks' \subseteq CrObjects,
         \A s \in crSources' : s.kind = "source", \A l \in crLinks' : l.kind = "link",
         crSource' \in CrNames \cup {CrAuto}, crOn' \in BOOLEAN,
         TablesFollow(events, crSources' \cup crLinks', crGraph),
         NodeFollows(events, crNode, crStream),
         \/ Recreate(events, crSources', crOn', crSource')
         \/ \E miss \in {0, crMiss, crMiss + 1} : Keep(events, miss)
  PROVE  HearingInv'
<1>1. GraphTyped /\ WellJoined(crGraph, crStream, crTarget)
      /\ (crStream = CrNobody <=> crTarget = CrNobody)
  BY DEF HearingInv
<1>2. CASE Recreate(events, crSources', crOn', crSource')
  <2> DEFINE known == crSources' \cup crLinks'
             sources == crSources'
             source == crSource'
             on == crOn'
  <2>1. /\ sources \in SUBSET CrObjects /\ source \in CrNames \cup {CrAuto}
        /\ TablesFollow(events, known, crGraph) /\ Recreate(events, sources, on, source)
    BY <1>2
  <2> HIDE DEF known, sources, source, on
  <2>2. /\ crGraph' \subseteq Known /\ crEvents' \in Seq(CrEvent)
        /\ crStream' # CrNobody => crStream' \in [node : 1..CrMaxIds, failed : BOOLEAN]
        /\ crTarget' \in Targets /\ crNode' = 0 /\ crIds' \in 0..CrMaxIds
        /\ crStream' = CrNobody <=> crTarget' = CrNobody
        /\ WellJoined(crGraph', crStream', crTarget')
        /\ TablesFollow(crEvents', known, crGraph')
        /\ NodeFollows(crEvents', 0, crStream')
    BY <1>1, <2>1, RecreateHeard
  <2> USE DEF known
  <2> QED BY <2>2, Together
<1>3. CASE \E miss \in {0, crMiss, crMiss + 1} : Keep(events, miss)
  <2>1. crEvents' = events /\ UNCHANGED <<crGraph, crStream, crTarget, crNode, crIds>>
    BY <1>3, KeepHeard
  <2>2. /\ WellJoined(crGraph', crStream', crTarget')
        /\ TablesFollow(crEvents', crSources' \cup crLinks', crGraph')
        /\ NodeFollows(crEvents', crNode', crStream')
    BY <1>1, <2>1
  <2> QED BY <1>1, <2>1, <2>2, Together DEF GraphTyped
<1> QED BY <1>2, <1>3

LEMMA EnsureIsOneOfTwo ==
  ASSUME NEW events, NEW sources, NEW links, EnsureCapture(events, sources, links)
  PROVE  \/ Recreate(events, sources, crOn, crSource)
         \/ \E miss \in {0, crMiss, crMiss + 1} : Keep(events, miss)
BY DEF EnsureCapture

LEMMA ReceiveHears ==
  ASSUME HearingInv, Receive
  PROVE  HearingInv'
<1> DEFINE e == Head(crEvents)
           events == Tail(crEvents)
<1>1. /\ crEvents # <<>> /\ UNCHANGED crSettings /\ Arrives(e.op, e.object, events)
      /\ crEvents \in Seq(CrEvent)
  BY DEF Receive, HearingInv, GraphTyped
<1>2. events \in Seq(CrEvent) /\ e \in CrEvent
  BY <1>1, GraphEventTaken
<1>3. /\ e.op \in {"add", "remove"} /\ e.object \in Known
      /\ e.object.kind # "capture" => e.object \in CrObjects
  BY <1>2, NotCapture DEF CrEvent
<1>4. /\ crSource' = crSource /\ crOn' = crOn
      /\ crSource' \in CrNames \cup {CrAuto} /\ crOn' \in BOOLEAN
      /\ crSources \subseteq CrObjects /\ crLinks \subseteq CrObjects
      /\ \A s \in crSources : s.kind = "source"
      /\ \A l \in crLinks : l.kind = "link"
      /\ TablesFollow(crEvents, crSources \cup crLinks, crGraph)
      /\ NodeFollows(crEvents, crNode, crStream)
  BY <1>1 DEF crSettings, HearingInv, GraphTyped
<1> HIDE DEF e, events
<1>5. CASE e.object.kind # "capture"
  <2>1. /\ crSources' \subseteq CrObjects /\ crLinks' \subseteq CrObjects
        /\ \A s \in crSources' : s.kind = "source"
        /\ \A l \in crLinks' : l.kind = "link"
        /\ e.object \in crSources' \cup crLinks' <=> e.op = "add"
        /\ \A o : o # e.object => (o \in crSources' \cup crLinks' <=> o \in crSources \cup crLinks)
    <3>1. CASE e.object.kind = "source"
      <4>1. crLinks' = crLinks /\ crSources' = IF e.op = "add" THEN crSources \cup {e.object} ELSE crSources \ {e.object}
        BY <1>1, <1>3, <3>1 DEF Arrives
      <4> QED BY <1>3, <1>4, <1>5, <3>1, <4>1
    <3>2. CASE e.object.kind = "link"
      <4>1. crSources' = crSources /\ crLinks' = IF e.op = "add" THEN crLinks \cup {e.object} ELSE crLinks \ {e.object}
        BY <1>1, <1>3, <3>2 DEF Arrives
      <4> QED BY <1>3, <1>4, <1>5, <3>2, <4>1
    <3> QED BY <1>1, <1>5, <3>1, <3>2 DEF Arrives
  <2> DEFINE known2 == crSources' \cup crLinks'
  <2>2. e.object \in known2 <=> e.op = "add"
    BY <2>1
  <2>3. \A o \in CrObjects : o.kind # "capture" /\ o # e.object
          => (o \in known2 <=> o \in crSources \cup crLinks)
    BY <2>1
  <2> HIDE DEF known2
  <2>4. TablesFollow(events, known2, crGraph)
    BY <1>1, <1>4, <2>2, <2>3, EventHandled DEF e, events
  <2>5. NodeFollows(events, crNode, crStream)
    BY <1>1, <1>4, <1>5, NodeHandled DEF e, events
  <2>6. \/ Recreate(events, crSources', crOn', crSource')
        \/ \E miss \in {0, crMiss, crMiss + 1} : Keep(events, miss)
    BY <1>1, <1>4, <1>5, EnsureIsOneOfTwo DEF Arrives
  <2> USE DEF known2
  <2> QED BY <1>2, <1>4, <2>1, <2>4, <2>5, <2>6, EngineHears
<1>6. CASE e.object.kind = "capture"
  <2>1. /\ crNode' = IF e.op = "add" THEN e.object.id
                     ELSE IF crNode = e.object.id THEN 0 ELSE crNode
        /\ crEvents' = events
        /\ UNCHANGED <<crGraph, crStream, crTarget, crSources, crLinks, crIds>>
    BY <1>1, <1>6 DEF Arrives, crTables
  <2>2. TablesFollow(events, crSources \cup crLinks, crGraph)
    BY <1>1, <1>4, <1>6, EventHandled DEF e, events
  <2>3. NodeFollows(events, crNode', crStream)
    <3> DEFINE node2 == crNode'
    <3>1. node2 = IF e.op = "add" THEN e.object.id
                  ELSE IF crNode = e.object.id THEN 0 ELSE crNode
      BY <2>1
    <3> HIDE DEF node2
    <3>2. NodeFollows(events, node2, crStream)
      BY <1>1, <1>4, <1>6, <3>1, NodeHandled DEF e, events
    <3> QED BY <3>2 DEF node2
  <2>4. e.object.id \in Nat
    BY <1>3, <1>6 DEF Known, CrObjects
  <2>5. crNode' \in Nat
    BY <2>1, <2>4 DEF HearingInv, GraphTyped
  <2>6. /\ TablesFollow(crEvents', crSources' \cup crLinks', crGraph')
        /\ NodeFollows(crEvents', crNode', crStream')
        /\ WellJoined(crGraph', crStream', crTarget')
    BY <2>1, <2>2, <2>3 DEF HearingInv
  <2> QED BY <1>2, <1>4, <2>1, <2>5, <2>6, Together DEF HearingInv, GraphTyped
<1> QED BY <1>5, <1>6

LEMMA EngineStepHears ==
  ASSUME HearingInv, WatchdogTick \/ Command
  PROVE  HearingInv'
<1>1. /\ crEvents \in Seq(CrEvent) /\ UNCHANGED <<crSources, crLinks>>
      /\ crSource' \in CrNames \cup {CrAuto} /\ crOn' \in BOOLEAN
      /\ crSources' \subseteq CrObjects /\ crLinks' \subseteq CrObjects
      /\ \A s \in crSources' : s.kind = "source"
      /\ \A l \in crLinks' : l.kind = "link"
      /\ NodeFollows(crEvents, crNode, crStream)
  BY DEF WatchdogTick, Command, crTables, crSettings, HearingInv, GraphTyped
<1>2. TablesFollow(crEvents, crSources' \cup crLinks', crGraph)
  BY <1>1 DEF HearingInv
<1>3. \/ Recreate(crEvents, crSources', crOn', crSource')
      \/ \E miss \in {0, crMiss, crMiss + 1} : Keep(crEvents, miss)
  <2>1. CASE WatchdogTick
    <3>1. EnsureCapture(crEvents, crSources, crLinks) /\ crOn' = crOn /\ crSource' = crSource
      BY <2>1 DEF WatchdogTick, crSettings
    <3> QED BY <1>1, <3>1, EnsureIsOneOfTwo
  <2>2. CASE Command
    BY <1>1, <2>2 DEF Command
  <2> QED BY <2>1, <2>2
<1> QED BY <1>1, <1>2, <1>3, EngineHears

(***************************************************************************)
(* The graph's own steps.                                                  *)
(***************************************************************************)

LEMMA SourceAppearsHears ==
  ASSUME HearingInv, SourceAppears
  PROVE  HearingInv'
<1>1. PICK name \in CrNames :
        LET source == Node("source", NextId, name)
        IN /\ Named(Objects(crGraph, "source"), name) = {}
           /\ crGraph' = crGraph \cup {source}
           /\ crEvents' = Append(crEvents, Event("add", source))
  BY DEF SourceAppears
<1> DEFINE source == Node("source", NextId, name)
           e == Event("add", source)
<1>2. /\ crIds < CrMaxIds /\ crIds' = NextId
      /\ UNCHANGED <<crStream, crTarget, crNode, crSources, crLinks, crSource, crOn>>
  BY DEF SourceAppears, GraphActs, crTables, crSettings
<1>3. GraphTyped /\ WellJoined(crGraph, crStream, crTarget)
      /\ (crStream = CrNobody <=> crTarget = CrNobody)
      /\ TablesFollow(crEvents, crSources \cup crLinks, crGraph)
      /\ NodeFollows(crEvents, crNode, crStream)
  BY DEF HearingInv
<1>4. NextId \in 1..CrMaxIds /\ crIds' \in 0..CrMaxIds
  BY <1>2, <1>3, CaptureAssumption DEF NextId, GraphTyped
<1>5. source \in CrObjects /\ source.kind = "source" /\ source.name = name
  BY <1>4 DEF CrObjects, Node
<1>6. e \in CrEvent /\ e.op = "add" /\ e.object = source
  BY <1>5 DEF Event, CrEvent, Known
<1>7. /\ Named(Objects(crGraph, "source"), name) = {}
      /\ crGraph' = crGraph \cup {source}
      /\ crEvents' = Append(crEvents, e)
  BY <1>1
<1> HIDE DEF source, e
<1>8. crEvents' \in Seq(CrEvent) /\ crEvents \in Seq(CrEvent)
  BY <1>3, <1>6, <1>7, Added DEF GraphTyped
<1>9. TablesFollow(crEvents', crSources' \cup crLinks', crGraph')
  <2>1. TablesFollow(Append(crEvents, e), crSources \cup crLinks, crGraph \cup {source})
    BY <1>3, <1>6, <1>8, EventAdded
  <2> QED BY <1>2, <1>7, <2>1
<1>10. NodeFollows(crEvents', crNode', crStream')
  <2>1. NodeFollows(Append(crEvents, e), crNode, crStream)
    BY <1>3, <1>5, <1>6, <1>8, OtherEventAdded
  <2> QED BY <1>2, <1>7, <2>1
<1>11. WellJoined(crGraph', crStream', crTarget')
  <2>1. /\ Objects(crGraph', "capture") = Objects(crGraph, "capture")
        /\ Objects(crGraph', "link") = Objects(crGraph, "link")
        /\ Objects(crGraph', "source") = Objects(crGraph, "source") \cup {source}
    BY <1>5, <1>7 DEF Objects
  <2>2. \A s \in Objects(crGraph, "source") : s.name # source.name
    BY <1>5, <1>7 DEF Named
  <2> QED BY <1>2, <1>3, <2>1, <2>2 DEF WellJoined
<1> QED BY <1>2, <1>3, <1>4, <1>5, <1>7, <1>8, <1>9, <1>10, <1>11, Together DEF GraphTyped, Known

LEMMA SourceVanishesHears ==
  ASSUME HearingInv, SourceVanishes
  PROVE  HearingInv'
<1>1. PICK source \in Objects(crGraph, "source") :
        /\ crGraph' = crGraph \ ({source} \cup LinksOf(source))
        /\ crEvents' = crEvents \o Removal(source)
  BY DEF SourceVanishes
<1>2. UNCHANGED <<crStream, crTarget, crNode, crSources, crLinks, crSource, crOn, crIds>>
  BY DEF SourceVanishes, GraphActs, crTables, crSettings
<1>3. GraphTyped /\ WellJoined(crGraph, crStream, crTarget)
      /\ (crStream = CrNobody <=> crTarget = CrNobody)
      /\ TablesFollow(crEvents, crSources \cup crLinks, crGraph)
      /\ NodeFollows(crEvents, crNode, crStream)
  BY DEF HearingInv
<1>4. source \in crGraph /\ source.kind = "source" /\ crEvents \in Seq(CrEvent)
  BY <1>1, <1>3 DEF Objects, GraphTyped
<1>5. /\ crEvents' \in Seq(CrEvent)
      /\ TablesFollow(crEvents', crSources' \cup crLinks', crGraph')
      /\ NodeFollows(crEvents', crNode', crStream')
  <2>1. /\ crEvents \o Removal(source) \in Seq(CrEvent)
        /\ TablesFollow(crEvents \o Removal(source), crSources \cup crLinks,
                        crGraph \ ({source} \cup LinksOf(source)))
        /\ NodeFollows(crEvents \o Removal(source), crNode, crStream)
    BY <1>3, <1>4, RemovalFollows
  <2> QED BY <1>1, <1>2, <2>1
<1>6. WellJoined(crGraph', crStream', crTarget')
  <2>1. Objects(crGraph', "capture") = Objects(crGraph, "capture")
    BY <1>1, <1>4 DEF Objects, LinksOf
  <2>2. Objects(crGraph', "source") = Objects(crGraph, "source") \ {source}
    BY <1>1, <1>4 DEF Objects, LinksOf
  <2>3. ASSUME NEW l \in Objects(crGraph', "link")
        PROVE  \E s \in Objects(crGraph', "source") :
                 crStream # CrNobody /\ s.name = crTarget /\ l = Link(s.id, crStream.node)
    <3>1. l \in Objects(crGraph, "link") /\ l \notin LinksOf(source)
      BY <1>1 DEF Objects
    <3>2. PICK s \in Objects(crGraph, "source") :
            crStream # CrNobody /\ s.name = crTarget /\ l = Link(s.id, crStream.node)
      BY <1>3, <3>1 DEF WellJoined
    <3>3. l.from = s.id
      BY <3>2 DEF Link
    <3>4. s # source
      BY <3>1, <3>3 DEF LinksOf
    <3> QED BY <2>2, <3>2, <3>4
  <2> QED BY <1>2, <1>3, <2>1, <2>2, <2>3 DEF WellJoined
<1> QED BY <1>1, <1>2, <1>3, <1>5, <1>6, Together DEF GraphTyped

LEMMA LinksHear ==
  ASSUME HearingInv, Links
  PROVE  HearingInv'
<1>1. PICK node \in Objects(crGraph, "capture"), source \in Objects(crGraph, "source") :
        /\ source.name = node.name
        /\ crGraph' = crGraph \cup {Link(source.id, node.id)}
        /\ crEvents' = Append(crEvents, Event("add", Link(source.id, node.id)))
  BY DEF Links, Named
<1> DEFINE link == Link(source.id, node.id)
           e == Event("add", link)
<1>2. UNCHANGED <<crStream, crTarget, crNode, crSources, crLinks, crSource, crOn, crIds>>
  BY DEF Links, GraphActs, crTables, crSettings
<1>3. GraphTyped /\ WellJoined(crGraph, crStream, crTarget)
      /\ (crStream = CrNobody <=> crTarget = CrNobody)
      /\ TablesFollow(crEvents, crSources \cup crLinks, crGraph)
      /\ NodeFollows(crEvents, crNode, crStream)
      /\ crEvents \in Seq(CrEvent)
  BY DEF HearingInv, GraphTyped
<1>4. crStream # CrNobody /\ node = Node("capture", crStream.node, crTarget)
  BY <1>3 DEF WellJoined, CapturesOf
<1>5. node.id = crStream.node /\ node.name = crTarget
  BY <1>4 DEF Node
<1>6. node.id \in 1..CrMaxIds /\ source.id \in 1..CrMaxIds
  BY <1>3, <1>4, <1>5 DEF GraphTyped, Objects, Known, CrObjects
<1>7. link \in CrObjects /\ link.kind = "link"
  BY <1>6 DEF Link, CrObjects
<1>8. e \in CrEvent /\ e.op = "add" /\ e.object = link
  BY <1>7 DEF Event, CrEvent, Known
<1>9. /\ crGraph' = crGraph \cup {link} /\ crEvents' = Append(crEvents, e)
      /\ link = Link(source.id, node.id)
  BY <1>1
<1> HIDE DEF link, e
<1>10. crEvents' \in Seq(CrEvent)
  BY <1>3, <1>8, <1>9, Added
<1>11. TablesFollow(crEvents', crSources' \cup crLinks', crGraph')
  <2>1. TablesFollow(Append(crEvents, e), crSources \cup crLinks, crGraph \cup {link})
    BY <1>3, <1>8, EventAdded
  <2> QED BY <1>2, <1>9, <2>1
<1>12. NodeFollows(crEvents', crNode', crStream')
  <2>1. NodeFollows(Append(crEvents, e), crNode, crStream)
    BY <1>3, <1>7, <1>8, OtherEventAdded
  <2> QED BY <1>2, <1>9, <2>1
<1>13. WellJoined(crGraph', crStream', crTarget')
  <2>1. /\ Objects(crGraph', "capture") = Objects(crGraph, "capture")
        /\ Objects(crGraph', "link") = Objects(crGraph, "link") \cup {link}
        /\ Objects(crGraph', "source") = Objects(crGraph, "source")
    BY <1>7, <1>9 DEF Objects
  <2>2. source.name = crTarget /\ link = Link(source.id, crStream.node)
    BY <1>1, <1>5, <1>9
  <2> QED BY <1>2, <1>3, <1>4, <2>1, <2>2 DEF WellJoined
<1> QED BY <1>2, <1>3, <1>7, <1>9, <1>10, <1>11, <1>12, <1>13, Together DEF GraphTyped, Known

LEMMA UnlinksHear ==
  ASSUME HearingInv, Unlinks
  PROVE  HearingInv'
<1>1. PICK link \in Objects(crGraph, "link") :
        crGraph' = crGraph \ {link} /\ crEvents' = Append(crEvents, Event("remove", link))
  BY DEF Unlinks
<1> DEFINE e == Event("remove", link)
<1>2. UNCHANGED <<crStream, crTarget, crNode, crSources, crLinks, crSource, crOn, crIds>>
  BY DEF Unlinks, GraphActs, crTables, crSettings
<1>3. GraphTyped /\ WellJoined(crGraph, crStream, crTarget)
      /\ (crStream = CrNobody <=> crTarget = CrNobody)
      /\ TablesFollow(crEvents, crSources \cup crLinks, crGraph)
      /\ NodeFollows(crEvents, crNode, crStream)
      /\ crEvents \in Seq(CrEvent)
  BY DEF HearingInv, GraphTyped
<1>4. link \in Known /\ link.kind = "link" /\ link \in crGraph
  BY <1>1, <1>3 DEF Objects, GraphTyped
<1>5. e \in CrEvent /\ e.op = "remove" /\ e.object = link
  BY <1>4 DEF Event, CrEvent
<1>6. crEvents' = Append(crEvents, e)
  BY <1>1
<1> HIDE DEF e
<1>7. crEvents' \in Seq(CrEvent)
  BY <1>3, <1>5, <1>6, Added
<1>8. TablesFollow(crEvents', crSources' \cup crLinks', crGraph')
  <2>1. TablesFollow(Append(crEvents, e), crSources \cup crLinks, crGraph \ {link})
    BY <1>3, <1>5, EventAdded
  <2> QED BY <1>1, <1>2, <1>6, <2>1
<1>9. NodeFollows(crEvents', crNode', crStream')
  <2>1. NodeFollows(Append(crEvents, e), crNode, crStream)
    BY <1>3, <1>4, <1>5, OtherEventAdded
  <2> QED BY <1>2, <1>6, <2>1
<1>10. WellJoined(crGraph', crStream', crTarget')
  <2>1. /\ Objects(crGraph', "capture") = Objects(crGraph, "capture")
        /\ Objects(crGraph', "link") \subseteq Objects(crGraph, "link")
        /\ Objects(crGraph', "source") = Objects(crGraph, "source")
    BY <1>1, <1>4 DEF Objects
  <2> QED BY <1>2, <1>3, <2>1 DEF WellJoined
<1> QED BY <1>1, <1>2, <1>3, <1>7, <1>8, <1>9, <1>10, Together DEF GraphTyped

LEMMA StreamFailsHears ==
  ASSUME HearingInv, StreamFails
  PROVE  HearingInv'
<1>1. /\ crStream # CrNobody /\ crStream' = [crStream EXCEPT !.failed = TRUE]
      /\ UNCHANGED <<crGraph, crEvents, crTarget, crNode, crSources, crLinks, crSource, crOn, crIds>>
  BY DEF StreamFails, GraphActs, crTables, crSettings
<1>2. GraphTyped /\ WellJoined(crGraph, crStream, crTarget)
      /\ (crStream = CrNobody <=> crTarget = CrNobody)
      /\ TablesFollow(crEvents, crSources \cup crLinks, crGraph)
      /\ NodeFollows(crEvents, crNode, crStream)
  BY DEF HearingInv
<1>3. /\ crStream' \in [node : 1..CrMaxIds, failed : BOOLEAN] /\ crStream'.node = crStream.node
  BY <1>1, <1>2 DEF GraphTyped
<1>4. crStream' # CrNobody
  BY <1>3, CaptureAssumption DEF CrStreams
<1>5. WellJoined(crGraph', crStream', crTarget') /\ NodeFollows(crEvents', crNode', crStream')
  BY <1>1, <1>2, <1>3, <1>4 DEF WellJoined, CapturesOf, NodeFollows
<1>6. TablesFollow(crEvents', crSources' \cup crLinks', crGraph')
  BY <1>1, <1>2
<1> QED BY <1>1, <1>2, <1>3, <1>4, <1>5, <1>6, Together DEF GraphTyped

LEMMA HearingStep ==
  ASSUME HearingInv, [CrNext]_crVars
  PROVE  HearingInv'
<1>1. CASE Receive
  BY <1>1, ReceiveHears
<1>2. CASE WatchdogTick \/ Command
  BY <1>2, EngineStepHears
<1>3. CASE SourceAppears \/ SourceVanishes \/ Links \/ Unlinks \/ StreamFails
  BY <1>3, SourceAppearsHears, SourceVanishesHears, LinksHear, UnlinksHear, StreamFailsHears
<1>4. CASE UNCHANGED crVars
  <2>1. UNCHANGED <<crGraph, crEvents, crStream, crTarget, crNode, crSources, crLinks, crSource, crOn, crIds>>
    BY <1>4 DEF crVars, crSettings, crCapture, crTables
  <2>2. /\ WellJoined(crGraph', crStream', crTarget') /\ NodeFollows(crEvents', crNode', crStream')
        /\ TablesFollow(crEvents', crSources' \cup crLinks', crGraph')
    BY <2>1 DEF HearingInv
  <2> QED BY <2>1, <2>2, Together DEF HearingInv, GraphTyped
<1> QED BY <1>1, <1>2, <1>3, <1>4 DEF CrNext

\* A wanted microphone that the engine knows is left alone by one tick of the
\* watchdog at most, and once the engine has heard of everything it takes the
\* stream for heard just when it is joined to its microphone
\* (ensure_capture_stream_present, pipewire_capture_link_healthy).
THEOREM WantedMicIsHeard == CrSpec => []WantedMicIsCaptured
<1>1. CrInit => HearingInv
  <2> SUFFICES ASSUME CrInit PROVE HearingInv
    OBVIOUS
  <2>1. CrMaxIds \in Nat /\ CrAuto \in CrNames \cup {CrAuto} /\ CrNobody \in Targets
    BY CaptureAssumption DEF Targets
  <2>2. WellJoined(crGraph, crStream, crTarget) /\ NodeFollows(crEvents, crNode, crStream)
    BY DEF CrInit, WellJoined, CapturesOf, Objects, NodeFollows
  <2>3. TablesFollow(crEvents, crSources \cup crLinks, crGraph)
    BY DEF CrInit, TablesFollow, Replayed
  <2> QED BY <2>1, <2>2, <2>3 DEF CrInit, HearingInv, GraphTyped
<1>2. HearingInv /\ [CrNext]_crVars => HearingInv'
  BY HearingStep
<1>3. CaptureInv /\ HearingInv => WantedMicIsCaptured
  BY HeardWhenSettled DEF CaptureInv, StreamTyped, MissesCover, WantedMicIsCaptured
<1> QED BY <1>1, <1>2, <1>3, CaptureInvariant, PTL DEF CrSpec

-----------------------------------------------------------------------------
(***************************************************************************)
(* FeederLinks.                                                            *)
(*                                                                         *)
(* A microphone that is there is fed, for any number of engines, sinks and *)
(* faults and any order of events: the queue tells which microphone the    *)
(* engine will know, and that those before it end first.                   *)
(***************************************************************************)

FlEvent == [op : {"add", "remove"}, role : {"mic", "feeder"}, id : Nat, what : {"node"} \cup Channels]

\* The event that takes microphone id off.
IsEnd(e, id) == e.op = "remove" /\ e.role = "mic" /\ e.id = id /\ e.what = "node"
\* It is in the queue, behind one place and before another.
Gone(queue, id, from) == \E j \in 1..Len(queue) : from < j /\ IsEnd(queue[j], id)
GoneBy(queue, id, from, to) == \E j \in 1..Len(queue) : from < j /\ j < to /\ IsEnd(queue[j], id)
\* A node of a role is announced at this place.
IsNode(e, role) == e.op = "add" /\ e.role = role /\ e.what = "node"
IsPort(e, role, id, channel) == e.op = "add" /\ e.role = role /\ e.id = id /\ e.what = channel

\* What the queue leaves of microphones: only ones that are not there are taken off.
OnlyTheOldGo(queue, mics) ==
  \A i \in 1..Len(queue) : queue[i].op = "remove" => queue[i].role = "mic" /\ queue[i].id \notin mics
\* The last one that is announced is there, or the engine has it already.
NewestIsThere(queue, mics, micId) ==
  \A m \in mics :
    \/ micId = m /\ \A i \in 1..Len(queue) : ~IsNode(queue[i], "mic")
    \/ \E i \in 1..Len(queue) :
         /\ IsNode(queue[i], "mic") /\ queue[i].id = m
         /\ \A k \in 1..Len(queue) : i < k => ~IsNode(queue[k], "mic")
\* Its ports are known, or come behind the node.
PortsFollow(queue, role, id, ours, ports) ==
  \A c \in Channels :
    \/ ours = id /\ c \in ports
    \/ \E j \in 1..Len(queue) :
         /\ IsPort(queue[j], role, id, c)
         /\ ours = id \/ \E i \in 1..Len(queue) : i < j /\ IsNode(queue[i], role) /\ queue[i].id = id
\* One that is not there will be taken off, and before another one is announced.
OldOnesGo(queue, mics, micId) ==
  /\ micId # 0 /\ micId \notin mics => Gone(queue, micId, 0)
  /\ \A i \in 1..Len(queue) :
       IsNode(queue[i], "mic") /\ queue[i].id \notin mics => Gone(queue, queue[i].id, i)
  /\ \A k \in 1..Len(queue) : IsNode(queue[k], "mic") =>
       /\ micId # 0 => GoneBy(queue, micId, 0, k)
       /\ \A i \in 1..Len(queue) :
            i < k /\ IsNode(queue[i], "mic") => GoneBy(queue, queue[i].id, i, k)
MicFollows(queue, mics, micId, ports) ==
  /\ OnlyTheOldGo(queue, mics)
  /\ NewestIsThere(queue, mics, micId)
  /\ \A m \in mics : PortsFollow(queue, "mic", m, micId, ports)
  /\ OldOnesGo(queue, mics, micId)

\* There is one feeder for an engine's life.
FeederFollows(queue, feeder, feederId, ports) ==
  /\ feederId \in {0, feeder}
  /\ \A i \in 1..Len(queue) : queue[i].role = "feeder" => queue[i].id = feeder
  /\ feeder # 0 =>
       /\ feederId = feeder \/ \E i \in 1..Len(queue) : IsNode(queue[i], "feeder")
       /\ PortsFollow(queue, "feeder", feeder, feederId, ports)

\* What could be linked has been tried, and a link that is held is alive or will
\* be dropped with its microphone.
Tried(ends, links, refused) == ends \subseteq links \cup refused
Linkable == IF flFeederId = 0 \/ flMicId = 0 THEN {} ELSE flOut \cap flIn
HeldLinks(queue, micId, links, alive) ==
  links # {} => micId # 0 /\ (links \subseteq alive \/ Gone(queue, micId, 0))

FeederTyped ==
  /\ flIds \in Nat /\ flMics \subseteq 1..flIds /\ flFeeder \in 0..flIds
  /\ flEvents \in Seq(FlEvent) /\ \A i \in 1..Len(flEvents) : flEvents[i].id \in 1..flIds
  /\ flMicId \in Nat /\ flRuns \in BOOLEAN
  /\ flOut \subseteq Channels /\ flIn \subseteq Channels /\ flLinks \subseteq Channels

FeederInv ==
  /\ FeederTyped
  /\ OneVirtualMic
  /\ ~flRuns => /\ flEvents = <<>> /\ flFeeder = 0 /\ flFeederId = 0 /\ flMicId = 0 /\ flLinks = {}
  /\ flRuns => MicFollows(flEvents, flMics, flMicId, flIn)
  /\ flRuns => FeederFollows(flEvents, flFeeder, flFeederId, flOut)
  /\ Tried(Linkable, flLinks, flRefused)
  /\ HeldLinks(flEvents, flMicId, flLinks, flAlive)

(***************************************************************************)
(* Queues.                                                                 *)
(***************************************************************************)

LEMMA BlockAdded ==
  ASSUME NEW queue \in Seq(FlEvent), NEW block \in Seq(FlEvent)
  PROVE  /\ queue \o block \in Seq(FlEvent)
         /\ Len(queue \o block) = Len(queue) + Len(block)
         /\ Len(queue) \in Nat /\ Len(block) \in Nat
         /\ \A i \in 1..Len(queue) : i \in 1..Len(queue \o block) /\ (queue \o block)[i] = queue[i]
         /\ \A k \in 1..Len(block) : /\ Len(queue) + k \in 1..Len(queue \o block)
                                     /\ (queue \o block)[Len(queue) + k] = block[k]
         /\ \A i \in 1..Len(queue \o block) :
              i \in 1..Len(queue) \/ (i > Len(queue) /\ i - Len(queue) \in 1..Len(block)
                                        /\ (queue \o block)[i] = block[i - Len(queue)])
<1>1. /\ queue \o block \in Seq(FlEvent)
      /\ Len(queue \o block) = Len(queue) + Len(block)
      /\ Len(queue) \in Nat /\ Len(block) \in Nat
      /\ \A i \in 1..Len(queue) + Len(block) :
           (queue \o block)[i] = IF i <= Len(queue) THEN queue[i] ELSE block[i - Len(queue)]
  OBVIOUS
<1>. HIDE <1>1
<1>. QED
  BY <1>1

LEMMA EventTaken ==
  ASSUME NEW queue \in Seq(FlEvent), queue # <<>>
  PROVE  /\ Len(Tail(queue)) = Len(queue) - 1 /\ Len(queue) \in Nat \ {0}
         /\ Tail(queue) \in Seq(FlEvent) /\ Head(queue) \in FlEvent
         /\ 1 \in 1..Len(queue) /\ Head(queue) = queue[1]
         /\ \A i \in 1..Len(Tail(queue)) :
              i + 1 \in 1..Len(queue) /\ i \in Nat /\ Tail(queue)[i] = queue[i + 1] /\ 1 < i + 1
         /\ \A i \in 1..Len(queue) :
              i = 1 \/ (i - 1 \in 1..Len(Tail(queue)) /\ i \in Nat /\ queue[i] = Tail(queue)[i - 1])
OBVIOUS

\* Three events, joined in either way.
LEMMA ThreeEvents ==
  ASSUME NEW a \in FlEvent, NEW b \in FlEvent, NEW c \in FlEvent
  PROVE  /\ <<a>> \o (<<b>> \o <<c>>) \in Seq(FlEvent) /\ Len(<<a>> \o (<<b>> \o <<c>>)) = 3
         /\ (<<a>> \o (<<b>> \o <<c>>))[1] = a /\ (<<a>> \o (<<b>> \o <<c>>))[2] = b
         /\ (<<a>> \o (<<b>> \o <<c>>))[3] = c
         /\ (<<a>> \o <<b>>) \o <<c>> \in Seq(FlEvent) /\ Len((<<a>> \o <<b>>) \o <<c>>) = 3
         /\ ((<<a>> \o <<b>>) \o <<c>>)[1] = a /\ ((<<a>> \o <<b>>) \o <<c>>)[2] = b
         /\ ((<<a>> \o <<b>>) \o <<c>>)[3] = c
<1>. DEFINE one == <<a>>  two == <<b>>  three == <<c>>
            back == two \o three  front == one \o two
<1>1. /\ one \in Seq(FlEvent) /\ Len(one) = 1 /\ one[1] = a
      /\ two \in Seq(FlEvent) /\ Len(two) = 1 /\ two[1] = b
      /\ three \in Seq(FlEvent) /\ Len(three) = 1 /\ three[1] = c
  OBVIOUS
<1>. HIDE DEF one, two, three
<1>2. back \in Seq(FlEvent) /\ Len(back) = 2 /\ back[1] = b /\ back[2] = c
  <2>1. /\ back \in Seq(FlEvent) /\ Len(back) = Len(two) + Len(three)
        /\ \A i \in 1..Len(two) : back[i] = two[i]
        /\ \A k \in 1..Len(three) : back[Len(two) + k] = three[k]
    BY <1>1, BlockAdded
  <2>. HIDE DEF back
  <2>. QED
    BY <1>1, <2>1
<1>3. front \in Seq(FlEvent) /\ Len(front) = 2 /\ front[1] = a /\ front[2] = b
  <2>1. /\ front \in Seq(FlEvent) /\ Len(front) = Len(one) + Len(two)
        /\ \A i \in 1..Len(one) : front[i] = one[i]
        /\ \A k \in 1..Len(two) : front[Len(one) + k] = two[k]
    BY <1>1, BlockAdded
  <2>. HIDE DEF front
  <2>. QED
    BY <1>1, <2>1
<1>. HIDE DEF back, front
<1>4. /\ one \o back \in Seq(FlEvent) /\ Len(one \o back) = 3
      /\ (one \o back)[1] = a /\ (one \o back)[2] = b /\ (one \o back)[3] = c
  <2>. DEFINE all == one \o back
  <2>1. /\ all \in Seq(FlEvent) /\ Len(all) = Len(one) + Len(back)
        /\ \A i \in 1..Len(one) : all[i] = one[i]
        /\ \A k \in 1..Len(back) : all[Len(one) + k] = back[k]
    <3>1. one \in Seq(FlEvent) /\ back \in Seq(FlEvent)
      BY <1>1, <1>2
    <3>. QED
      BY <3>1, BlockAdded
  <2>. HIDE DEF all
  <2>2. all[1 + 1] = b /\ all[1 + 2] = c /\ all[1] = a
    BY <1>1, <1>2, <2>1
  <2>. QED
    BY <1>1, <1>2, <2>1, <2>2 DEF all
<1>5. /\ front \o three \in Seq(FlEvent) /\ Len(front \o three) = 3
      /\ (front \o three)[1] = a /\ (front \o three)[2] = b /\ (front \o three)[3] = c
  <2>. DEFINE all == front \o three
  <2>1. /\ all \in Seq(FlEvent) /\ Len(all) = Len(front) + Len(three)
        /\ \A i \in 1..Len(front) : all[i] = front[i]
        /\ \A k \in 1..Len(three) : all[Len(front) + k] = three[k]
    BY <1>1, <1>3, BlockAdded
  <2>. HIDE DEF all
  <2>2. all[2 + 1] = c /\ all[1] = a /\ all[2] = b
    BY <1>1, <1>3, <2>1
  <2>. QED
    BY <1>1, <1>3, <2>1, <2>2 DEF all
<1>. QED
  BY <1>4, <1>5 DEF one, two, three, back, front

\* The blocks of events.
LEMMA AnnouncedBlock ==
  ASSUME NEW role \in {"mic", "feeder"}, NEW id \in Nat
  PROVE  /\ Announced(role, id) \in Seq(FlEvent) /\ Len(Announced(role, id)) = 3
         /\ IsNode(Announced(role, id)[1], role) /\ Announced(role, id)[1].id = id
         /\ IsPort(Announced(role, id)[2], role, id, "left")
         /\ IsPort(Announced(role, id)[3], role, id, "right")
         /\ \A k \in 1..3 : /\ Announced(role, id)[k].op = "add"
                            /\ Announced(role, id)[k].role = role /\ Announced(role, id)[k].id = id
         /\ \A k \in 2..3 : ~IsNode(Announced(role, id)[k], role)
<1>. DEFINE node == [op |-> "add", role |-> role, id |-> id, what |-> "node"]
            left == [op |-> "add", role |-> role, id |-> id, what |-> "left"]
            right == [op |-> "add", role |-> role, id |-> id, what |-> "right"]
<1>1. node \in FlEvent /\ left \in FlEvent /\ right \in FlEvent
  BY DEF FlEvent, Channels
<1>2. /\ node.op = "add" /\ node.role = role /\ node.id = id /\ node.what = "node"
      /\ left.op = "add" /\ left.role = role /\ left.id = id /\ left.what = "left"
      /\ right.op = "add" /\ right.role = role /\ right.id = id /\ right.what = "right"
  OBVIOUS
<1>3. Announced(role, id) = <<node>> \o (<<left>> \o <<right>>)
  BY DEF Announced, Notice, Ports
<1>. HIDE DEF node, left, right
<1>4. /\ Announced(role, id) \in Seq(FlEvent) /\ Len(Announced(role, id)) = 3
      /\ Announced(role, id)[1] = node /\ Announced(role, id)[2] = left
      /\ Announced(role, id)[3] = right
  BY <1>1, <1>3, ThreeEvents
<1>. QED
  BY <1>1, <1>2, <1>4 DEF IsNode, IsPort

\* An event that takes something of microphone id off.
TakesOff(e, id) == e.op = "remove" /\ e.role = "mic" /\ e.id = id

LEMMA WithdrawnBlock ==
  ASSUME NEW id \in Nat, NEW nodeFirst \in BOOLEAN
  PROVE  /\ Withdrawn("mic", id, nodeFirst) \in Seq(FlEvent)
         /\ Len(Withdrawn("mic", id, nodeFirst)) = 3
         /\ \A k \in 1..3 : TakesOff(Withdrawn("mic", id, nodeFirst)[k], id)
         /\ \E k \in 1..3 : Withdrawn("mic", id, nodeFirst)[k].what = "node"
<1>. DEFINE node == [op |-> "remove", role |-> "mic", id |-> id, what |-> "node"]
            left == [op |-> "remove", role |-> "mic", id |-> id, what |-> "left"]
            right == [op |-> "remove", role |-> "mic", id |-> id, what |-> "right"]
<1>1. node \in FlEvent /\ left \in FlEvent /\ right \in FlEvent
  BY DEF FlEvent, Channels
<1>2. TakesOff(node, id) /\ TakesOff(left, id) /\ TakesOff(right, id) /\ node.what = "node"
  BY DEF TakesOff
<1>3. Withdrawn("mic", id, nodeFirst) =
        IF nodeFirst THEN <<node>> \o (<<left>> \o <<right>>) ELSE (<<left>> \o <<right>>) \o <<node>>
  BY DEF Withdrawn, Notice, Ports
<1>. HIDE DEF node, left, right
<1>. DEFINE block == Withdrawn("mic", id, nodeFirst)
<1>4. /\ block \in Seq(FlEvent) /\ Len(block) = 3
      /\ \/ block[1] = node /\ block[2] = left /\ block[3] = right
         \/ block[1] = left /\ block[2] = right /\ block[3] = node
  <2>1. CASE nodeFirst
    <3>1. block = <<node>> \o (<<left>> \o <<right>>)
      BY <1>3, <2>1
    <3>. HIDE DEF block
    <3>. QED
      BY <1>1, <3>1, ThreeEvents
  <2>2. CASE ~nodeFirst
    <3>1. block = (<<left>> \o <<right>>) \o <<node>>
      BY <1>3, <2>2
    <3>2. /\ (<<left>> \o <<right>>) \o <<node>> \in Seq(FlEvent)
          /\ Len((<<left>> \o <<right>>) \o <<node>>) = 3
          /\ ((<<left>> \o <<right>>) \o <<node>>)[1] = left
          /\ ((<<left>> \o <<right>>) \o <<node>>)[2] = right
          /\ ((<<left>> \o <<right>>) \o <<node>>)[3] = node
      BY <1>1, ThreeEvents
    <3>. HIDE DEF block
    <3>. QED
      BY <3>1, <3>2
  <2>. QED
    BY <2>1, <2>2
<1>. HIDE DEF block
<1>5. \A k \in 1..3 : k = 1 \/ k = 2 \/ k = 3
  OBVIOUS
<1>6. (\A k \in 1..3 : TakesOff(block[k], id)) /\ \E k \in 1..3 : block[k].what = "node"
  BY <1>2, <1>4, <1>5
<1>. QED
  BY <1>4, <1>6 DEF block

(***************************************************************************)
(* Blocks behind the queue.                                                *)
(***************************************************************************)

LEMMA GoneStays ==
  ASSUME NEW queue \in Seq(FlEvent), NEW block \in Seq(FlEvent), NEW id, NEW from
  PROVE  /\ Gone(queue, id, from) => Gone(queue \o block, id, from)
         /\ \A to : GoneBy(queue, id, from, to) => GoneBy(queue \o block, id, from, to)
<1>1. \A j \in 1..Len(queue) : j \in 1..Len(queue \o block) /\ (queue \o block)[j] = queue[j]
  BY BlockAdded
<1>. QED
  BY <1>1 DEF Gone, GoneBy

\* A microphone is withdrawn: there is none left, and the queue says so.
LEMMA MicWithdrawn ==
  ASSUME NEW queue \in Seq(FlEvent), NEW block \in Seq(FlEvent), NEW m, NEW micId, NEW ports,
         MicFollows(queue, {m}, micId, ports),
         \A k \in 1..Len(block) : TakesOff(block[k], m),
         \E k \in 1..Len(block) : block[k].what = "node"
  PROVE  MicFollows(queue \o block, {}, micId, ports)
<1>. DEFINE new == queue \o block
<1>1. /\ Len(new) = Len(queue) + Len(block)
      /\ Len(queue) \in Nat /\ Len(block) \in Nat
      /\ \A i \in 1..Len(queue) : i \in 1..Len(new) /\ new[i] = queue[i]
      /\ \A k \in 1..Len(block) : Len(queue) + k \in 1..Len(new) /\ new[Len(queue) + k] = block[k]
      /\ \A i \in 1..Len(new) :
           i \in 1..Len(queue) \/ (i > Len(queue) /\ i - Len(queue) \in 1..Len(block)
                                     /\ new[i] = block[i - Len(queue)])
  BY BlockAdded
<1>2. \A id, from : /\ Gone(queue, id, from) => Gone(new, id, from)
                    /\ \A to : GoneBy(queue, id, from, to) => GoneBy(new, id, from, to)
  BY GoneStays
<1>. HIDE DEF new
<1>3. \A i \in 1..Len(new) : i \in 1..Len(queue) \/ TakesOff(new[i], m)
  BY <1>1
<1>4. \A i \in 1..Len(new) : IsNode(new[i], "mic") => i \in 1..Len(queue) /\ IsNode(queue[i], "mic")
                                                       /\ new[i] = queue[i]
  BY <1>1, <1>3 DEF IsNode, TakesOff
<1>5. \A from \in 0..Len(queue) : Gone(new, m, from)
  <2>. SUFFICES ASSUME NEW from \in 0..Len(queue) PROVE Gone(new, m, from)
    OBVIOUS
  <2>1. PICK k \in 1..Len(block) : block[k].what = "node"
    OBVIOUS
  <2>2. /\ Len(queue) + k \in 1..Len(new) /\ new[Len(queue) + k] = block[k] /\ from < Len(queue) + k
        /\ TakesOff(block[k], m)
    BY <1>1, <2>1
  <2>. QED
    BY <2>1, <2>2 DEF Gone, IsEnd, TakesOff
<1>6. OnlyTheOldGo(new, {})
  BY <1>1, <1>3 DEF MicFollows, OnlyTheOldGo, TakesOff
<1>7. NewestIsThere(new, {}, micId)
  BY DEF NewestIsThere
<1>8. OldOnesGo(new, {}, micId)
  <2>1. micId # 0 => Gone(new, micId, 0)
    <3>1. CASE micId = m
      BY <1>1, <1>5, <3>1
    <3>2. CASE micId # m
      BY <1>2, <3>2 DEF MicFollows, OldOnesGo
    <3>. QED
      BY <3>1, <3>2
  <2>2. ASSUME NEW i \in 1..Len(new), IsNode(new[i], "mic") PROVE Gone(new, new[i].id, i)
    <3>1. i \in 1..Len(queue) /\ IsNode(queue[i], "mic") /\ new[i] = queue[i]
      BY <1>4, <2>2
    <3>2. CASE new[i].id = m
      BY <1>1, <1>5, <3>1, <3>2
    <3>3. CASE new[i].id # m
      BY <1>2, <3>1, <3>3 DEF MicFollows, OldOnesGo
    <3>. QED
      BY <3>2, <3>3
  <2>3. ASSUME NEW k \in 1..Len(new), IsNode(new[k], "mic")
        PROVE  /\ micId # 0 => GoneBy(new, micId, 0, k)
               /\ \A i \in 1..Len(new) :
                    i < k /\ IsNode(new[i], "mic") => GoneBy(new, new[i].id, i, k)
    <3>1. k \in 1..Len(queue) /\ IsNode(queue[k], "mic")
      BY <1>4, <2>3
    <3>2. micId # 0 => GoneBy(new, micId, 0, k)
      BY <1>2, <3>1 DEF MicFollows, OldOnesGo
    <3>3. ASSUME NEW i \in 1..Len(new), i < k, IsNode(new[i], "mic")
          PROVE  GoneBy(new, new[i].id, i, k)
      <4>1. i \in 1..Len(queue) /\ IsNode(queue[i], "mic") /\ new[i] = queue[i]
        BY <1>4, <3>3
      <4>. QED
        BY <1>2, <3>1, <3>3, <4>1 DEF MicFollows, OldOnesGo
    <3>. QED
      BY <3>2, <3>3
  <2>. QED
    BY <2>1, <2>2, <2>3 DEF OldOnesGo
<1>9. MicFollows(new, {}, micId, ports)
  BY <1>6, <1>7, <1>8 DEF MicFollows
<1>. QED
  BY <1>9 DEF new

\* A feeder's announcement says nothing of microphones.
LEMMA MicUntouched ==
  ASSUME NEW queue \in Seq(FlEvent), NEW block \in Seq(FlEvent), NEW mics, NEW micId, NEW ports,
         MicFollows(queue, mics, micId, ports),
         \A k \in 1..Len(block) : block[k].op = "add" /\ block[k].role = "feeder"
  PROVE  MicFollows(queue \o block, mics, micId, ports)
<1>. DEFINE new == queue \o block
<1>1. /\ Len(new) = Len(queue) + Len(block)
      /\ Len(queue) \in Nat /\ Len(block) \in Nat
      /\ \A i \in 1..Len(queue) : i \in 1..Len(new) /\ new[i] = queue[i]
      /\ \A i \in 1..Len(new) :
           i \in 1..Len(queue) \/ (i > Len(queue) /\ i - Len(queue) \in 1..Len(block)
                                     /\ new[i] = block[i - Len(queue)])
  BY BlockAdded
<1>2. \A id, from : /\ Gone(queue, id, from) => Gone(new, id, from)
                    /\ \A to : GoneBy(queue, id, from, to) => GoneBy(new, id, from, to)
  BY GoneStays
<1>. HIDE DEF new
<1>3. \A i \in 1..Len(new) : i \in 1..Len(queue) \/ (new[i].op = "add" /\ new[i].role = "feeder")
  BY <1>1
<1>4. \A i \in 1..Len(new) : IsNode(new[i], "mic") => i \in 1..Len(queue) /\ IsNode(queue[i], "mic")
                                                       /\ new[i] = queue[i]
  BY <1>1, <1>3 DEF IsNode
<1>5. OnlyTheOldGo(new, mics)
  BY <1>1, <1>3 DEF MicFollows, OnlyTheOldGo
<1>6. NewestIsThere(new, mics, micId)
  <2>. SUFFICES ASSUME NEW m \in mics
                PROVE  \/ micId = m /\ \A i \in 1..Len(new) : ~IsNode(new[i], "mic")
                       \/ \E i \in 1..Len(new) :
                            /\ IsNode(new[i], "mic") /\ new[i].id = m
                            /\ \A k \in 1..Len(new) : i < k => ~IsNode(new[k], "mic")
    BY DEF NewestIsThere
  <2>1. CASE micId = m /\ \A i \in 1..Len(queue) : ~IsNode(queue[i], "mic")
    BY <1>4, <2>1
  <2>2. ASSUME NEW i \in 1..Len(queue), IsNode(queue[i], "mic"), queue[i].id = m,
               \A k \in 1..Len(queue) : i < k => ~IsNode(queue[k], "mic")
        PROVE  /\ i \in 1..Len(new) /\ IsNode(new[i], "mic") /\ new[i].id = m
               /\ \A k \in 1..Len(new) : i < k => ~IsNode(new[k], "mic")
    BY <1>1, <1>4, <2>2
  <2>. QED
    BY <2>1, <2>2 DEF MicFollows, NewestIsThere
<1>7. \A m \in mics : PortsFollow(new, "mic", m, micId, ports)
  BY <1>1 DEF MicFollows, PortsFollow
<1>8. OldOnesGo(new, mics, micId)
  <2>1. micId # 0 /\ micId \notin mics => Gone(new, micId, 0)
    BY <1>2 DEF MicFollows, OldOnesGo
  <2>2. \A i \in 1..Len(new) : IsNode(new[i], "mic") /\ new[i].id \notin mics => Gone(new, new[i].id, i)
    BY <1>2, <1>4 DEF MicFollows, OldOnesGo
  <2>3. ASSUME NEW k \in 1..Len(new), IsNode(new[k], "mic")
        PROVE  /\ micId # 0 => GoneBy(new, micId, 0, k)
               /\ \A i \in 1..Len(new) :
                    i < k /\ IsNode(new[i], "mic") => GoneBy(new, new[i].id, i, k)
    <3>1. k \in 1..Len(queue) /\ IsNode(queue[k], "mic")
      BY <1>4, <2>3
    <3>2. micId # 0 => GoneBy(new, micId, 0, k)
      BY <1>2, <3>1 DEF MicFollows, OldOnesGo
    <3>3. ASSUME NEW i \in 1..Len(new), i < k, IsNode(new[i], "mic")
          PROVE  GoneBy(new, new[i].id, i, k)
      <4>1. i \in 1..Len(queue) /\ IsNode(queue[i], "mic") /\ new[i] = queue[i]
        BY <1>4, <3>3
      <4>. QED
        BY <1>2, <3>1, <3>3, <4>1 DEF MicFollows, OldOnesGo
    <3>. QED
      BY <3>2, <3>3
  <2>. QED
    BY <2>1, <2>2, <2>3 DEF OldOnesGo
<1>9. MicFollows(new, mics, micId, ports)
  BY <1>5, <1>6, <1>7, <1>8 DEF MicFollows
<1>. QED
  BY <1>9 DEF new

\* A microphone is announced that nothing has been heard of: those before it go first.
LEMMA MicAnnounced ==
  ASSUME NEW queue \in Seq(FlEvent), NEW m \in Nat, NEW micId, NEW ports, NEW ports2,
         MicFollows(queue, {}, micId, ports), \A i \in 1..Len(queue) : queue[i].id # m
  PROVE  MicFollows(queue \o Announced("mic", m), {m}, micId, ports2)
<1>. DEFINE block == Announced("mic", m)
            new == queue \o block
            n == Len(queue)
<1>1. /\ block \in Seq(FlEvent) /\ Len(block) = 3 /\ IsNode(block[1], "mic") /\ block[1].id = m
      /\ IsPort(block[2], "mic", m, "left") /\ IsPort(block[3], "mic", m, "right")
      /\ \A k \in 1..3 : block[k].op = "add"
      /\ \A k \in 2..3 : ~IsNode(block[k], "mic")
  BY AnnouncedBlock
<1>. HIDE DEF block
<1>2. /\ Len(new) = n + 3 /\ n \in Nat
      /\ \A i \in 1..n : i \in 1..Len(new) /\ new[i] = queue[i]
      /\ \A k \in 1..3 : n + k \in 1..Len(new) /\ new[n + k] = block[k]
      /\ \A i \in 1..Len(new) :
           i \in 1..n \/ (i > n /\ i - n \in 1..3 /\ new[i] = block[i - n])
  <2>1. /\ Len(new) = n + Len(block) /\ n \in Nat
        /\ \A i \in 1..n : i \in 1..Len(new) /\ new[i] = queue[i]
        /\ \A k \in 1..Len(block) : n + k \in 1..Len(new) /\ new[n + k] = block[k]
        /\ \A i \in 1..Len(new) :
             i \in 1..n \/ (i > n /\ i - n \in 1..Len(block) /\ new[i] = block[i - n])
    BY <1>1, BlockAdded
  <2>. HIDE DEF new, n
  <2>. QED
    BY <1>1, <2>1
<1>3. \A id, from : /\ Gone(queue, id, from) => Gone(new, id, from)
                    /\ \A to : GoneBy(queue, id, from, to) => GoneBy(new, id, from, to)
  BY <1>1, GoneStays
<1>. HIDE DEF new
<1>4. /\ n + 1 \in 1..Len(new) /\ IsNode(new[n + 1], "mic") /\ new[n + 1].id = m
      /\ n + 2 \in 1..Len(new) /\ IsPort(new[n + 2], "mic", m, "left")
      /\ n + 3 \in 1..Len(new) /\ IsPort(new[n + 3], "mic", m, "right")
  BY <1>1, <1>2
<1>5. \A i \in 1..Len(new) : i \in 1..n \/ (i > n /\ new[i].op = "add")
  BY <1>1, <1>2
<1>6. \A i \in 1..Len(new) : IsNode(new[i], "mic") => i \in 1..n \/ i = n + 1
  <2>. SUFFICES ASSUME NEW i \in 1..Len(new), IsNode(new[i], "mic"), i \notin 1..n PROVE i = n + 1
    OBVIOUS
  <2>1. i - n \in 1..3 /\ new[i] = block[i - n]
    BY <1>2
  <2>2. i - n \notin 2..3
    BY <1>1, <2>1
  <2>. QED
    BY <1>2, <2>1, <2>2
<1>7. OnlyTheOldGo(new, {m})
  BY <1>2, <1>5 DEF MicFollows, OnlyTheOldGo
<1>8. NewestIsThere(new, {m}, micId)
  BY <1>2, <1>4, <1>6 DEF NewestIsThere
<1>9. PortsFollow(new, "mic", m, micId, ports2)
  <2>. SUFFICES ASSUME NEW c \in Channels
                PROVE  \E j \in 1..Len(new) :
                         /\ IsPort(new[j], "mic", m, c)
                         /\ \E i \in 1..Len(new) : i < j /\ IsNode(new[i], "mic") /\ new[i].id = m
    BY DEF PortsFollow
  <2>. QED
    BY <1>2, <1>4 DEF Channels
<1>10. OldOnesGo(new, {m}, micId)
  <2>1. micId # 0 /\ micId \notin {m} => Gone(new, micId, 0)
    BY <1>3 DEF MicFollows, OldOnesGo
  <2>2. ASSUME NEW i \in 1..Len(new), IsNode(new[i], "mic"), new[i].id # m PROVE Gone(new, new[i].id, i)
    <3>1. i \in 1..n /\ new[i] = queue[i]
      BY <1>2, <1>4, <1>6, <2>2
    <3>. QED
      BY <1>3, <2>2, <3>1 DEF MicFollows, OldOnesGo
  <2>3. \A id, from : Gone(queue, id, from) => GoneBy(new, id, from, n + 1)
    BY <1>2 DEF Gone, GoneBy
  <2>4. ASSUME NEW k \in 1..Len(new), IsNode(new[k], "mic")
        PROVE  /\ micId # 0 => GoneBy(new, micId, 0, k)
               /\ \A i \in 1..Len(new) :
                    i < k /\ IsNode(new[i], "mic") => GoneBy(new, new[i].id, i, k)
    <3>1. CASE k \in 1..n
      <4>1. IsNode(queue[k], "mic")
        BY <1>2, <2>4, <3>1
      <4>2. micId # 0 => GoneBy(new, micId, 0, k)
        BY <1>3, <3>1, <4>1 DEF MicFollows, OldOnesGo
      <4>3. ASSUME NEW i \in 1..Len(new), i < k, IsNode(new[i], "mic") PROVE GoneBy(new, new[i].id, i, k)
        <5>1. i \in 1..n /\ new[i] = queue[i]
          BY <1>2, <3>1, <4>3
        <5>. QED
          BY <1>3, <3>1, <4>1, <4>3, <5>1 DEF MicFollows, OldOnesGo
      <4>. QED
        BY <4>2, <4>3
    <3>2. CASE k = n + 1
      <4>1. micId # 0 => GoneBy(new, micId, 0, k)
        BY <2>3, <3>2 DEF MicFollows, OldOnesGo
      <4>2. ASSUME NEW i \in 1..Len(new), i < k, IsNode(new[i], "mic") PROVE GoneBy(new, new[i].id, i, k)
        <5>1. i \in 1..n /\ new[i] = queue[i]
          BY <1>2, <3>2, <4>2
        <5>. QED
          BY <2>3, <3>2, <4>2, <5>1 DEF MicFollows, OldOnesGo
      <4>. QED
        BY <4>1, <4>2
    <3>. QED
      BY <1>6, <2>4, <3>1, <3>2
  <2>. QED
    BY <2>1, <2>2, <2>4 DEF OldOnesGo
<1>11. MicFollows(new, {m}, micId, ports2)
  BY <1>7, <1>8, <1>9, <1>10 DEF MicFollows
<1>. QED
  BY <1>11 DEF new, block

\* The feeder: events of microphones say nothing of it.
LEMMA FeederUntouched ==
  ASSUME NEW queue \in Seq(FlEvent), NEW block \in Seq(FlEvent), NEW feeder, NEW feederId, NEW ports,
         FeederFollows(queue, feeder, feederId, ports), \A k \in 1..Len(block) : block[k].role = "mic"
  PROVE  FeederFollows(queue \o block, feeder, feederId, ports)
<1>. DEFINE new == queue \o block
<1>1. /\ \A i \in 1..Len(queue) : i \in 1..Len(new) /\ new[i] = queue[i]
      /\ \A i \in 1..Len(new) : i \in 1..Len(queue) \/ new[i].role = "mic"
  BY BlockAdded
<1>. HIDE DEF new
<1>2. \A i \in 1..Len(new) : new[i].role = "feeder" => new[i].id = feeder
  BY <1>1 DEF FeederFollows
<1>3. feeder # 0 => feederId = feeder \/ \E i \in 1..Len(new) : IsNode(new[i], "feeder")
  BY <1>1 DEF FeederFollows
<1>4. feeder # 0 => PortsFollow(new, "feeder", feeder, feederId, ports)
  BY <1>1 DEF FeederFollows, PortsFollow
<1>5. FeederFollows(new, feeder, feederId, ports)
  BY <1>2, <1>3, <1>4 DEF FeederFollows
<1>. QED
  BY <1>5 DEF new

LEMMA FeederAnnounced ==
  ASSUME NEW queue \in Seq(FlEvent), NEW f \in Nat, NEW ports,
         \A i \in 1..Len(queue) : queue[i].role = "mic"
  PROVE  FeederFollows(queue \o Announced("feeder", f), f, 0, ports)
<1>. DEFINE block == Announced("feeder", f)
            new == queue \o block
            n == Len(queue)
<1>1. /\ block \in Seq(FlEvent) /\ Len(block) = 3 /\ IsNode(block[1], "feeder") /\ block[1].id = f
      /\ IsPort(block[2], "feeder", f, "left") /\ IsPort(block[3], "feeder", f, "right")
      /\ \A k \in 1..3 : block[k].id = f
  BY AnnouncedBlock
<1>. HIDE DEF block
<1>2. /\ Len(new) = n + 3 /\ n \in Nat
      /\ \A i \in 1..n : new[i] = queue[i]
      /\ \A k \in 1..3 : n + k \in 1..Len(new) /\ new[n + k] = block[k]
      /\ \A i \in 1..Len(new) :
           i \in 1..n \/ (i > n /\ i - n \in 1..3 /\ new[i] = block[i - n])
  <2>1. /\ Len(new) = n + Len(block) /\ n \in Nat
        /\ \A i \in 1..n : i \in 1..Len(new) /\ new[i] = queue[i]
        /\ \A k \in 1..Len(block) : n + k \in 1..Len(new) /\ new[n + k] = block[k]
        /\ \A i \in 1..Len(new) :
             i \in 1..n \/ (i > n /\ i - n \in 1..Len(block) /\ new[i] = block[i - n])
    BY <1>1, BlockAdded
  <2>. HIDE DEF new, n
  <2>. QED
    BY <1>1, <2>1
<1>. HIDE DEF new
<1>3. /\ n + 1 \in 1..Len(new) /\ IsNode(new[n + 1], "feeder") /\ new[n + 1].id = f
      /\ n + 2 \in 1..Len(new) /\ IsPort(new[n + 2], "feeder", f, "left")
      /\ n + 3 \in 1..Len(new) /\ IsPort(new[n + 3], "feeder", f, "right")
  BY <1>1, <1>2
<1>4. \A i \in 1..Len(new) : new[i].role = "feeder" => new[i].id = f
  BY <1>1, <1>2
<1>5. PortsFollow(new, "feeder", f, 0, ports)
  <2>. SUFFICES ASSUME NEW c \in Channels
                PROVE  \E j \in 1..Len(new) :
                         /\ IsPort(new[j], "feeder", f, c)
                         /\ \E i \in 1..Len(new) : i < j /\ IsNode(new[i], "feeder") /\ new[i].id = f
    BY DEF PortsFollow
  <2>. QED
    BY <1>2, <1>3 DEF Channels
<1>6. FeederFollows(new, f, 0, ports)
  BY <1>3, <1>4, <1>5 DEF FeederFollows
<1>. QED
  BY <1>6 DEF new, block

(***************************************************************************)
(* An event is handled.                                                    *)
(***************************************************************************)

\* What is under way behind the first event still is.
LEMMA GoneIsAhead ==
  ASSUME NEW queue \in Seq(FlEvent), queue # <<>>, NEW id
  PROVE  /\ \A from \in Nat : Gone(queue, id, from + 1) => Gone(Tail(queue), id, from)
         /\ \A from \in Nat, to \in Nat :
              GoneBy(queue, id, from + 1, to + 1) => GoneBy(Tail(queue), id, from, to)
         /\ ~IsEnd(Head(queue), id) =>
              /\ Gone(queue, id, 0) => Gone(Tail(queue), id, 0)
              /\ \A to \in Nat : GoneBy(queue, id, 0, to + 1) => GoneBy(Tail(queue), id, 0, to)
<1>. DEFINE rest == Tail(queue)
<1>1. /\ Head(queue) = queue[1]
      /\ \A i \in 1..Len(queue) :
           i = 1 \/ (i - 1 \in 1..Len(rest) /\ i \in Nat /\ queue[i] = rest[i - 1])
  BY EventTaken
<1>. HIDE DEF rest
<1>2. ASSUME NEW from \in Nat, Gone(queue, id, from + 1) PROVE Gone(rest, id, from)
  <2>1. PICK j \in 1..Len(queue) : from + 1 < j /\ IsEnd(queue[j], id)
    BY <1>2 DEF Gone
  <2>2. j - 1 \in 1..Len(rest) /\ queue[j] = rest[j - 1] /\ from < j - 1
    BY <1>1, <2>1
  <2>. QED
    BY <2>1, <2>2 DEF Gone
<1>3. ASSUME NEW from \in Nat, NEW to \in Nat, GoneBy(queue, id, from + 1, to + 1)
      PROVE  GoneBy(rest, id, from, to)
  <2>1. PICK j \in 1..Len(queue) : from + 1 < j /\ j < to + 1 /\ IsEnd(queue[j], id)
    BY <1>3 DEF GoneBy
  <2>2. j - 1 \in 1..Len(rest) /\ queue[j] = rest[j - 1] /\ from < j - 1 /\ j - 1 < to
    BY <1>1, <2>1
  <2>. QED
    BY <2>1, <2>2 DEF GoneBy
<1>4. ASSUME ~IsEnd(Head(queue), id), Gone(queue, id, 0) PROVE Gone(rest, id, 0)
  <2>1. PICK j \in 1..Len(queue) : IsEnd(queue[j], id)
    BY <1>4 DEF Gone
  <2>2. j - 1 \in 1..Len(rest) /\ queue[j] = rest[j - 1] /\ 0 < j - 1
    BY <1>1, <1>4, <2>1
  <2>. QED
    BY <2>1, <2>2 DEF Gone
<1>5. ASSUME ~IsEnd(Head(queue), id), NEW to \in Nat, GoneBy(queue, id, 0, to + 1)
      PROVE  GoneBy(rest, id, 0, to)
  <2>1. PICK j \in 1..Len(queue) : j < to + 1 /\ IsEnd(queue[j], id)
    BY <1>5 DEF GoneBy
  <2>2. j - 1 \in 1..Len(rest) /\ queue[j] = rest[j - 1] /\ 0 < j - 1 /\ j - 1 < to
    BY <1>1, <1>5, <2>1
  <2>. QED
    BY <2>1, <2>2 DEF GoneBy
<1>. QED
  BY <1>2, <1>3, <1>4, <1>5 DEF rest

\* What does not depend on the engine's knowledge of the microphone.
LEMMA QueueGoesOn ==
  ASSUME NEW queue \in Seq(FlEvent), queue # <<>>, NEW mics, NEW micId, NEW ports,
         MicFollows(queue, mics, micId, ports)
  PROVE  /\ OnlyTheOldGo(Tail(queue), mics)
         /\ \A i \in 1..Len(Tail(queue)) :
              IsNode(Tail(queue)[i], "mic") /\ Tail(queue)[i].id \notin mics
                => Gone(Tail(queue), Tail(queue)[i].id, i)
         /\ \A i, k \in 1..Len(Tail(queue)) :
              i < k /\ IsNode(Tail(queue)[i], "mic") /\ IsNode(Tail(queue)[k], "mic")
                => GoneBy(Tail(queue), Tail(queue)[i].id, i, k)
         /\ ~IsEnd(Head(queue), micId) =>
              /\ micId # 0 /\ micId \notin mics => Gone(Tail(queue), micId, 0)
              /\ micId # 0 => \A k \in 1..Len(Tail(queue)) :
                   IsNode(Tail(queue)[k], "mic") => GoneBy(Tail(queue), micId, 0, k)
<1>. DEFINE rest == Tail(queue)
<1>1. \A i \in 1..Len(rest) :
        i + 1 \in 1..Len(queue) /\ i \in Nat /\ rest[i] = queue[i + 1]
  BY EventTaken
<1>2. \A id : /\ \A from \in Nat : Gone(queue, id, from + 1) => Gone(rest, id, from)
              /\ \A from \in Nat, to \in Nat :
                   GoneBy(queue, id, from + 1, to + 1) => GoneBy(rest, id, from, to)
              /\ ~IsEnd(Head(queue), id) =>
                   /\ Gone(queue, id, 0) => Gone(rest, id, 0)
                   /\ \A to \in Nat : GoneBy(queue, id, 0, to + 1) => GoneBy(rest, id, 0, to)
  BY GoneIsAhead
<1>. HIDE DEF rest
<1>3. OnlyTheOldGo(rest, mics)
  BY <1>1 DEF MicFollows, OnlyTheOldGo
<1>4. ASSUME NEW i \in 1..Len(rest), IsNode(rest[i], "mic"), rest[i].id \notin mics
      PROVE  Gone(rest, rest[i].id, i)
  <2>1. i + 1 \in 1..Len(queue) /\ i \in Nat /\ rest[i] = queue[i + 1]
    BY <1>1
  <2>2. Gone(queue, queue[i + 1].id, i + 1)
    BY <1>4, <2>1 DEF MicFollows, OldOnesGo
  <2>. QED
    BY <1>2, <2>1, <2>2
<1>5. ASSUME NEW i \in 1..Len(rest), NEW k \in 1..Len(rest), i < k,
             IsNode(rest[i], "mic"), IsNode(rest[k], "mic")
      PROVE  GoneBy(rest, rest[i].id, i, k)
  <2>1. /\ i + 1 \in 1..Len(queue) /\ i \in Nat /\ rest[i] = queue[i + 1]
        /\ k + 1 \in 1..Len(queue) /\ k \in Nat /\ rest[k] = queue[k + 1] /\ i + 1 < k + 1
    BY <1>1, <1>5
  <2>2. GoneBy(queue, queue[i + 1].id, i + 1, k + 1)
    BY <1>5, <2>1 DEF MicFollows, OldOnesGo
  <2>. QED
    BY <1>2, <2>1, <2>2
<1>6. ASSUME ~IsEnd(Head(queue), micId), micId # 0, micId \notin mics PROVE Gone(rest, micId, 0)
  BY <1>2, <1>6 DEF MicFollows, OldOnesGo
<1>7. ASSUME ~IsEnd(Head(queue), micId), micId # 0, NEW k \in 1..Len(rest), IsNode(rest[k], "mic")
      PROVE  GoneBy(rest, micId, 0, k)
  <2>1. k + 1 \in 1..Len(queue) /\ k \in Nat /\ rest[k] = queue[k + 1]
    BY <1>1
  <2>2. GoneBy(queue, micId, 0, k + 1)
    BY <1>7, <2>1 DEF MicFollows, OldOnesGo
  <2>. QED
    BY <1>2, <1>7, <2>1, <2>2
<1>. QED
  BY <1>3, <1>4, <1>5, <1>6, <1>7 DEF rest

\* A microphone is announced: the engine knew of none, and takes it.
LEMMA MicHeard ==
  ASSUME NEW queue \in Seq(FlEvent), queue # <<>>, NEW mics \in SUBSET (Nat \ {0}), NEW micId, NEW ports,
         MicFollows(queue, mics, micId, ports), IsNode(Head(queue), "mic")
  PROVE  micId = 0 /\ MicFollows(Tail(queue), mics, Head(queue).id, ports)
<1>. DEFINE rest == Tail(queue)
            e == Head(queue)
<1>1. /\ 1 \in 1..Len(queue) /\ e = queue[1]
      /\ \A i \in 1..Len(queue) :
           i = 1 \/ (i - 1 \in 1..Len(rest) /\ i \in Nat /\ queue[i] = rest[i - 1])
      /\ \A i \in 1..Len(rest) :
           i + 1 \in 1..Len(queue) /\ i \in Nat /\ rest[i] = queue[i + 1] /\ 1 < i + 1
  BY EventTaken
<1>2. \A id : /\ \A from \in Nat : Gone(queue, id, from + 1) => Gone(rest, id, from)
              /\ \A from \in Nat, to \in Nat :
                   GoneBy(queue, id, from + 1, to + 1) => GoneBy(rest, id, from, to)
  BY GoneIsAhead
<1>3. /\ OnlyTheOldGo(rest, mics)
      /\ \A i \in 1..Len(rest) :
           IsNode(rest[i], "mic") /\ rest[i].id \notin mics => Gone(rest, rest[i].id, i)
      /\ \A i, k \in 1..Len(rest) : i < k /\ IsNode(rest[i], "mic") /\ IsNode(rest[k], "mic")
           => GoneBy(rest, rest[i].id, i, k)
  BY QueueGoesOn
<1>. HIDE DEF rest
<1>4. micId = 0
  <2>1. ~GoneBy(queue, micId, 0, 1)
    BY DEF GoneBy
  <2>. QED
    BY <1>1, <2>1 DEF MicFollows, OldOnesGo
<1>5. NewestIsThere(rest, mics, e.id)
  <2>. SUFFICES ASSUME NEW m \in mics
                PROVE  \/ e.id = m /\ \A i \in 1..Len(rest) : ~IsNode(rest[i], "mic")
                       \/ \E i \in 1..Len(rest) :
                            /\ IsNode(rest[i], "mic") /\ rest[i].id = m
                            /\ \A k \in 1..Len(rest) : i < k => ~IsNode(rest[k], "mic")
    BY DEF NewestIsThere
  <2>1. PICK i \in 1..Len(queue) :
          /\ IsNode(queue[i], "mic") /\ queue[i].id = m
          /\ \A k \in 1..Len(queue) : i < k => ~IsNode(queue[k], "mic")
    BY <1>1 DEF MicFollows, NewestIsThere
  <2>2. \A k \in 1..Len(rest) : i < k + 1 => ~IsNode(rest[k], "mic")
    BY <1>1, <2>1
  <2>3. CASE i = 1
    BY <1>1, <2>1, <2>2, <2>3
  <2>4. CASE i # 1
    <3>1. i - 1 \in 1..Len(rest) /\ i \in Nat /\ queue[i] = rest[i - 1]
      BY <1>1, <2>4
    <3>2. \A k \in 1..Len(rest) : i - 1 < k => i < k + 1
      BY <3>1
    <3>. QED
      BY <2>1, <2>2, <3>1, <3>2
  <2>. QED
    BY <2>3, <2>4
<1>6. ASSUME NEW m \in mics PROVE PortsFollow(rest, "mic", m, e.id, ports)
  <2>. SUFFICES ASSUME NEW c \in Channels
                PROVE  \/ e.id = m /\ c \in ports
                       \/ \E j \in 1..Len(rest) :
                            /\ IsPort(rest[j], "mic", m, c)
                            /\ e.id = m \/ \E i \in 1..Len(rest) : i < j /\ IsNode(rest[i], "mic") /\ rest[i].id = m
    BY DEF PortsFollow
  <2>1. PortsFollow(queue, "mic", m, micId, ports)
    BY DEF MicFollows
  <2>2. \/ micId = m /\ c \in ports
        \/ \E j \in 1..Len(queue) :
             /\ IsPort(queue[j], "mic", m, c)
             /\ micId = m \/ \E i \in 1..Len(queue) : i < j /\ IsNode(queue[i], "mic") /\ queue[i].id = m
    BY <2>1 DEF PortsFollow
  <2>3. PICK j \in 1..Len(queue), i \in 1..Len(queue) :
          IsPort(queue[j], "mic", m, c) /\ i < j /\ IsNode(queue[i], "mic") /\ queue[i].id = m
    BY <1>4, <2>2
  <2>4. j - 1 \in 1..Len(rest) /\ queue[j] = rest[j - 1]
    BY <1>1, <2>3
  <2>5. i = 1 \/ (i - 1 \in 1..Len(rest) /\ queue[i] = rest[i - 1] /\ i - 1 < j - 1)
    BY <1>1, <2>3
  <2>. QED
    BY <1>1, <2>3, <2>4, <2>5
<1>7. OldOnesGo(rest, mics, e.id)
  <2>1. e.id \notin mics => Gone(rest, e.id, 0)
    <3>1. e.id \notin mics => Gone(queue, e.id, 0 + 1)
      BY <1>1 DEF MicFollows, OldOnesGo
    <3>. QED
      BY <1>2, <3>1
  <2>2. ASSUME NEW k \in 1..Len(rest), IsNode(rest[k], "mic") PROVE GoneBy(rest, e.id, 0, k)
    <3>1. k + 1 \in 1..Len(queue) /\ k \in Nat /\ rest[k] = queue[k + 1] /\ 1 < k + 1
      BY <1>1
    <3>2. GoneBy(queue, e.id, 0 + 1, k + 1)
      BY <1>1, <2>2, <3>1 DEF MicFollows, OldOnesGo
    <3>. QED
      BY <1>2, <3>1, <3>2
  <2>. QED
    BY <1>3, <2>1, <2>2 DEF OldOnesGo
<1>8. MicFollows(rest, mics, e.id, ports)
  BY <1>3, <1>5, <1>6, <1>7 DEF MicFollows
<1>. QED
  BY <1>4, <1>8 DEF rest

\* Any other event: the microphone stays, unless it is taken off, and a port that
\* is announced for it is known.
LEMMA OtherHeard ==
  ASSUME NEW queue \in Seq(FlEvent), queue # <<>>, NEW mics \in SUBSET (Nat \ {0}),
         NEW micId, NEW ports, NEW micId2, NEW ports2,
         MicFollows(queue, mics, micId, ports), ~IsNode(Head(queue), "mic"),
         micId2 = IF IsEnd(Head(queue), micId) THEN 0 ELSE micId,
         micId \in mics => ports \subseteq ports2,
         \A c \in Channels : IsPort(Head(queue), "mic", micId, c) => c \in ports2
  PROVE  /\ MicFollows(Tail(queue), mics, micId2, ports2)
         /\ ~IsEnd(Head(queue), micId) /\ Gone(queue, micId, 0) => Gone(Tail(queue), micId, 0)
<1>. DEFINE rest == Tail(queue)
            e == Head(queue)
<1>1. /\ 1 \in 1..Len(queue) /\ e = queue[1]
      /\ \A i \in 1..Len(queue) :
           i = 1 \/ (i - 1 \in 1..Len(rest) /\ i \in Nat /\ queue[i] = rest[i - 1])
      /\ \A i \in 1..Len(rest) :
           i + 1 \in 1..Len(queue) /\ i \in Nat /\ rest[i] = queue[i + 1] /\ 1 < i + 1
  BY EventTaken
<1>2. /\ OnlyTheOldGo(rest, mics)
      /\ \A i \in 1..Len(rest) :
           IsNode(rest[i], "mic") /\ rest[i].id \notin mics => Gone(rest, rest[i].id, i)
      /\ \A i, k \in 1..Len(rest) : i < k /\ IsNode(rest[i], "mic") /\ IsNode(rest[k], "mic")
           => GoneBy(rest, rest[i].id, i, k)
      /\ ~IsEnd(e, micId) =>
           /\ micId # 0 /\ micId \notin mics => Gone(rest, micId, 0)
           /\ micId # 0 => \A k \in 1..Len(rest) : IsNode(rest[k], "mic") => GoneBy(rest, micId, 0, k)
  BY QueueGoesOn
<1>3. ~IsEnd(e, micId) /\ Gone(queue, micId, 0) => Gone(rest, micId, 0)
  BY GoneIsAhead
<1>4. IsEnd(e, micId) => micId \notin mics
  BY <1>1 DEF MicFollows, OnlyTheOldGo, IsEnd
<1>. HIDE DEF rest
<1>5. NewestIsThere(rest, mics, micId2)
  <2>. SUFFICES ASSUME NEW m \in mics
                PROVE  \/ micId2 = m /\ \A i \in 1..Len(rest) : ~IsNode(rest[i], "mic")
                       \/ \E i \in 1..Len(rest) :
                            /\ IsNode(rest[i], "mic") /\ rest[i].id = m
                            /\ \A k \in 1..Len(rest) : i < k => ~IsNode(rest[k], "mic")
    BY DEF NewestIsThere
  <2>1. CASE micId = m /\ \A i \in 1..Len(queue) : ~IsNode(queue[i], "mic")
    BY <1>1, <1>4, <2>1
  <2>2. ASSUME NEW i \in 1..Len(queue), IsNode(queue[i], "mic"), queue[i].id = m,
               \A k \in 1..Len(queue) : i < k => ~IsNode(queue[k], "mic")
        PROVE  \E n \in 1..Len(rest) :
                 /\ IsNode(rest[n], "mic") /\ rest[n].id = m
                 /\ \A k \in 1..Len(rest) : n < k => ~IsNode(rest[k], "mic")
    <3>1. i - 1 \in 1..Len(rest) /\ i \in Nat /\ queue[i] = rest[i - 1]
      BY <1>1, <2>2
    <3>2. \A k \in 1..Len(rest) : i - 1 < k => ~IsNode(rest[k], "mic")
      <4>1. \A k \in 1..Len(rest) : i - 1 < k => i < k + 1
        BY <3>1
      <4>. QED
        BY <1>1, <2>2, <4>1
    <3>. QED
      BY <2>2, <3>1, <3>2
  <2>. QED
    BY <2>1, <2>2 DEF MicFollows, NewestIsThere
<1>6. ASSUME NEW m \in mics PROVE PortsFollow(rest, "mic", m, micId2, ports2)
  <2>. SUFFICES ASSUME NEW c \in Channels
                PROVE  \/ micId2 = m /\ c \in ports2
                       \/ \E j \in 1..Len(rest) :
                            /\ IsPort(rest[j], "mic", m, c)
                            /\ micId2 = m \/ \E i \in 1..Len(rest) : i < j /\ IsNode(rest[i], "mic") /\ rest[i].id = m
    BY DEF PortsFollow
  <2>0. PortsFollow(queue, "mic", m, micId, ports)
    BY DEF MicFollows
  <2>1. CASE micId = m /\ c \in ports
    BY <1>4, <2>1
  <2>2. ASSUME NEW j \in 1..Len(queue), IsPort(queue[j], "mic", m, c), micId = m
        PROVE  \/ micId2 = m /\ c \in ports2
               \/ \E k \in 1..Len(rest) : IsPort(rest[k], "mic", m, c) /\ micId2 = m
    BY <1>1, <1>4, <2>2
  <2>3. ASSUME NEW j \in 1..Len(queue), IsPort(queue[j], "mic", m, c),
               NEW i \in 1..Len(queue), i < j, IsNode(queue[i], "mic"), queue[i].id = m
        PROVE  \E k \in 1..Len(rest) :
                 /\ IsPort(rest[k], "mic", m, c)
                 /\ \E n \in 1..Len(rest) : n < k /\ IsNode(rest[n], "mic") /\ rest[n].id = m
    <3>1. i - 1 \in 1..Len(rest) /\ i \in Nat /\ queue[i] = rest[i - 1]
      BY <1>1, <2>3
    <3>2. j - 1 \in 1..Len(rest) /\ j \in Nat /\ queue[j] = rest[j - 1] /\ i - 1 < j - 1
      BY <1>1, <2>3
    <3>. QED
      BY <2>3, <3>1, <3>2
  <2>. QED
    BY <2>0, <2>1, <2>2, <2>3 DEF PortsFollow
<1>7. OldOnesGo(rest, mics, micId2)
  BY <1>2, <1>4 DEF OldOnesGo
<1>8. MicFollows(rest, mics, micId2, ports2)
  BY <1>2, <1>5, <1>6, <1>7 DEF MicFollows
<1>. QED
  BY <1>3, <1>8 DEF rest

\* The same of the feeder, whose events are few.
LEMMA FeederHeard ==
  ASSUME NEW queue \in Seq(FlEvent), queue # <<>>, NEW feeder, NEW feederId, NEW ports,
         NEW feederId2, NEW ports2, FeederFollows(queue, feeder, feederId, ports),
         feederId2 = IF IsNode(Head(queue), "feeder") THEN Head(queue).id ELSE feederId,
         ports \subseteq ports2,
         \A c \in Channels : IsPort(Head(queue), "feeder", feederId, c) => c \in ports2
  PROVE  FeederFollows(Tail(queue), feeder, feederId2, ports2)
<1>. DEFINE rest == Tail(queue)
            e == Head(queue)
<1>1. /\ 1 \in 1..Len(queue) /\ e = queue[1]
      /\ \A i \in 1..Len(queue) :
           i = 1 \/ (i - 1 \in 1..Len(rest) /\ i \in Nat /\ queue[i] = rest[i - 1])
      /\ \A i \in 1..Len(rest) :
           i + 1 \in 1..Len(queue) /\ i \in Nat /\ rest[i] = queue[i + 1] /\ 1 < i + 1
  BY EventTaken
<1>. HIDE DEF rest
<1>2. IsNode(e, "feeder") => feederId2 = feeder
  BY <1>1 DEF FeederFollows, IsNode
<1>3. feederId2 \in {0, feeder} /\ (feederId = feeder => feederId2 = feeder)
  BY <1>2 DEF FeederFollows
<1>4. \A i \in 1..Len(rest) : rest[i].role = "feeder" => rest[i].id = feeder
  BY <1>1 DEF FeederFollows
<1>5. feeder # 0 => feederId2 = feeder \/ \E i \in 1..Len(rest) : IsNode(rest[i], "feeder")
  BY <1>1, <1>2, <1>3 DEF FeederFollows
<1>6. ASSUME feeder # 0 PROVE PortsFollow(rest, "feeder", feeder, feederId2, ports2)
  <2>. SUFFICES ASSUME NEW c \in Channels
                PROVE  \/ feederId2 = feeder /\ c \in ports2
                       \/ \E j \in 1..Len(rest) :
                            /\ IsPort(rest[j], "feeder", feeder, c)
                            /\ feederId2 = feeder \/ \E i \in 1..Len(rest) : i < j /\ IsNode(rest[i], "feeder") /\ rest[i].id = feeder
    BY DEF PortsFollow
  <2>0. PortsFollow(queue, "feeder", feeder, feederId, ports)
    BY <1>6 DEF FeederFollows
  <2>1. CASE feederId = feeder /\ c \in ports
    BY <1>3, <2>1
  <2>2. ASSUME NEW j \in 1..Len(queue), IsPort(queue[j], "feeder", feeder, c), feederId = feeder
        PROVE  \/ feederId2 = feeder /\ c \in ports2
               \/ \E k \in 1..Len(rest) : IsPort(rest[k], "feeder", feeder, c) /\ feederId2 = feeder
    BY <1>1, <1>3, <2>2
  <2>3. ASSUME NEW j \in 1..Len(queue), IsPort(queue[j], "feeder", feeder, c),
               NEW i \in 1..Len(queue), i < j, IsNode(queue[i], "feeder"), queue[i].id = feeder
        PROVE  \E k \in 1..Len(rest) :
                 /\ IsPort(rest[k], "feeder", feeder, c)
                 /\ feederId2 = feeder \/ \E n \in 1..Len(rest) : n < k /\ IsNode(rest[n], "feeder") /\ rest[n].id = feeder
    <3>1. j - 1 \in 1..Len(rest) /\ j \in Nat /\ queue[j] = rest[j - 1]
      BY <1>1, <2>3
    <3>2. i = 1 \/ (i - 1 \in 1..Len(rest) /\ queue[i] = rest[i - 1] /\ i - 1 < j - 1)
      BY <1>1, <2>3
    <3>. QED
      BY <1>1, <1>2, <2>3, <3>1, <3>2
  <2>. QED
    BY <2>0, <2>1, <2>2, <2>3 DEF PortsFollow
<1>7. FeederFollows(rest, feeder, feederId2, ports2)
  BY <1>3, <1>4, <1>5, <1>6 DEF FeederFollows
<1>. QED
  BY <1>7 DEF rest

(***************************************************************************)
(* Links.                                                                  *)
(***************************************************************************)

\* Both ends are known to the engine: the feeder is there, and so is the
\* microphone unless its end is under way.
LEMMA TryLinkKeeps ==
  ASSUME NEW links, NEW alive, TryLink(links, alive), UNCHANGED <<flMics, flFeeder>>,
         MicFollows(flEvents', flMics', flMicId', flIn'),
         FeederFollows(flEvents', flFeeder', flFeederId', flOut'),
         HeldLinks(flEvents', flMicId', links, alive)
  PROVE  /\ Tried(Linkable', flLinks', flRefused')
         /\ HeldLinks(flEvents', flMicId', flLinks', flAlive')
         /\ flLinks' \subseteq links \cup flOut'
<1>. DEFINE due == IF flFeederId' = 0 \/ flMicId' = 0 THEN {} ELSE (flOut' \cap flIn') \ links
<1>1. PICK refused \in SUBSET due :
        /\ flLinks' = links \cup (due \ refused)
        /\ flAlive' = IF flMicId' \in flMics /\ flFeeder # 0 THEN alive \cup (due \ refused) ELSE alive
        /\ flRefused' = (flRefused \ due) \cup refused
  BY Zenon DEF TryLink
<1>2. Linkable' = IF flFeederId' = 0 \/ flMicId' = 0 THEN {} ELSE flOut' \cap flIn'
  BY DEF Linkable
<1>3. Tried(Linkable', flLinks', flRefused')
  BY <1>1, <1>2 DEF Tried
<1>4. due # {} => flFeederId' # 0 /\ flMicId' # 0 /\ flFeeder # 0
  BY DEF FeederFollows
<1>5. flMicId' # 0 /\ flMicId' \notin flMics => Gone(flEvents', flMicId', 0)
  BY DEF MicFollows, OldOnesGo
<1>6. HeldLinks(flEvents', flMicId', flLinks', flAlive')
  <2>1. flLinks' # {} => flMicId' # 0 /\ (links \subseteq alive \/ Gone(flEvents', flMicId', 0))
    BY <1>1, <1>4 DEF HeldLinks
  <2>2. flLinks' \subseteq flAlive' \/ due # {} \/ ~(links \subseteq alive)
    BY <1>1
  <2>3. due # {} => flLinks' \subseteq flAlive' \/ ~(links \subseteq alive) \/ Gone(flEvents', flMicId', 0)
    BY <1>1, <1>4, <1>5
  <2>. HIDE DEF due
  <2>. QED
    BY <2>1, <2>2, <2>3 DEF HeldLinks
<1>7. flLinks' \subseteq links \cup flOut'
  BY <1>1
<1>. QED
  BY <1>3, <1>6, <1>7

(***************************************************************************)
(* The steps.                                                              *)
(***************************************************************************)

\* The parts of the invariant, as the steps establish them.
LEMMA FedTogether ==
  ASSUME FeederTyped', OneVirtualMic',
         ~flRuns' => /\ flEvents' = <<>> /\ flFeeder' = 0 /\ flFeederId' = 0 /\ flMicId' = 0
                     /\ flLinks' = {},
         flRuns' => MicFollows(flEvents', flMics', flMicId', flIn'),
         flRuns' => FeederFollows(flEvents', flFeeder', flFeederId', flOut'),
         Tried(Linkable', flLinks', flRefused'),
         HeldLinks(flEvents', flMicId', flLinks', flAlive')
  PROVE  FeederInv'
BY DEF FeederInv, MicFollows, OnlyTheOldGo, NewestIsThere, PortsFollow, OldOnesGo, Gone, GoneBy,
       IsEnd, IsNode, IsPort, FeederFollows, Tried, HeldLinks

LEMMA FedStart == FlInit => FeederInv
<1>. SUFFICES ASSUME FlInit PROVE FeederInv
  OBVIOUS
<1>1. /\ flEvents = <<>> /\ Len(flEvents) = 0 /\ 1..Len(flEvents) = {} /\ flEvents \in Seq(FlEvent)
      /\ flMics = {} /\ flIds = 0
  BY DEF FlInit
<1>0. FeederTyped
  <2>1. \A i \in 1..Len(flEvents) : flEvents[i].id \in 1..flIds
    BY <1>1
  <2>2. /\ flFeeder = 0 /\ flMicId = 0 /\ flRuns = FALSE /\ flOut = {} /\ flIn = {} /\ flLinks = {}
        /\ flIds \in Nat /\ flFeeder \in 0..flIds /\ flMics \subseteq 1..flIds
    BY <1>1 DEF FlInit
  <2>. QED
    BY <1>1, <2>1, <2>2 DEF FeederTyped
<1>2. Tried(Linkable, flLinks, flRefused) /\ HeldLinks(flEvents, flMicId, flLinks, flAlive)
  BY DEF FlInit, Linkable, Tried, HeldLinks
<1>. QED
  BY <1>0, <1>2 DEF FlInit, FeederInv, OneVirtualMic

\* What a step of the engine with an event finds.
LEMMA EventIs ==
  ASSUME FeederInv, flRuns, flEvents # <<>>
  PROVE  /\ flEvents \in Seq(FlEvent) /\ Head(flEvents) \in FlEvent /\ Head(flEvents).id # 0
         /\ flMics \in SUBSET (Nat \ {0})
         /\ MicFollows(flEvents, flMics, flMicId, flIn)
         /\ FeederFollows(flEvents, flFeeder, flFeederId, flOut)
         /\ Head(flEvents).op = "remove" =>
              Head(flEvents).role = "mic" /\ Head(flEvents).id \notin flMics
<1>1. /\ flEvents \in Seq(FlEvent) /\ flIds \in Nat /\ flMics \subseteq 1..flIds
      /\ \A i \in 1..Len(flEvents) : flEvents[i].id \in 1..flIds
      /\ MicFollows(flEvents, flMics, flMicId, flIn)
      /\ FeederFollows(flEvents, flFeeder, flFeederId, flOut)
  BY DEF FeederInv, FeederTyped
<1>2. 1 \in 1..Len(flEvents) /\ Head(flEvents) = flEvents[1] /\ Head(flEvents) \in FlEvent
  BY <1>1, EventTaken
<1>. QED
  BY <1>1, <1>2 DEF MicFollows, OnlyTheOldGo

\* The types but for what the engine takes from the event.
LEMMA EventTypes ==
  ASSUME FeederInv, flEvents # <<>>, flEvents' = Tail(flEvents),
         UNCHANGED <<flMics, flFeeder, flRuns, flIds>>,
         flMicId' \in Nat, flOut' \subseteq Channels, flIn' \subseteq Channels,
         flLinks' \subseteq Channels
  PROVE  FeederTyped'
<1>1. /\ flEvents \in Seq(FlEvent) /\ \A i \in 1..Len(flEvents) : flEvents[i].id \in 1..flIds
  BY DEF FeederInv, FeederTyped
<1>2. /\ Tail(flEvents) \in Seq(FlEvent)
      /\ \A i \in 1..Len(Tail(flEvents)) :
           i + 1 \in 1..Len(flEvents) /\ Tail(flEvents)[i] = flEvents[i + 1]
  BY <1>1, EventTaken
<1>3. \A i \in 1..Len(Tail(flEvents)) : Tail(flEvents)[i].id \in 1..flIds
  BY <1>1, <1>2
<1>. QED
  BY <1>2, <1>3 DEF FeederInv, FeederTyped

LEMMA NodeAddedFeeds ==
  ASSUME FeederInv, flRuns, flEvents # <<>>, flEvents' = Tail(flEvents),
         UNCHANGED <<flMics, flFeeder, flRuns, flIds>>, NodeAdded(Head(flEvents))
  PROVE  FeederInv'
<1>. DEFINE e == Head(flEvents)
<1>1. /\ flEvents \in Seq(FlEvent) /\ e \in FlEvent /\ flMics \in SUBSET (Nat \ {0})
      /\ MicFollows(flEvents, flMics, flMicId, flIn)
      /\ FeederFollows(flEvents, flFeeder, flFeederId, flOut)
  BY EventIs
<1>2. /\ e.op = "add" /\ e.what = "node" /\ e.id \in Nat /\ e.role \in {"mic", "feeder"}
      /\ UNCHANGED <<flOut, flIn>> /\ TryLink(flLinks, flAlive)
      /\ e.role = "feeder" => flFeederId' = e.id /\ flMicId' = flMicId
      /\ e.role = "mic" => flMicId' = e.id /\ flFeederId' = flFeederId
  BY <1>1 DEF NodeAdded, FlEvent
<1>3. \A role, id : \A c \in Channels : ~IsPort(e, role, id, c)
  BY <1>2 DEF IsPort, Channels
<1>4. HeldLinks(flEvents, flMicId, flLinks, flAlive)
  BY DEF FeederInv
<1>5. /\ MicFollows(Tail(flEvents), flMics, flMicId', flIn)
      /\ HeldLinks(Tail(flEvents), flMicId', flLinks, flAlive)
  <2>1. CASE e.role = "mic"
    <3>1. flMicId = 0 /\ MicFollows(Tail(flEvents), flMics, e.id, flIn)
      BY <1>1, <1>2, <2>1, MicHeard DEF IsNode
    <3>. QED
      BY <1>2, <1>4, <2>1, <3>1 DEF HeldLinks
  <2>2. CASE e.role = "feeder"
    <3>1. ~IsNode(e, "mic") /\ ~IsEnd(e, flMicId)
      BY <1>2, <2>2 DEF IsNode, IsEnd
    <3>2. /\ MicFollows(Tail(flEvents), flMics, flMicId, flIn)
          /\ Gone(flEvents, flMicId, 0) => Gone(Tail(flEvents), flMicId, 0)
      BY <1>1, <1>3, <3>1, OtherHeard
    <3>. QED
      BY <1>2, <1>4, <2>2, <3>2 DEF HeldLinks
  <2>. QED
    BY <1>2, <2>1, <2>2
<1>6. FeederFollows(Tail(flEvents), flFeeder, flFeederId', flOut)
  <2>1. flFeederId' = IF IsNode(e, "feeder") THEN e.id ELSE flFeederId
    BY <1>2 DEF IsNode
  <2>. QED
    BY <1>1, <1>3, <2>1, FeederHeard
<1>7. /\ MicFollows(flEvents', flMics', flMicId', flIn')
      /\ FeederFollows(flEvents', flFeeder', flFeederId', flOut')
      /\ HeldLinks(flEvents', flMicId', flLinks, flAlive)
  BY <1>2, <1>5, <1>6
<1>8. /\ Tried(Linkable', flLinks', flRefused')
      /\ HeldLinks(flEvents', flMicId', flLinks', flAlive')
      /\ flLinks' \subseteq flLinks \cup flOut'
  BY <1>2, <1>7, TryLinkKeeps
<1>9. FeederTyped'
  BY <1>2, <1>8, EventTypes DEF FeederInv, FeederTyped
<1>. QED
  BY <1>7, <1>8, <1>9, FedTogether DEF FeederInv, OneVirtualMic

LEMMA PortAddedFeeds ==
  ASSUME FeederInv, flRuns, flEvents # <<>>, flEvents' = Tail(flEvents),
         UNCHANGED <<flMics, flFeeder, flRuns, flIds>>, PortAdded(Head(flEvents))
  PROVE  FeederInv'
<1>. DEFINE e == Head(flEvents)
<1>1. /\ flEvents \in Seq(FlEvent) /\ e \in FlEvent /\ flMics \in SUBSET (Nat \ {0})
      /\ MicFollows(flEvents, flMics, flMicId, flIn)
      /\ FeederFollows(flEvents, flFeeder, flFeederId, flOut)
  BY EventIs
<1>2. /\ e.op = "add" /\ e.what \in Channels
      /\ flOut' = IF e.role = "feeder" /\ e.id = flFeederId THEN flOut \cup {e.what} ELSE flOut
      /\ flIn' = IF e.role = "mic" /\ e.id = flMicId THEN flIn \cup {e.what} ELSE flIn
      /\ flFeederId' = flFeederId /\ flMicId' = flMicId
      /\ \/ TryLink(flLinks, flAlive)
         \/ flOut' = flOut /\ flIn' = flIn /\ LinksKept
  BY DEF PortAdded
<1>3. ~IsNode(e, "mic") /\ ~IsNode(e, "feeder") /\ ~IsEnd(e, flMicId)
  BY <1>2 DEF IsNode, IsEnd, Channels
<1>4. HeldLinks(flEvents, flMicId, flLinks, flAlive) /\ Tried(Linkable, flLinks, flRefused)
  BY DEF FeederInv
<1>5. /\ MicFollows(Tail(flEvents), flMics, flMicId, flIn')
      /\ Gone(flEvents, flMicId, 0) => Gone(Tail(flEvents), flMicId, 0)
  <2>1. flIn \subseteq flIn' /\ \A c \in Channels : IsPort(e, "mic", flMicId, c) => c \in flIn'
    BY <1>2 DEF IsPort
  <2>. QED
    BY <1>1, <1>3, <2>1, OtherHeard
<1>6. FeederFollows(Tail(flEvents), flFeeder, flFeederId, flOut')
  <2>1. flOut \subseteq flOut' /\ \A c \in Channels : IsPort(e, "feeder", flFeederId, c) => c \in flOut'
    BY <1>2 DEF IsPort
  <2>. QED
    BY <1>1, <1>3, <2>1, FeederHeard
<1>7. /\ MicFollows(flEvents', flMics', flMicId', flIn')
      /\ FeederFollows(flEvents', flFeeder', flFeederId', flOut')
      /\ HeldLinks(flEvents', flMicId', flLinks, flAlive)
  BY <1>2, <1>4, <1>5, <1>6 DEF HeldLinks
<1>8. /\ Tried(Linkable', flLinks', flRefused')
      /\ HeldLinks(flEvents', flMicId', flLinks', flAlive')
      /\ flLinks' \subseteq flLinks \cup flOut'
  <2>1. CASE TryLink(flLinks, flAlive)
    BY <1>7, <2>1, TryLinkKeeps
  <2>2. CASE flOut' = flOut /\ flIn' = flIn /\ LinksKept
    <3>1. Linkable' = Linkable
      BY <1>2, <2>2 DEF Linkable
    <3>. QED
      BY <1>4, <1>7, <2>2, <3>1 DEF LinksKept, flMade
  <2>. QED
    BY <1>2, <2>1, <2>2
<1>9. FeederTyped'
  BY <1>2, <1>8, EventTypes DEF FeederInv, FeederTyped
<1>. QED
  BY <1>7, <1>8, <1>9, FedTogether DEF FeederInv, OneVirtualMic

\* What is taken off is no microphone that is there.
LEMMA RemovedFeeds ==
  ASSUME FeederInv, flRuns, flEvents # <<>>, flEvents' = Tail(flEvents),
         UNCHANGED <<flMics, flFeeder, flRuns, flIds>>,
         NodeRemoved(Head(flEvents)) \/ PortRemoved(Head(flEvents))
  PROVE  FeederInv'
<1>. DEFINE e == Head(flEvents)
<1>1. /\ flEvents \in Seq(FlEvent) /\ e \in FlEvent /\ flMics \in SUBSET (Nat \ {0})
      /\ MicFollows(flEvents, flMics, flMicId, flIn)
      /\ FeederFollows(flEvents, flFeeder, flFeederId, flOut)
      /\ e.op = "remove" => e.role = "mic" /\ e.id \notin flMics
      /\ e.id # 0
  BY EventIs
<1>2. /\ e.op = "remove" /\ flFeederId' = flFeederId /\ flOut' = flOut
      /\ flMicId' = IF IsEnd(e, flMicId) THEN 0 ELSE flMicId
      /\ flMicId # e.id => flIn' = flIn
      /\ flIn' \subseteq flIn
  BY <1>1 DEF NodeRemoved, PortRemoved, IsEnd, Channels
<1>3. ~IsNode(e, "mic") /\ ~IsNode(e, "feeder") /\ \A role, id, c : ~IsPort(e, role, id, c)
  BY <1>2 DEF IsNode, IsPort
<1>4. HeldLinks(flEvents, flMicId, flLinks, flAlive) /\ Tried(Linkable, flLinks, flRefused)
  BY DEF FeederInv
<1>5. /\ MicFollows(Tail(flEvents), flMics, flMicId', flIn')
      /\ ~IsEnd(e, flMicId) /\ Gone(flEvents, flMicId, 0) => Gone(Tail(flEvents), flMicId, 0)
  <2>1. flMicId \in flMics => flIn \subseteq flIn'
    BY <1>1, <1>2
  <2>. QED
    BY <1>1, <1>2, <1>3, <2>1, OtherHeard
<1>6. FeederFollows(Tail(flEvents), flFeeder, flFeederId, flOut)
  BY <1>1, <1>3, FeederHeard
<1>7. /\ MicFollows(flEvents', flMics', flMicId', flIn')
      /\ FeederFollows(flEvents', flFeeder', flFeederId', flOut')
  BY <1>2, <1>5, <1>6
<1>8. /\ Tried(Linkable', flLinks', flRefused')
      /\ HeldLinks(flEvents', flMicId', flLinks', flAlive')
  <2>1. CASE IsEnd(e, flMicId)
    <3>1. flMicId' = 0 /\ flLinks' = {}
      BY <1>2, <2>1 DEF NodeRemoved, PortRemoved, IsEnd, Unlinked, Channels, FeederInv, FeederTyped
    <3>. QED
      BY <3>1 DEF Tried, HeldLinks, Linkable
  <2>2. CASE ~IsEnd(e, flMicId) /\ UNCHANGED flIn /\ LinksKept
    <3>1. Linkable' = Linkable
      BY <1>2, <2>2 DEF Linkable
    <3>. QED
      BY <1>2, <1>4, <1>5, <2>2, <3>1 DEF LinksKept, flMade, HeldLinks
  <2>3. CASE ~IsEnd(e, flMicId) /\ flIn' = flIn \ {e.what} /\ Unlinked({e.what})
    <3>1. Linkable' = Linkable \ {e.what}
      BY <1>2, <2>3 DEF Linkable
    <3>2. Tried(Linkable', flLinks', flRefused')
      BY <1>4, <2>3, <3>1 DEF Unlinked, Tried
    <3>. QED
      BY <1>2, <1>4, <1>5, <2>3, <3>2 DEF Unlinked, HeldLinks
  <2>. QED
    BY <1>1, <1>2, <2>1, <2>2, <2>3 DEF NodeRemoved, PortRemoved, IsEnd
<1>9. flLinks' \subseteq flLinks
  BY <1>2 DEF NodeRemoved, PortRemoved, Unlinked, LinksKept, flMade
<1>10. FeederTyped'
  BY <1>2, <1>9, EventTypes DEF FeederInv, FeederTyped
<1>. QED
  BY <1>7, <1>8, <1>10, FedTogether DEF FeederInv, OneVirtualMic

\* The sink is withdrawn, if there is one.
LEMMA SinkWithdrawn ==
  ASSUME FeederInv, NEW queue \in Seq(FlEvent), NEW nodeFirst \in BOOLEAN, NEW micId, NEW ports,
         NEW feeder, NEW feederId, NEW out,
         MicFollows(queue, flMics, micId, ports), FeederFollows(queue, feeder, feederId, out),
         \A i \in 1..Len(queue) : queue[i].id \in 1..flIds
  PROVE  LET new == queue \o WithdrawnMics(nodeFirst) IN
         /\ new \in Seq(FlEvent) /\ \A i \in 1..Len(new) : new[i].id \in 1..flIds
         /\ MicFollows(new, {}, micId, ports) /\ FeederFollows(new, feeder, feederId, out)
<1>1. CASE flMics = {}
  <2>1. queue \o WithdrawnMics(nodeFirst) = queue
    BY <1>1 DEF WithdrawnMics
  <2>. QED
    BY <1>1, <2>1
<1>2. CASE flMics # {}
  <2>1. PICK m \in flMics : flMics = {m}
    BY <1>2 DEF FeederInv, OneVirtualMic
  <2>2. m \in 1..flIds /\ m \in Nat
    BY DEF FeederInv, FeederTyped
  <2>3. WithdrawnMics(nodeFirst) = Withdrawn("mic", m, nodeFirst)
    BY <2>1 DEF WithdrawnMics
  <2>. DEFINE block == Withdrawn("mic", m, nodeFirst)
              new == queue \o block
  <2>4. /\ block \in Seq(FlEvent) /\ Len(block) = 3
        /\ \A k \in 1..Len(block) : TakesOff(block[k], m)
        /\ \E k \in 1..Len(block) : block[k].what = "node"
    BY <2>2, WithdrawnBlock
  <2>. HIDE DEF block
  <2>5. /\ new \in Seq(FlEvent)
        /\ \A i \in 1..Len(queue) : new[i] = queue[i]
        /\ \A i \in 1..Len(new) : i \in 1..Len(queue) \/ (i - Len(queue) \in 1..Len(block) /\ new[i] = block[i - Len(queue)])
    BY <2>4, BlockAdded
  <2>6. MicFollows(new, {}, micId, ports)
    BY <2>1, <2>4, MicWithdrawn
  <2>7. FeederFollows(new, feeder, feederId, out)
    BY <2>4, FeederUntouched DEF TakesOff
  <2>. HIDE DEF new
  <2>8. \A i \in 1..Len(new) : new[i].id \in 1..flIds
    BY <2>2, <2>4, <2>5 DEF TakesOff
  <2>. QED
    BY <2>3, <2>5, <2>6, <2>7, <2>8 DEF new, block
<1>. QED
  BY <1>1, <1>2

\* A sink is loaded where there is none, or loading fails.
LEMMA SinkLoaded ==
  ASSUME FeederInv, NEW queue \in Seq(FlEvent), LoadOrAttach(queue),
         NEW micId, NEW ports, NEW ports2, NEW feeder, NEW feederId, NEW out,
         MicFollows(queue, {}, micId, ports), FeederFollows(queue, feeder, feederId, out),
         \A i \in 1..Len(queue) : queue[i].id \in 1..flIds
  PROVE  /\ flIds' \in Nat /\ flIds' >= flIds /\ flMics' \subseteq 1..flIds' /\ OneVirtualMic'
         /\ flEvents' \in Seq(FlEvent) /\ \A i \in 1..Len(flEvents') : flEvents'[i].id \in 1..flIds'
         /\ MicFollows(flEvents', flMics', micId, ports2)
         /\ FeederFollows(flEvents', feeder, feederId, out)
<1>0. flIds \in Nat
  BY DEF FeederInv, FeederTyped
<1>1. CASE flIds' = flIds /\ flMics' = {} /\ flEvents' = queue
  <2>1. MicFollows(queue, {}, micId, ports2)
    BY DEF MicFollows
  <2>. QED
    BY <1>0, <1>1, <2>1 DEF OneVirtualMic
<1>2. CASE flIds' = flIds + 1 /\ flMics' = {} \cup {flIds'} /\ flEvents' = queue \o Announced("mic", flIds')
  <2>. DEFINE m == flIds + 1
              block == Announced("mic", m)
              new == queue \o block
  <2>1. m \in Nat /\ m \in 1..m /\ \A i \in 1..Len(queue) : queue[i].id # m /\ queue[i].id \in 1..m
    BY <1>0
  <2>2. /\ block \in Seq(FlEvent) /\ Len(block) = 3
        /\ \A k \in 1..3 : block[k].role = "mic" /\ block[k].id = m
    BY <2>1, AnnouncedBlock
  <2>3. MicFollows(new, {m}, micId, ports2)
    BY <2>1, MicAnnounced
  <2>. HIDE DEF block, m
  <2>4. FeederFollows(new, feeder, feederId, out)
    BY <2>2, FeederUntouched
  <2>5. /\ new \in Seq(FlEvent)
        /\ \A i \in 1..Len(queue) : new[i] = queue[i]
        /\ \A i \in 1..Len(new) : i \in 1..Len(queue) \/ (i - Len(queue) \in 1..Len(block) /\ new[i] = block[i - Len(queue)])
    BY <2>2, BlockAdded
  <2>6. \A i \in 1..Len(new) : new[i].id \in 1..m
    BY <2>1, <2>2, <2>5
  <2>7. flIds' = m /\ flMics' = {m} /\ flEvents' = new
    BY <1>2 DEF m, block
  <2>8. m >= flIds
    BY <1>0 DEF m
  <2>. HIDE DEF new
  <2>. QED
    BY <2>1, <2>3, <2>4, <2>5, <2>6, <2>7, <2>8 DEF OneVirtualMic
<1>. QED
  BY <1>1, <1>2 DEF LoadOrAttach, LoadSink

LEMMA ReceiveFeeds == ASSUME FeederInv, FlReceive PROVE FeederInv'
<1>1. /\ flEvents # <<>> /\ flEvents' = Tail(flEvents)
      /\ UNCHANGED <<flMics, flFeeder, flRuns, flIds>>
      /\ \/ NodeAdded(Head(flEvents)) \/ PortAdded(Head(flEvents))
         \/ NodeRemoved(Head(flEvents)) \/ PortRemoved(Head(flEvents))
  BY DEF FlReceive
<1>2. flRuns
  BY <1>1 DEF FeederInv, FeederTyped
<1>. QED
  BY <1>1, <1>2, NodeAddedFeeds, PortAddedFeeds, RemovedFeeds

\* No engine has run: the sink that one left is seen, or not, and withdrawn.
LEMMA StartFeeds == ASSUME FeederInv, StartEngine PROVE FeederInv'
<1>1. PICK seen \in BOOLEAN, nodeFirst \in BOOLEAN :
        LoadOrAttach(IF seen /\ flMics # {}
                     THEN Announced("mic", CHOOSE m \in flMics : TRUE) \o WithdrawnMics(nodeFirst)
                     ELSE <<>>)
  BY DEF StartEngine
<1>. DEFINE queue == IF seen /\ flMics # {}
                     THEN Announced("mic", CHOOSE m \in flMics : TRUE) \o WithdrawnMics(nodeFirst)
                     ELSE <<>>
<1>2. /\ ~flRuns /\ flRuns' /\ flFeeder' = 0 /\ flFeederId' = 0 /\ flMicId' = 0 /\ flLinks = {}
      /\ flEvents = <<>> /\ UNCHANGED <<flOut, flIn, flLinks, flAlive, flRefused>>
  BY DEF StartEngine, FeederInv, flEnds, flMade
<1>3. MicFollows(<<>>, {}, 0, flIn) /\ FeederFollows(<<>>, 0, 0, flOut)
  BY DEF MicFollows, OnlyTheOldGo, NewestIsThere, OldOnesGo, FeederFollows
<1>4. /\ queue \in Seq(FlEvent) /\ \A i \in 1..Len(queue) : queue[i].id \in 1..flIds
      /\ MicFollows(queue, {}, 0, flIn) /\ FeederFollows(queue, 0, 0, flOut)
  <2>1. CASE ~(seen /\ flMics # {})
    BY <1>3, <2>1
  <2>2. CASE seen /\ flMics # {}
    <3>1. PICK m \in flMics : flMics = {m}
      BY <2>2 DEF FeederInv, OneVirtualMic
    <3>2. m \in 1..flIds /\ m \in Nat
      BY DEF FeederInv, FeederTyped
    <3>. DEFINE block == Announced("mic", m)
    <3>3. /\ block \in Seq(FlEvent) /\ Len(block) = 3
          /\ \A k \in 1..3 : block[k].role = "mic" /\ block[k].id = m
      BY <3>2, AnnouncedBlock
    <3>4. <<>> \o block = block /\ <<>> \in Seq(FlEvent) /\ \A i \in 1..Len(<<>>) : FALSE
      <4>. HIDE DEF block
      <4>. QED
        BY <3>3
    <3>5. MicFollows(<<>> \o block, {m}, 0, flIn)
      BY <1>3, <3>2, <3>4, MicAnnounced
    <3>. HIDE DEF block
    <3>6. FeederFollows(<<>> \o block, 0, 0, flOut)
      BY <1>3, <3>3, <3>4, FeederUntouched
    <3>7. queue = block \o WithdrawnMics(nodeFirst)
      BY <2>2, <3>1 DEF block
    <3>. HIDE DEF queue
    <3>8. MicFollows(block, flMics, 0, flIn) /\ FeederFollows(block, 0, 0, flOut)
      BY <3>1, <3>4, <3>5, <3>6
    <3>9. \A i \in 1..Len(block) : block[i].id \in 1..flIds
      BY <3>2, <3>3
    <3>. QED
      BY <3>3, <3>7, <3>8, <3>9, SinkWithdrawn
  <2>. QED
    BY <2>1, <2>2
<1>5. LoadOrAttach(queue)
  BY <1>1
<1>. HIDE DEF queue
<1>6. /\ flIds' \in Nat /\ flMics' \subseteq 1..flIds' /\ OneVirtualMic'
      /\ flEvents' \in Seq(FlEvent) /\ \A i \in 1..Len(flEvents') : flEvents'[i].id \in 1..flIds'
      /\ MicFollows(flEvents', flMics', 0, flIn)
      /\ FeederFollows(flEvents', 0, 0, flOut)
  BY <1>4, <1>5, SinkLoaded
<1>7. FeederTyped'
  BY <1>2, <1>6 DEF FeederInv, FeederTyped
<1>8. Tried(Linkable', flLinks', flRefused') /\ HeldLinks(flEvents', flMicId', flLinks', flAlive')
  BY <1>2 DEF Linkable, Tried, HeldLinks
<1>. QED
  BY <1>2, <1>6, <1>7, <1>8, FedTogether

LEMMA CreateFeeds == ASSUME FeederInv, CreateFeeder PROVE FeederInv'
<1>. DEFINE f == flIds + 1
            block == Announced("feeder", f)
            new == flEvents \o block
<1>1. /\ flRuns /\ flRuns' /\ flFeeder = 0 /\ flFeederId = 0
      /\ flIds' = f /\ flFeeder' = f /\ flEvents' = new
      /\ UNCHANGED <<flMics, flFeederId, flOut, flMicId, flIn, flLinks, flAlive, flRefused>>
  BY DEF CreateFeeder, FeederInv, FeederTyped, flEnds, flMade
<1>2. /\ flIds \in Nat /\ flEvents \in Seq(FlEvent) /\ flMics \subseteq 1..flIds
      /\ \A i \in 1..Len(flEvents) : flEvents[i].id \in 1..flIds
      /\ MicFollows(flEvents, flMics, flMicId, flIn)
      /\ FeederFollows(flEvents, flFeeder, flFeederId, flOut)
      /\ HeldLinks(flEvents, flMicId, flLinks, flAlive) /\ Tried(Linkable, flLinks, flRefused)
      /\ OneVirtualMic
  BY <1>1 DEF FeederInv, FeederTyped
<1>3. f \in Nat /\ f \in 1..f /\ f # 0 /\ 1..flIds \subseteq 1..f
  BY <1>2
<1>4. /\ block \in Seq(FlEvent) /\ Len(block) = 3
      /\ \A k \in 1..Len(block) : block[k].op = "add" /\ block[k].role = "feeder" /\ block[k].id = f
  BY <1>3, AnnouncedBlock
<1>5. \A i \in 1..Len(flEvents) : flEvents[i].role = "mic"
  <2>1. \A i \in 1..Len(flEvents) : flEvents[i] \in FlEvent /\ flEvents[i].role # "feeder"
    BY <1>1, <1>2 DEF FeederFollows
  <2>. QED
    BY <2>1 DEF FlEvent
<1>6. FeederFollows(new, f, 0, flOut)
  BY <1>2, <1>3, <1>5, FeederAnnounced
<1>. HIDE DEF block, f
<1>7. MicFollows(new, flMics, flMicId, flIn)
  BY <1>2, <1>4, MicUntouched
<1>8. Gone(flEvents, flMicId, 0) => Gone(new, flMicId, 0)
  BY <1>2, <1>4, GoneStays
<1>9. /\ new \in Seq(FlEvent)
      /\ \A i \in 1..Len(flEvents) : new[i] = flEvents[i]
      /\ \A i \in 1..Len(new) : i \in 1..Len(flEvents) \/ (i - Len(flEvents) \in 1..Len(block) /\ new[i] = block[i - Len(flEvents)])
  BY <1>2, <1>4, BlockAdded
<1>. HIDE DEF new
<1>10. ASSUME NEW i \in 1..Len(new) PROVE new[i].id \in 1..f
  <2>1. CASE i \in 1..Len(flEvents)
    BY <1>2, <1>3, <1>9, <2>1
  <2>2. CASE i - Len(flEvents) \in 1..Len(block) /\ new[i] = block[i - Len(flEvents)]
    BY <1>3, <1>4, <2>2
  <2>. QED
    BY <1>9, <2>1, <2>2
<1>11. FeederTyped'
  <2>1. f \in 0..f /\ flMics \subseteq 1..f
    BY <1>2, <1>3
  <2>2. flMicId \in Nat /\ flOut \subseteq Channels /\ flIn \subseteq Channels /\ flLinks \subseteq Channels
    BY DEF FeederInv, FeederTyped
  <2>. QED
    BY <1>1, <1>3, <1>9, <1>10, <2>1, <2>2 DEF FeederTyped
<1>12. /\ Tried(Linkable', flLinks', flRefused')
       /\ HeldLinks(flEvents', flMicId', flLinks', flAlive')
  <2>1. Linkable' = Linkable
    BY <1>1 DEF Linkable
  <2>. QED
    BY <1>1, <1>2, <1>8, <2>1 DEF HeldLinks
<1>. QED
  BY <1>1, <1>2, <1>6, <1>7, <1>11, <1>12, FedTogether DEF OneVirtualMic

LEMMA RepairFeeds == ASSUME FeederInv, Repair PROVE FeederInv'
<1>1. PICK nodeFirst \in BOOLEAN : LoadOrAttach(flEvents \o WithdrawnMics(nodeFirst))
  BY DEF Repair
<1>2. /\ flRuns /\ flRuns' /\ flMicId = 0 /\ flMicId' = 0 /\ flIn' = {} /\ flLinks' = {}
      /\ UNCHANGED <<flFeeder, flFeederId, flOut>>
  BY DEF Repair, Visible
<1>3. /\ flEvents \in Seq(FlEvent) /\ \A i \in 1..Len(flEvents) : flEvents[i].id \in 1..flIds
      /\ MicFollows(flEvents, flMics, 0, flIn)
      /\ FeederFollows(flEvents, flFeeder, flFeederId, flOut)
  BY <1>2 DEF FeederInv, FeederTyped
<1>. DEFINE queue == flEvents \o WithdrawnMics(nodeFirst)
<1>4. /\ queue \in Seq(FlEvent) /\ \A i \in 1..Len(queue) : queue[i].id \in 1..flIds
      /\ MicFollows(queue, {}, 0, flIn) /\ FeederFollows(queue, flFeeder, flFeederId, flOut)
  BY <1>3, SinkWithdrawn
<1>5. LoadOrAttach(queue)
  BY <1>1
<1>. HIDE DEF queue
<1>6. /\ flIds' \in Nat /\ flIds' >= flIds /\ flMics' \subseteq 1..flIds' /\ OneVirtualMic'
      /\ flEvents' \in Seq(FlEvent) /\ \A i \in 1..Len(flEvents') : flEvents'[i].id \in 1..flIds'
      /\ MicFollows(flEvents', flMics', 0, {})
      /\ FeederFollows(flEvents', flFeeder, flFeederId, flOut)
  BY <1>4, <1>5, SinkLoaded
<1>7. FeederTyped'
  BY <1>2, <1>6 DEF FeederInv, FeederTyped
<1>8. Tried(Linkable', flLinks', flRefused') /\ HeldLinks(flEvents', flMicId', flLinks', flAlive')
  BY <1>2 DEF Linkable, Tried, HeldLinks
<1>. QED
  BY <1>2, <1>6, <1>7, <1>8, FedTogether

LEMMA TickFeeds == ASSUME FeederInv, FlTick PROVE FeederInv'
<1>1. /\ flRuns /\ flRuns' /\ TryLink(flLinks, flAlive)
      /\ UNCHANGED <<flMics, flFeeder, flEvents, flFeederId, flOut, flMicId, flIn, flIds>>
  BY DEF FlTick, flEnds
<1>2. /\ MicFollows(flEvents', flMics', flMicId', flIn')
      /\ FeederFollows(flEvents', flFeeder', flFeederId', flOut')
      /\ HeldLinks(flEvents', flMicId', flLinks, flAlive)
  BY <1>1 DEF FeederInv
<1>3. /\ Tried(Linkable', flLinks', flRefused')
      /\ HeldLinks(flEvents', flMicId', flLinks', flAlive')
      /\ flLinks' \subseteq flLinks \cup flOut'
  BY <1>1, <1>2, TryLinkKeeps
<1>4. FeederTyped'
  BY <1>1, <1>3 DEF FeederInv, FeederTyped
<1>. QED
  BY <1>1, <1>2, <1>3, <1>4, FedTogether DEF FeederInv, OneVirtualMic

LEMMA GoneFeeds == ASSUME FeederInv, ShutDown \/ EngineKilled PROVE FeederInv'
<1>1. /\ ~flRuns' /\ flFeeder' = 0 /\ flEvents' = <<>> /\ flFeederId' = 0 /\ flOut' = {}
      /\ flMicId' = 0 /\ flIn' = {} /\ flLinks' = {} /\ flRuns' \in BOOLEAN
      /\ flMics' \subseteq flMics /\ flIds' = flIds
  BY DEF ShutDown, EngineKilled, EngineGone
<1>2. FeederTyped'
  BY <1>1 DEF FeederInv, FeederTyped
<1>3. OneVirtualMic'
  BY <1>1 DEF FeederInv, OneVirtualMic
<1>4. Tried(Linkable', flLinks', flRefused') /\ HeldLinks(flEvents', flMicId', flLinks', flAlive')
  BY <1>1 DEF Linkable, Tried, HeldLinks
<1>. QED
  BY <1>1, <1>2, <1>3, <1>4, FedTogether

LEMMA UnloadedFeeds == ASSUME FeederInv, SinkUnloaded PROVE FeederInv'
<1>1. /\ flMics' = {}
      /\ UNCHANGED <<flFeeder, flRuns, flFeederId, flOut, flMicId, flIn, flLinks, flRefused, flIds>>
  BY DEF SinkUnloaded, flEnds
<1>2. PICK nodeFirst \in BOOLEAN :
        flEvents' = IF flRuns THEN flEvents \o WithdrawnMics(nodeFirst) ELSE flEvents
  BY DEF SinkUnloaded
<1>3. OneVirtualMic' /\ Tried(Linkable', flLinks', flRefused')
  BY <1>1 DEF OneVirtualMic, Tried, Linkable, FeederInv
<1>4. CASE flRuns
  <2>1. /\ flEvents \in Seq(FlEvent) /\ \A i \in 1..Len(flEvents) : flEvents[i].id \in 1..flIds
        /\ MicFollows(flEvents, flMics, flMicId, flIn)
        /\ FeederFollows(flEvents, flFeeder, flFeederId, flOut)
        /\ HeldLinks(flEvents, flMicId, flLinks, flAlive)
    BY <1>4 DEF FeederInv, FeederTyped
  <2>. DEFINE queue == flEvents \o WithdrawnMics(nodeFirst)
  <2>2. /\ queue \in Seq(FlEvent) /\ \A i \in 1..Len(queue) : queue[i].id \in 1..flIds
        /\ MicFollows(queue, {}, flMicId, flIn) /\ FeederFollows(queue, flFeeder, flFeederId, flOut)
    BY <2>1, SinkWithdrawn
  <2>3. flEvents' = queue
    BY <1>2, <1>4
  <2>. HIDE DEF queue
  <2>4. HeldLinks(queue, flMicId, flLinks, flAlive')
    BY <2>1, <2>2 DEF HeldLinks, MicFollows, OldOnesGo
  <2>5. FeederTyped'
    BY <1>1, <2>2, <2>3 DEF FeederInv, FeederTyped
  <2>. QED
    BY <1>1, <1>3, <1>4, <2>2, <2>3, <2>4, <2>5, FedTogether
<1>5. CASE ~flRuns
  <2>1. FeederTyped' /\ flEvents' = flEvents
    BY <1>1, <1>2, <1>5 DEF FeederInv, FeederTyped
  <2>2. HeldLinks(flEvents', flMicId', flLinks', flAlive')
    BY <1>1, <1>5 DEF FeederInv, HeldLinks
  <2>. QED
    BY <1>1, <1>3, <1>5, <2>1, <2>2, FedTogether DEF FeederInv
<1>. QED
  BY <1>4, <1>5

LEMMA FeedingStep == FeederInv /\ [FlNext]_flVars => FeederInv'
<1>. SUFFICES ASSUME FeederInv, [FlNext]_flVars PROVE FeederInv'
  OBVIOUS
<1>1. CASE FlNext
  BY <1>1, StartFeeds, CreateFeeds, ReceiveFeeds, TickFeeds, RepairFeeds, GoneFeeds, UnloadedFeeds
     DEF FlNext
<1>2. CASE UNCHANGED flVars
  <2>1. /\ UNCHANGED <<flMics, flFeeder, flEvents, flRuns, flFeederId, flOut, flMicId, flIn, flLinks, flAlive, flRefused, flIds>>
    BY <1>2 DEF flVars, flEnds, flMade
  <2>2. FeederTyped' /\ OneVirtualMic' /\ Linkable' = Linkable
    BY <2>1 DEF FeederInv, FeederTyped, OneVirtualMic, Linkable
  <2>. QED
    BY <2>1, <2>2, FedTogether DEF FeederInv
<1>. QED
  BY <1>1, <1>2

\* With nothing under way both ends are known and tried; no link is a dead one.
LEMMA FedWhenSettled == FeederInv => SettledMicIsFed
<1>. SUFFICES ASSUME FeederInv, flRuns, flEvents = <<>>, flMics # {}, flFeeder # 0
              PROVE  Channels \ flRefused \subseteq flAlive
  BY DEF FeederInv, SettledMicIsFed
<1>1. Len(flEvents) = 0 /\ 1..Len(flEvents) = {}
  OBVIOUS
<1>2. PICK m \in flMics : m # 0
  <2>1. \A m \in flMics : m \in 1..flIds
    BY DEF FeederInv, FeederTyped
  <2>2. \A m \in 1..flIds : m # 0
    OBVIOUS
  <2>. QED
    BY <2>1, <2>2
<1>3. flMicId = m /\ Channels \subseteq flIn
  BY <1>1, <1>2 DEF FeederInv, MicFollows, NewestIsThere, PortsFollow
<1>4. flFeederId = flFeeder /\ Channels \subseteq flOut
  BY <1>1 DEF FeederInv, FeederFollows, PortsFollow
<1>5. Channels \subseteq flLinks \cup flRefused
  BY <1>2, <1>3, <1>4 DEF FeederInv, Tried, Linkable
<1>6. flLinks \subseteq flAlive
  BY <1>1 DEF FeederInv, HeldLinks, Gone
<1>. QED
  BY <1>5, <1>6

\* A microphone that is there is fed, once the engine has heard of everything.
THEOREM VirtualMicIsFed == FlSpec => []SettledMicIsFed
<1>1. FlInit => FeederInv
  BY FedStart
<1>2. FeederInv /\ [FlNext]_flVars => FeederInv'
  BY FeedingStep
<1>3. FeederInv => SettledMicIsFed
  BY FedWhenSettled
<1>. QED
  BY <1>1, <1>2, <1>3, PTL DEF FlSpec

-----------------------------------------------------------------------------
(***************************************************************************)
(* MixQueues.                                                              *)
(*                                                                         *)
(* The local output is the sound, for any capacity, any length of a sound  *)
(* and any number of commands.                                             *)
(***************************************************************************)

Sample == [id : Nat, at : Nat]

\* Of two chunks of sounds the later is of no earlier sound; and with only
\* silence between them it follows, or its sound was cut.
InOrder(heard, queue, upcoming, cut) ==
  \A i, j \in 0 .. Len(queue) + 1 :
    LET c == Chunk(heard, queue, upcoming, i)
        d == Chunk(heard, queue, upcoming, j)
    IN i < j /\ c.id # 0 /\ d.id # 0 =>
         /\ c.id <= d.id
         /\ (\A k \in i + 1 .. j - 1 : Chunk(heard, queue, upcoming, k).id = 0) => Follows(c, d) \/ c.id \in cut

\* Every chunk is of a sound up to this one.
UpTo(heard, queue, n) == heard.id <= n /\ \A i \in 1 .. Len(queue) : queue[i].id <= n

MixInv ==
  /\ mxPlay \in [id : Nat, next : 1 .. MxLength + 1, paused : BOOLEAN, finished : BOOLEAN]
  /\ mxHeard \in Sample /\ mxQueue \in Seq(Sample) /\ Len(mxQueue) <= MxCapacity /\ mxEdits \in Nat
  /\ InOrder(mxHeard, mxQueue, Upcoming, mxCut)
  /\ mxPlay.id <= mxEdits /\ UpTo(mxHeard, mxQueue, mxEdits)
  /\ mxPlay.id # 0 => UpTo(mxHeard, mxQueue, mxPlay.id)

LEMMA ChunkIs ==
  ASSUME NEW h \in Sample, NEW q \in Seq(Sample), NEW u \in Sample
  PROVE /\ Len(q) \in Nat /\ Chunk(h, q, u, 0) = h /\ Chunk(h, q, u, Len(q) + 1) = u
        /\ \A i \in 1 .. Len(q) : Chunk(h, q, u, i) = q[i]
        /\ \A i \in 0 .. Len(q) + 1 :
             Chunk(h, q, u, i) \in Sample /\ Chunk(h, q, u, i).id \in Nat /\ Chunk(h, q, u, i).at \in Nat
<1>1. Len(q) \in Nat /\ \A i \in 1 .. Len(q) : q[i] \in Sample
  BY LenProperties, ElementOfSeq
<1>2. ASSUME NEW i \in 0 .. Len(q) + 1 PROVE Chunk(h, q, u, i) \in Sample
  BY <1>1 DEF Chunk
<1>3. \A c \in Sample : c.id \in Nat /\ c.at \in Nat
  BY DEF Sample
<1> QED BY <1>1, <1>2, <1>3 DEF Chunk

\* The end of the queue: silence, or what comes next.
LEMMA SilencePushed ==
  ASSUME NEW h \in Sample, NEW q \in Seq(Sample), NEW u \in Sample, NEW cut, InOrder(h, q, u, cut)
  PROVE InOrder(h, Append(q, Silence), u, cut)
<1> DEFINE r == Append(q, Silence)
           n == Len(q)
           at(i) == Chunk(h, r, u, i)
           was(i) == Chunk(h, q, u, i)
<1>1. n \in Nat /\ r \in Seq(Sample) /\ Len(r) = n + 1 /\ r[n + 1] = Silence /\ \A i \in 1 .. n : r[i] = q[i]
  BY LenProperties, AppendProperties DEF Silence, Sample
<1>2. (\A i \in 0 .. n : at(i) = was(i)) /\ at(n + 1).id = 0 /\ at(n + 2) = u /\ was(n + 1) = u
  BY <1>1 DEF Chunk, Silence
<1> SUFFICES ASSUME NEW i \in 0 .. n + 2, NEW j \in 0 .. n + 2, i < j, at(i).id # 0, at(j).id # 0
             PROVE /\ at(i).id <= at(j).id
                   /\ (\A k \in i + 1 .. j - 1 : at(k).id = 0) => Follows(at(i), at(j)) \/ at(i).id \in cut
  BY <1>1 DEF InOrder
<1> HIDE DEF at, was
<1>3. PICK l \in 0 .. n + 1 : at(j) = was(l) /\ i < l /\ l <= j /\ i \in 0 .. n
  <2>1. i \in 0 .. n /\ (j \in 0 .. n \/ j = n + 2)
    BY <1>1, <1>2
  <2> QED BY <1>1, <1>2, <2>1
<1>4. at(i) = was(i)
  BY <1>2, <1>3
<1>5. /\ was(i).id <= was(l).id
      /\ (\A k \in i + 1 .. l - 1 : was(k).id = 0) => Follows(was(i), was(l)) \/ was(i).id \in cut
  BY <1>1, <1>3, <1>4 DEF InOrder, was
<1>6. ASSUME \A k \in i + 1 .. j - 1 : at(k).id = 0 PROVE \A k \in i + 1 .. l - 1 : was(k).id = 0
  BY <1>1, <1>2, <1>3, <1>6
<1> QED BY <1>3, <1>4, <1>5, <1>6

LEMMA SoundPushed ==
  ASSUME NEW h \in Sample, NEW q \in Seq(Sample), NEW u \in Sample, NEW cut, InOrder(h, q, u, cut),
         NEW c \in Sample, NEW v \in Sample, c.id # 0, u.id = c.id, v.id \in {0, c.id}, v.id # 0 => Follows(c, v),
         \A d \in Sample : Follows(d, u) => Follows(d, c)
  PROVE InOrder(h, Append(q, c), v, cut)
<1> DEFINE r == Append(q, c)
           n == Len(q)
           at(i) == Chunk(h, r, v, i)
           was(i) == Chunk(h, q, u, i)
<1>1. n \in Nat /\ r \in Seq(Sample) /\ Len(r) = n + 1 /\ r[n + 1] = c /\ \A i \in 1 .. n : r[i] = q[i]
  BY LenProperties, AppendProperties
<1>2. (\A i \in 0 .. n : at(i) = was(i) /\ was(i) \in Sample) /\ at(n + 1) = c /\ at(n + 2) = v /\ was(n + 1) = u
  BY <1>1, ChunkIs DEF Chunk
<1>3. c.id \in Nat /\ v.id \in Nat
  BY DEF Sample
<1>4. ASSUME NEW i \in 0 .. n + 1, NEW j \in 0 .. n + 1, i < j, was(i).id # 0, was(j).id # 0
      PROVE /\ was(i).id <= was(j).id
            /\ (\A k \in i + 1 .. j - 1 : was(k).id = 0) => Follows(was(i), was(j)) \/ was(i).id \in cut
  BY <1>4 DEF InOrder
<1> SUFFICES ASSUME NEW i \in 0 .. n + 2, NEW j \in 0 .. n + 2, i < j, at(i).id # 0, at(j).id # 0
             PROVE /\ at(i).id <= at(j).id
                   /\ (\A k \in i + 1 .. j - 1 : at(k).id = 0) => Follows(at(i), at(j)) \/ at(i).id \in cut
  BY <1>1 DEF InOrder
<1> HIDE DEF at, was
<1>5. CASE j \in 0 .. n
  <2>1. i \in 0 .. n /\ at(i) = was(i) /\ at(j) = was(j) /\ i \in 0 .. n + 1 /\ j \in 0 .. n + 1
    BY <1>1, <1>2, <1>5
  <2>2. /\ was(i).id <= was(j).id
        /\ (\A k \in i + 1 .. j - 1 : was(k).id = 0) => Follows(was(i), was(j)) \/ was(i).id \in cut
    BY <1>4, <2>1
  <2>3. \A k \in i + 1 .. j - 1 : at(k) = was(k)
    BY <1>1, <1>2, <1>5
  <2> QED BY <2>1, <2>2, <2>3
<1>6. CASE j = n + 1
  <2>1. i \in 0 .. n /\ at(i) = was(i) /\ at(i) \in Sample /\ at(j) = c /\ was(j) = u
    BY <1>1, <1>2, <1>6
  <2>2. /\ was(i).id <= was(j).id
        /\ (\A k \in i + 1 .. j - 1 : was(k).id = 0) => Follows(was(i), was(j)) \/ was(i).id \in cut
    BY <1>1, <1>4, <1>6, <2>1
  <2>3. \A k \in i + 1 .. j - 1 : at(k) = was(k)
    BY <1>1, <1>2, <1>6
  <2> QED BY <2>1, <2>2, <2>3
<1>7. CASE j = n + 2 /\ i = n + 1
  BY <1>2, <1>3, <1>7
<1>8. CASE j = n + 2 /\ i \in 0 .. n
  <2>1. at(i) = was(i) /\ at(j) = v /\ v.id = c.id
    BY <1>2, <1>8
  <2>2. was(i).id <= u.id
    BY <1>1, <1>2, <1>4, <1>8, <2>1
  <2>3. n + 1 \in i + 1 .. j - 1 /\ at(n + 1).id # 0
    BY <1>1, <1>2, <1>8
  <2> QED BY <2>1, <2>2, <2>3
<1> QED BY <1>1, <1>5, <1>6, <1>7, <1>8

\* The front of the queue: a chunk is heard, is silence, or is lost with its sound.
LEMMA HeadHeard ==
  ASSUME NEW h \in Sample, NEW q \in Seq(Sample), q # <<>>, NEW u \in Sample, NEW cut, InOrder(h, q, u, cut)
  PROVE InOrder(Head(q), Tail(q), u, cut)
<1> DEFINE n == Len(q)
           at(i) == Chunk(Head(q), Tail(q), u, i)
           was(i) == Chunk(h, q, u, i)
<1>1. n \in Nat \ {0} /\ Len(Tail(q)) = n - 1 /\ Head(q) = q[1] /\ \A i \in 1 .. n - 1 : Tail(q)[i] = q[i + 1]
  BY LenProperties, EmptySeq, HeadTailProperties
<1>2. \A i \in 0 .. n : at(i) = was(i + 1)
  BY <1>1 DEF Chunk
<1> SUFFICES ASSUME NEW i \in 0 .. n, NEW j \in 0 .. n, i < j, at(i).id # 0, at(j).id # 0
             PROVE /\ at(i).id <= at(j).id
                   /\ (\A k \in i + 1 .. j - 1 : at(k).id = 0) => Follows(at(i), at(j)) \/ at(i).id \in cut
  BY <1>1 DEF InOrder
<1>4. /\ was(i + 1).id # 0 /\ was(j + 1).id # 0 => was(i + 1).id <= was(j + 1).id
      /\ was(i + 1).id # 0 /\ was(j + 1).id # 0 /\ (\A k \in i + 2 .. j : was(k).id = 0)
           => Follows(was(i + 1), was(j + 1)) \/ was(i + 1).id \in cut
  <2>1. i + 1 \in 0 .. n + 1 /\ j + 1 \in 0 .. n + 1 /\ i + 1 < j + 1 /\ i + 1 + 1 = i + 2 /\ j + 1 - 1 = j
    BY <1>1
  <2> QED BY <2>1 DEF InOrder
<1>5. ASSUME \A k \in i + 1 .. j - 1 : at(k).id = 0, NEW k \in i + 2 .. j PROVE was(k).id = 0
  <2>1. k - 1 \in i + 1 .. j - 1 /\ k - 1 \in 0 .. n /\ k - 1 + 1 = k
    BY <1>1
  <2>2. at(k - 1) = was(k - 1 + 1) /\ at(k - 1).id = 0
    BY <1>2, <1>5, <2>1
  <2> QED BY <2>1, <2>2
<1> HIDE DEF at, was
<1> QED BY <1>2, <1>4, <1>5

LEMMA HeadLost ==
  ASSUME NEW h \in Sample, NEW q \in Seq(Sample), q # <<>>, NEW u \in Sample, NEW cut, InOrder(h, q, u, cut),
         NEW lost, cut \subseteq lost, Head(q).id = 0 \/ Head(q).id \in lost
  PROVE InOrder(h, Tail(q), u, lost)
<1> DEFINE n == Len(q)
           at(i) == Chunk(h, Tail(q), u, i)
           was(i) == Chunk(h, q, u, i)
<1>1. n \in Nat \ {0} /\ Len(Tail(q)) = n - 1 /\ Head(q) = q[1] /\ \A i \in 1 .. n - 1 : Tail(q)[i] = q[i + 1]
  BY LenProperties, EmptySeq, HeadTailProperties
<1>2. at(0) = h /\ was(0) = h /\ was(1) = Head(q) /\ \A i \in 1 .. n : at(i) = was(i + 1)
  BY <1>1 DEF Chunk
<1>3. \A i \in 0 .. n + 1 : was(i) \in Sample /\ was(i).id \in Nat
  BY ChunkIs
<1>4. ASSUME NEW i \in 0 .. n + 1, NEW j \in 0 .. n + 1, i < j, was(i).id # 0, was(j).id # 0
      PROVE /\ was(i).id <= was(j).id
            /\ (\A k \in i + 1 .. j - 1 : was(k).id = 0) => Follows(was(i), was(j)) \/ was(i).id \in cut
  BY <1>4 DEF InOrder
<1> SUFFICES ASSUME NEW i \in 0 .. n, NEW j \in 0 .. n, i < j, at(i).id # 0, at(j).id # 0
             PROVE /\ at(i).id <= at(j).id
                   /\ (\A k \in i + 1 .. j - 1 : at(k).id = 0) => Follows(at(i), at(j)) \/ at(i).id \in lost
  BY <1>1 DEF InOrder
<1> HIDE DEF at, was
<1>5. j \in 1 .. n /\ at(j) = was(j + 1) /\ j + 1 \in 0 .. n + 1
  BY <1>1, <1>2
<1>6. PICK l \in 0 .. n : at(i) = was(l) /\ l < j + 1 /\ (i = 0 => l = 0) /\ (i # 0 => l = i + 1)
  <2>1. CASE i = 0
    BY <1>1, <1>2, <1>5, <2>1
  <2>2. CASE i # 0
    <3>1. i \in 1 .. n /\ i + 1 \in 0 .. n
      BY <1>1, <2>2
    <3> QED BY <1>2, <2>2, <3>1
  <2> QED BY <2>1, <2>2
<1>7. l \in 0 .. n + 1
  BY <1>1, <1>6
<1>8. /\ was(l).id <= was(j + 1).id
      /\ (\A k \in l + 1 .. j + 1 - 1 : was(k).id = 0) => Follows(was(l), was(j + 1)) \/ was(l).id \in cut
  BY <1>4, <1>5, <1>6, <1>7
<1>9. ASSUME \A k \in i + 1 .. j - 1 : at(k).id = 0, NEW k \in 2 .. j, k \in l + 1 .. j PROVE was(k).id = 0
  <2>1. k - 1 \in 1 .. n /\ k - 1 \in i + 1 .. j - 1 /\ k - 1 + 1 = k
    BY <1>1, <1>6, <1>9
  <2>2. at(k - 1) = was(k - 1 + 1) /\ at(k - 1).id = 0
    BY <1>2, <1>9, <2>1
  <2> QED BY <2>1, <2>2
<1>10. ASSUME \A k \in i + 1 .. j - 1 : at(k).id = 0 PROVE Follows(at(i), at(j)) \/ at(i).id \in lost
  <2>1. CASE i # 0 \/ Head(q).id = 0
    <3>1. ASSUME NEW k \in l + 1 .. j + 1 - 1 PROVE was(k).id = 0
      <4>1. k = 1 \/ k \in 2 .. j
        BY <1>1, <1>6
      <4>2. k = 1 => i = 0
        BY <1>6
      <4>3. k = 1 => was(k).id = 0
        BY <1>2, <2>1, <4>2
      <4> QED BY <1>1, <1>6, <1>9, <1>10, <4>1, <4>3
    <3> QED BY <1>5, <1>6, <1>8, <3>1
  <2>2. CASE i = 0 /\ Head(q).id # 0
    <3>1. was(1).id # 0 /\ was(0).id # 0 /\ was(j + 1).id # 0 /\ l = 0
      BY <1>2, <1>5, <1>6, <2>2
    <3>2. was(0).id <= was(1).id /\ was(1).id <= was(j + 1).id
      <4>1. 0 \in 0 .. n + 1 /\ 1 \in 0 .. n + 1 /\ 0 < 1 /\ 1 < j + 1
        BY <1>1, <1>5
      <4> QED BY <1>4, <1>5, <3>1, <4>1
    <3>3. was(0).id \in Nat /\ was(1).id \in Nat /\ was(j + 1).id \in Nat
      BY <1>1, <1>3, <1>5
    <3>4. was(0).id = was(1).id \/ was(j + 1).id > was(0).id
      BY <3>2, <3>3
    <3>5. was(0).id = was(1).id => at(i).id \in lost
      BY <1>2, <1>6, <2>2, <3>1
    <3>6. was(j + 1).id > was(0).id => Follows(at(i), at(j))
      BY <1>5, <1>6, <3>1 DEF Follows
    <3> QED BY <3>4, <3>5, <3>6
  <2> QED BY <2>1, <2>2
<1> QED BY <1>5, <1>6, <1>8, <1>10

\* What comes next is changed by a command.
LEMMA NextReplaced ==
  ASSUME NEW h \in Sample, NEW q \in Seq(Sample), NEW u \in Sample, NEW cut, InOrder(h, q, u, cut),
         NEW v \in Sample, NEW lost, cut \subseteq lost,
         v.id # 0 => UpTo(h, q, v.id) /\ (v.id \in lost \/ \A i \in 0 .. Len(q) : Chunk(h, q, u, i).id # v.id)
  PROVE InOrder(h, q, v, lost)
<1> DEFINE n == Len(q)
           at(i) == Chunk(h, q, v, i)
           was(i) == Chunk(h, q, u, i)
<1>1. n \in Nat /\ at(n + 1) = v /\ at(0) = h /\ (\A i \in 1 .. n : at(i) = q[i]) /\ \A i \in 0 .. n : at(i) = was(i)
  BY LenProperties DEF Chunk
<1>2. \A i \in 0 .. n : at(i).id \in Nat
  BY <1>1, ChunkIs
<1>3. v.id \in Nat
  BY DEF Sample
<1> SUFFICES ASSUME NEW i \in 0 .. n + 1, NEW j \in 0 .. n + 1, i < j, at(i).id # 0, at(j).id # 0
             PROVE /\ at(i).id <= at(j).id
                   /\ (\A k \in i + 1 .. j - 1 : at(k).id = 0) => Follows(at(i), at(j)) \/ at(i).id \in lost
  BY DEF InOrder
<1>4. CASE j \in 0 .. n
  <2>1. i \in 0 .. n /\ \A k \in i + 1 .. j - 1 : k \in 0 .. n
    BY <1>1, <1>4
  <2>2. /\ was(i).id <= was(j).id
        /\ (\A k \in i + 1 .. j - 1 : was(k).id = 0) => Follows(was(i), was(j)) \/ was(i).id \in cut
    BY <1>1, <1>4, <2>1 DEF InOrder
  <2> HIDE DEF at, was
  <2> QED BY <1>1, <1>4, <2>1, <2>2
<1>5. CASE j = n + 1
  <2> HIDE DEF at, was
  <2>1. i \in 0 .. n /\ at(i).id \in Nat /\ at(j) = v /\ v.id # 0
    BY <1>1, <1>2, <1>5
  <2>2. at(i).id <= v.id
    <3>1. i = 0 \/ i \in 1 .. n
      BY <1>1, <2>1
    <3> QED BY <1>1, <2>1, <3>1 DEF UpTo
  <2>3. at(i).id = v.id => at(i).id \in lost
    BY <1>1, <2>1 DEF was
  <2>4. at(i).id # v.id => Follows(at(i), v)
    BY <1>3, <2>1, <2>2 DEF Follows
  <2> QED BY <2>1, <2>2, <2>3, <2>4
<1> QED BY <1>1, <1>4, <1>5

\* A fade empties the queue, but for silence.
LEMMA QueueFaded ==
  ASSUME NEW h \in Sample, NEW v \in Sample, NEW cut, v.id # 0 => h.id <= v.id /\ (h.id = v.id => v.id \in cut),
         NEW q \in {<<>>, <<Silence>>}
  PROVE InOrder(h, q, v, cut)
<1>1. Silence \in Sample /\ Silence.id = 0
  BY DEF Silence, Sample
<1>2. h.id \in Nat /\ v.id \in Nat
  BY DEF Sample
<1>3. v.id # 0 => Follows(h, v) \/ h.id \in cut
  BY <1>2 DEF Follows
<1>4. CASE q = <<>>
  <2>1. Len(q) = 0 /\ Chunk(h, q, v, 0) = h /\ Chunk(h, q, v, 1) = v
    BY <1>4 DEF Chunk
  <2>2. \A i, j \in 0 .. 1 : i < j => i = 0 /\ j = 1
    OBVIOUS
  <2> QED BY <1>2, <1>3, <2>1, <2>2 DEF InOrder
<1>5. CASE q = <<Silence>>
  <2>1. Len(q) = 1 /\ Chunk(h, q, v, 0) = h /\ Chunk(h, q, v, 1).id = 0 /\ Chunk(h, q, v, 2) = v
    BY <1>1, <1>5 DEF Chunk
  <2>2. \A i, j \in 0 .. 2 : i < j => i = 1 \/ j = 1 \/ (i = 0 /\ j = 2)
    OBVIOUS
  <2> QED BY <1>2, <1>3, <2>1, <2>2 DEF InOrder
<1> QED BY <1>4, <1>5

PlayRecs == [id : Nat, next : 1 .. MxLength + 1, paused : BOOLEAN, finished : BOOLEAN]

LEMMA UpToGrows ==
  ASSUME NEW h \in Sample, NEW q \in Seq(Sample), NEW m \in Nat, NEW n \in Nat, m <= n, UpTo(h, q, m)
  PROVE UpTo(h, q, n)
<1>1. Len(q) \in Nat /\ \A i \in 1 .. Len(q) : q[i] \in Sample
  BY LenProperties, ElementOfSeq
<1>2. \A c \in Sample : c.id \in Nat
  BY DEF Sample
<1> QED BY <1>1, <1>2 DEF UpTo

LEMMA UpToPush ==
  ASSUME NEW h \in Sample, NEW q \in Seq(Sample), NEW m \in Nat, UpTo(h, q, m), NEW c \in Sample, c.id <= m
  PROVE UpTo(h, Append(q, c), m)
<1>1. Len(q) \in Nat /\ Len(Append(q, c)) = Len(q) + 1 /\ Append(q, c)[Len(q) + 1] = c
      /\ \A i \in 1 .. Len(q) : Append(q, c)[i] = q[i]
  BY LenProperties, AppendProperties
<1>2. \A i \in 1 .. Len(q) + 1 : i \in 1 .. Len(q) \/ i = Len(q) + 1
  BY <1>1
<1> QED BY <1>1, <1>2 DEF UpTo

LEMMA UpToTail ==
  ASSUME NEW h \in Sample, NEW q \in Seq(Sample), q # <<>>, NEW m \in Nat, UpTo(h, q, m)
  PROVE UpTo(h, Tail(q), m) /\ UpTo(Head(q), Tail(q), m) /\ Head(q) \in Sample /\ Tail(q) \in Seq(Sample)
<1>1. Len(q) \in Nat \ {0} /\ Len(Tail(q)) = Len(q) - 1 /\ Head(q) = q[1]
      /\ \A i \in 1 .. Len(q) - 1 : Tail(q)[i] = q[i + 1]
  BY LenProperties, EmptySeq, HeadTailProperties
<1>2. \A i \in 1 .. Len(q) - 1 : i + 1 \in 1 .. Len(q)
  BY <1>1
<1>3. Head(q) \in Sample /\ Tail(q) \in Seq(Sample)
  BY HeadTailProperties
<1> QED BY <1>1, <1>2, <1>3 DEF UpTo

LEMMA UpcomingIs ==
  ASSUME MixInv
  PROVE /\ Upcoming \in Sample /\ Silence \in Sample /\ Silence.id = 0
        /\ mxPlay.id \in Nat /\ mxPlay.next \in Nat /\ Upcoming.id \in {0, mxPlay.id}
        /\ ~mxPlay.finished => Upcoming = [id |-> mxPlay.id, at |-> mxPlay.next]
<1>1. mxPlay.id \in Nat /\ mxPlay.next \in Nat
  BY MixAssumption DEF MixInv
<1> QED BY <1>1 DEF Upcoming, Silence, Sample

\* A step that leaves the local output and what comes next alone.
LEMMA SoundLeftAlone ==
  ASSUME MixInv, UNCHANGED <<mxHeard, mxQueue, mxCut>>, mxEdits' \in {mxEdits, mxEdits + 1},
         mxPlay' \in PlayRecs, mxPlay'.id \in {0, mxPlay.id}, Upcoming' = Upcoming
  PROVE MixInv'
<1>1. InOrder(mxHeard, mxQueue, Upcoming, mxCut)'
  BY DEF MixInv
<1>2. PICK n \in Nat : n = mxEdits' /\ mxEdits <= n
  BY DEF MixInv
<1>3. UpTo(mxHeard, mxQueue, n) /\ mxPlay.id <= n /\ mxPlay.id \in Nat
  BY <1>2, UpToGrows, UpcomingIs DEF MixInv
<1> QED BY <1>1, <1>2, <1>3 DEF MixInv, PlayRecs

LEMMA SamePlay ==
  ASSUME MixInv, UNCHANGED <<mxHeard, mxQueue, mxCut, mxPlay>>, mxEdits' \in {mxEdits, mxEdits + 1}
  PROVE MixInv'
<1>1. Upcoming' = Upcoming /\ mxPlay' \in PlayRecs
  BY DEF MixInv, PlayRecs, Upcoming
<1> QED BY <1>1, SoundLeftAlone

LEMMA PlaybackEndsIs ==
  ASSUME MixInv, PlaybackEnds, UNCHANGED <<mxHeard, mxQueue, mxCut, mxEdits>>
  PROVE MixInv'
<1>1. NoPlay \in PlayRecs /\ NoPlay.id = 0 /\ ~NoPlay.finished /\ NoPlay.next = 1
  BY MixAssumption DEF NoPlay, PlayRecs
<1>2. mxPlay' \in PlayRecs /\ mxPlay'.id \in {0, mxPlay.id}
  BY <1>1 DEF PlaybackEnds, MixInv, PlayRecs
<1>3. Upcoming' = Upcoming
  BY <1>1 DEF PlaybackEnds, Upcoming, Silence
<1> QED BY <1>2, <1>3, SoundLeftAlone

\* A playback that has given a chunk.
GivesChunk(r) ==
  /\ r.play \in PlayRecs /\ r.play.id = mxPlay.id /\ r.chunk \in Sample
  /\ \/ r.chunk = Silence /\ (r.play = mxPlay \/ r.play.finished)
     \/ /\ ~mxPlay.finished /\ ~r.play.finished /\ r.chunk.id = mxPlay.id
        /\ Follows(r.chunk, [id |-> mxPlay.id, at |-> r.play.next])
        /\ \A d \in Sample : Follows(d, [id |-> mxPlay.id, at |-> mxPlay.next]) => Follows(d, r.chunk)

LEMMA RenderedIs == ASSUME MixInv, NEW reopens \in BOOLEAN PROVE GivesChunk(Rendered(reopens))
<1>1. PICK r : r = Rendered(reopens)
  OBVIOUS
<1>2. MxLength \in Nat \ {0} /\ mxPlay \in PlayRecs /\ mxPlay.id \in Nat /\ mxPlay.next \in 1 .. MxLength + 1
  BY MixAssumption DEF MixInv, PlayRecs
<1>3. Silence \in Sample
  BY UpcomingIs
<1>4. CASE Silent
  BY <1>1, <1>2, <1>3, <1>4 DEF Rendered, GivesChunk
<1>5. CASE ~Silent /\ mxPlay.next <= MxLength
  <2>1. r = [play |-> [mxPlay EXCEPT !.next = @ + 1], chunk |-> [id |-> mxPlay.id, at |-> mxPlay.next]]
    BY <1>1, <1>5 DEF Rendered
  <2>2. r.play \in PlayRecs /\ r.play.id = mxPlay.id /\ r.play.next = mxPlay.next + 1 /\ ~r.play.finished
        /\ ~mxPlay.finished /\ r.chunk = [id |-> mxPlay.id, at |-> mxPlay.next] /\ r.chunk \in Sample
    BY <1>2, <1>5, <2>1 DEF PlayRecs, Silent, Sample
  <2> QED BY <1>1, <1>2, <2>2 DEF GivesChunk, Follows
<1>6. CASE ~Silent /\ mxPlay.next > MxLength /\ mxRuntime.looping /\ reopens
  <2>1. r = [play |-> [mxPlay EXCEPT !.next = 2], chunk |-> [id |-> mxPlay.id, at |-> 1]]
    BY <1>1, <1>2, <1>6 DEF Rendered
  <2>2. r.play \in PlayRecs /\ r.play.id = mxPlay.id /\ r.play.next = 2 /\ ~r.play.finished
        /\ ~mxPlay.finished /\ r.chunk = [id |-> mxPlay.id, at |-> 1] /\ r.chunk \in Sample
    BY <1>2, <1>6, <2>1 DEF PlayRecs, Silent, Sample
  <2>3. mxPlay.next = MxLength + 1
    BY <1>2, <1>6
  <2>4. ASSUME NEW d \in Sample, Follows(d, [id |-> mxPlay.id, at |-> mxPlay.next]) PROVE Follows(d, r.chunk)
    <3>1. d.at \in Nat
      BY DEF Sample
    <3> QED BY <1>2, <2>2, <2>3, <2>4, <3>1 DEF Follows
  <2>5. Follows(r.chunk, [id |-> mxPlay.id, at |-> r.play.next])
    BY <2>2 DEF Follows
  <2> QED BY <1>1, <2>2, <2>4, <2>5 DEF GivesChunk
<1>7. CASE ~Silent /\ mxPlay.next > MxLength /\ ~(mxRuntime.looping /\ reopens)
  <2>1. r = [play |-> [mxPlay EXCEPT !.finished = TRUE], chunk |-> Silence]
    BY <1>1, <1>2, <1>7 DEF Rendered
  <2>2. r.play \in PlayRecs /\ r.play.id = mxPlay.id /\ r.play.finished /\ r.chunk = Silence
    BY <1>2, <2>1 DEF PlayRecs
  <2> QED BY <1>1, <1>3, <2>2 DEF GivesChunk
<1> QED BY <1>2, <1>4, <1>5, <1>6, <1>7

\* What is queued of it, after the queue has room.
LEMMA ChunkQueued ==
  ASSUME MixInv, mxPlay.id # 0, NEW r, GivesChunk(r), NEW q \in Seq(Sample), Len(q) < MxCapacity, NEW cut,
         InOrder(mxHeard, q, Upcoming, cut), UpTo(mxHeard, q, mxPlay.id),
         mxPlay' = r.play, mxQueue' = Append(q, r.chunk), mxCut' = cut, UNCHANGED <<mxHeard, mxEdits>>
  PROVE MixInv'
<1>1. /\ mxHeard \in Sample /\ Upcoming \in Sample /\ Silence \in Sample /\ Silence.id = 0 /\ mxPlay.id \in Nat
      /\ mxPlay.id <= mxEdits /\ mxEdits \in Nat
  BY UpcomingIs DEF MixInv
<1>2. r.chunk \in Sample /\ r.play \in PlayRecs /\ r.play.id = mxPlay.id /\ r.chunk.id <= mxPlay.id
  BY <1>1 DEF GivesChunk
<1>3. Append(q, r.chunk) \in Seq(Sample) /\ Len(Append(q, r.chunk)) <= MxCapacity
  <2>1. Append(q, r.chunk) \in Seq(Sample) /\ Len(Append(q, r.chunk)) = Len(q) + 1
    BY <1>2, AppendProperties
  <2> QED BY <2>1, LenProperties, MixAssumption
<1>4. UpTo(mxHeard, Append(q, r.chunk), mxPlay.id)
  BY <1>1, <1>2, UpToPush
<1>5. UpTo(mxHeard, Append(q, r.chunk), mxEdits)
  BY <1>1, <1>3, <1>4, UpToGrows
<1>6. PICK v \in Sample : v = Upcoming'
  <2>1. r.play.id \in Nat /\ r.play.next \in Nat
    BY <1>1, <1>2, MixAssumption DEF PlayRecs
  <2> QED BY <1>1, <2>1 DEF Upcoming, Sample, Silence
<1>7. InOrder(mxHeard, Append(q, r.chunk), v, cut)
  <2>1. CASE r.chunk = Silence /\ (r.play = mxPlay \/ r.play.finished)
    <3>1. InOrder(mxHeard, Append(q, Silence), Upcoming, cut)
      BY <1>1, SilencePushed
    <3>2. v = Upcoming \/ v.id = 0
      BY <1>1, <1>6, <2>1 DEF Upcoming, Silence
    <3>3. CASE v.id = 0
      BY <1>1, <1>3, <2>1, <3>1, <3>3, NextReplaced
    <3> QED BY <2>1, <3>1, <3>2, <3>3
  <2>2. CASE /\ ~mxPlay.finished /\ ~r.play.finished /\ r.chunk.id = mxPlay.id
             /\ Follows(r.chunk, [id |-> mxPlay.id, at |-> r.play.next])
             /\ \A d \in Sample : Follows(d, [id |-> mxPlay.id, at |-> mxPlay.next]) => Follows(d, r.chunk)
    <3>1. Upcoming = [id |-> mxPlay.id, at |-> mxPlay.next] /\ v = [id |-> mxPlay.id, at |-> r.play.next]
      BY <1>2, <1>6, <2>2 DEF Upcoming
    <3>2. Upcoming.id = r.chunk.id /\ v.id = r.chunk.id /\ r.chunk.id # 0 /\ Follows(r.chunk, v)
          /\ \A d \in Sample : Follows(d, Upcoming) => Follows(d, r.chunk)
      BY <2>2, <3>1
    <3> QED BY <1>1, <1>2, <3>2, SoundPushed
  <2> QED BY <2>1, <2>2 DEF GivesChunk
<1>8. InOrder(mxHeard, mxQueue, Upcoming, mxCut)'
  BY <1>6, <1>7
<1> QED BY <1>1, <1>2, <1>3, <1>4, <1>5, <1>8 DEF MixInv, PlayRecs

LEMMA BatchMixed == ASSUME MixInv, MixBatch PROVE MixInv'
<1> DEFINE u == Upcoming
<1>1. UNCHANGED <<mxHeard, mxEdits>>
  BY DEF MixBatch
<1>2. ASSUME NEW reopens \in BOOLEAN, Active, Batches(reopens) PROVE MixInv'
  <2>1. PICK r : r = Rendered(reopens)
    OBVIOUS
  <2>2. GivesChunk(r)
    BY <2>1, RenderedIs
  <2>3. mxPlay' = r.play /\ mxQueue' = PushSlice(r.chunk)
        /\ mxCut' = IF Overflows THEN mxCut \cup {Head(mxQueue).id} ELSE mxCut
    BY <1>2, <2>1 DEF Batches
  <2>4. /\ mxPlay.id # 0 /\ mxPlay.id \in Nat /\ mxHeard \in Sample /\ mxQueue \in Seq(Sample) /\ Upcoming \in Sample
        /\ InOrder(mxHeard, mxQueue, Upcoming, mxCut) /\ UpTo(mxHeard, mxQueue, mxPlay.id)
    BY <1>2, UpcomingIs DEF Active, MixInv
  <2>5. CASE Len(mxQueue) < MxCapacity
    <3>1. mxQueue' = Append(mxQueue, r.chunk)
      BY <2>3, <2>5 DEF PushSlice
    <3>2. mxCut' = mxCut
      <4>1. Len(mxQueue) # MxCapacity
        BY <2>4, <2>5, LenProperties, MixAssumption
      <4> QED BY <2>3, <4>1 DEF Overflows
    <3> QED BY <1>1, <2>2, <2>3, <2>4, <2>5, <3>1, <3>2, ChunkQueued
  <2>6. CASE ~(Len(mxQueue) < MxCapacity)
    <3>1. mxQueue' = Append(Tail(mxQueue), r.chunk)
      BY <2>3, <2>6 DEF PushSlice
    <3>2. PICK cut : cut = mxCut'
      OBVIOUS
    <3>3. mxQueue # <<>>
      BY <2>6, MixAssumption
    <3>4. mxCut \subseteq cut /\ (Overflows => Head(mxQueue).id \in cut)
      BY <2>3, <3>2
    <3>5. CASE Overflows
      <4>1. InOrder(mxHeard, Tail(mxQueue), Upcoming, cut)
        BY <2>4, <3>3, <3>4, <3>5, HeadLost
      <4>2. Tail(mxQueue) \in Seq(Sample) /\ UpTo(mxHeard, Tail(mxQueue), mxPlay.id)
        BY <2>4, <3>3, UpToTail
      <4>3. Len(Tail(mxQueue)) < MxCapacity
        <5>1. Len(Tail(mxQueue)) = Len(mxQueue) - 1 /\ Len(mxQueue) \in Nat
          BY <2>4, <3>3, HeadTailProperties, LenProperties
        <5> QED BY <3>5, <5>1 DEF Overflows
      <4> QED BY <1>1, <2>2, <2>3, <2>4, <3>1, <3>2, <4>1, <4>2, <4>3, ChunkQueued
    <3>6. Overflows
      <4>1. Len(mxQueue) <= MxCapacity /\ Len(mxQueue) \in Nat /\ MxCapacity \in Nat
        BY LenProperties, MixAssumption DEF MixInv
      <4> QED BY <2>6, <4>1 DEF Overflows
    <3> QED BY <3>5, <3>6
  <2> QED BY <2>5, <2>6
<1>3. ASSUME Active, EnqueueLocked PROVE MixInv'
  <2>1. PICK r : r = Rendered(TRUE)
    OBVIOUS
  <2>2. GivesChunk(r)
    BY <2>1, RenderedIs
  <2>3. mxPlay' = r.play /\ mxCut' = mxCut \cup {mxPlay.id} /\ UNCHANGED mxQueue
    BY <1>3, <2>1 DEF EnqueueLocked
  <2>4. /\ mxPlay.id # 0 /\ mxPlay.id \in Nat /\ mxHeard \in Sample /\ mxQueue \in Seq(Sample) /\ Upcoming \in Sample
        /\ InOrder(mxHeard, mxQueue, Upcoming, mxCut) /\ UpTo(mxHeard, mxQueue, mxPlay.id)
    BY <1>3, UpcomingIs DEF Active, MixInv
  <2>5. r.play \in PlayRecs /\ r.play.id = mxPlay.id
    BY <2>2 DEF GivesChunk
  <2>6. PICK v \in Sample : v = Upcoming' /\ v.id \in {0, mxPlay.id}
    <3>1. r.play.id \in Nat /\ r.play.next \in Nat
      BY <2>4, <2>5, MixAssumption DEF PlayRecs
    <3>2. Upcoming' = IF r.play.finished THEN Silence ELSE [id |-> r.play.id, at |-> r.play.next]
      BY <2>3 DEF Upcoming
    <3>3. [id |-> r.play.id, at |-> r.play.next] \in Sample /\ [id |-> r.play.id, at |-> r.play.next].id = mxPlay.id
      BY <2>5, <3>1 DEF Sample
    <3> QED BY <3>2, <3>3, UpcomingIs
  <2>7. InOrder(mxHeard, mxQueue, v, mxCut \cup {mxPlay.id})
    BY <2>4, <2>6, NextReplaced
  <2>8. InOrder(mxHeard, mxQueue, Upcoming, mxCut)'
    BY <1>1, <2>3, <2>6, <2>7
  <2> QED BY <1>1, <2>3, <2>5, <2>8 DEF MixInv, PlayRecs
<1>4. CASE UNCHANGED <<mxPlay, mxQueue, mxCut>>
  BY <1>1, <1>4, SamePlay
<1> QED BY <1>2, <1>3, <1>4 DEF MixBatch

\* A command that goes on with another play, or in another place, and may fade.
LEMMA FadedOver ==
  ASSUME MixInv, NEW play \in PlayRecs, mxPlay' = play, NEW v \in Sample, v = Upcoming', UNCHANGED mxHeard,
         mxEdits' \in Nat, mxEdits <= mxEdits', play.id <= mxEdits', play.id # 0 => UpTo(mxHeard, mxQueue, play.id),
         NEW cut, mxCut' = cut, mxCut \subseteq cut,
         v.id # 0 => v.id \in cut \/ \A i \in 0 .. Len(mxQueue) : Chunk(mxHeard, mxQueue, Upcoming, i).id # v.id,
         \/ UNCHANGED mxQueue
         \/ mxQueue' \in {<<>>, <<Silence>>} /\ (v.id # 0 => v.id \in cut)
  PROVE MixInv'
<1>1. /\ mxHeard \in Sample /\ mxQueue \in Seq(Sample) /\ Upcoming \in Sample /\ Silence \in Sample /\ Silence.id = 0
      /\ InOrder(mxHeard, mxQueue, Upcoming, mxCut) /\ mxEdits \in Nat /\ UpTo(mxHeard, mxQueue, mxEdits)
  BY UpcomingIs DEF MixInv
<1>2. PICK n \in Nat : n = mxEdits'
  OBVIOUS
<1>3. UpTo(mxHeard, mxQueue, n)
  BY <1>1, <1>2, UpToGrows
<1>4. v.id # 0 => v.id = play.id
  BY DEF Upcoming, Silence
<1>5. CASE UNCHANGED mxQueue
  <2>1. InOrder(mxHeard, mxQueue, v, cut)
    BY <1>1, <1>4, NextReplaced
  <2>2. InOrder(mxHeard, mxQueue, Upcoming, mxCut)'
    BY <1>5, <2>1
  <2> QED BY <1>1, <1>2, <1>3, <1>5, <2>2 DEF MixInv, PlayRecs
<1>6. CASE mxQueue' \in {<<>>, <<Silence>>} /\ (v.id # 0 => v.id \in cut)
  <2>1. PICK q \in {<<>>, <<Silence>>} : q = mxQueue'
    BY <1>6
  <2>2. v.id # 0 => mxHeard.id <= v.id
    BY <1>4 DEF UpTo
  <2>3. InOrder(mxHeard, q, v, cut)
    BY <1>1, <1>6, <2>1, <2>2, QueueFaded
  <2>4. InOrder(mxHeard, mxQueue, Upcoming, mxCut)'
    BY <2>1, <2>3
  <2>5. q \in Seq(Sample) /\ Len(q) <= MxCapacity
    <3>1. <<>> \in Seq(Sample) /\ <<Silence>> \in Seq(Sample)
      BY <1>1
    <3>2. Len(q) \in {0, 1}
      BY <2>1
    <3>3. MxCapacity \in Nat \ {0}
      BY MixAssumption
    <3>4. Len(q) <= MxCapacity
      <4>1. \A l \in {0, 1} : l <= MxCapacity
        BY <3>3
      <4> QED BY <3>2, <4>1
    <3> QED BY <2>1, <3>1, <3>4
  <2>6. \A m \in Nat : UpTo(mxHeard, mxQueue, m) => UpTo(mxHeard, q, m)
    <3>1. Len(q) \in {0, 1} /\ \A i \in 1 .. Len(q) : q[i] = Silence
      BY <2>1
    <3> QED BY <1>1, <3>1 DEF UpTo
  <2>7. play.id \in Nat
    BY DEF PlayRecs
  <2> QED BY <1>1, <1>2, <1>3, <2>1, <2>4, <2>5, <2>6, <2>7 DEF MixInv, PlayRecs
<1> QED BY <1>5, <1>6

LEMMA NoPlayIs == NoPlay \in PlayRecs /\ NoPlay.id = 0 /\ ~NoPlay.finished /\ NoPlay.next = 1
BY MixAssumption DEF NoPlay, PlayRecs

LEMMA PlayMixed == ASSUME MixInv, MixPlay PROVE MixInv'
<1>1. /\ mxPlay' = [NoPlay EXCEPT !.id = mxEdits + 1] /\ mxEdits' = mxEdits + 1 /\ mxEdits \in Nat
      /\ UNCHANGED <<mxQueue, mxHeard, mxCut>>
  BY DEF MixPlay, MxEdit, MixInv
<1>2. PICK play \in PlayRecs : play = mxPlay' /\ play.id = mxEdits + 1 /\ ~play.finished /\ play.next = 1
  BY <1>1, NoPlayIs DEF PlayRecs
<1>3. PICK v \in Sample : v = Upcoming' /\ v.id = mxEdits + 1
  <2>1. Upcoming' = [id |-> mxEdits + 1, at |-> 1]
    BY <1>2 DEF Upcoming
  <2>2. mxEdits + 1 \in Nat /\ 1 \in Nat
    BY <1>1
  <2> QED BY <2>1, <2>2 DEF Sample
<1>4. mxHeard \in Sample /\ mxQueue \in Seq(Sample) /\ Upcoming \in Sample /\ UpTo(mxHeard, mxQueue, mxEdits)
  BY UpcomingIs DEF MixInv
<1>5. UpTo(mxHeard, mxQueue, mxEdits + 1)
  BY <1>1, <1>4, UpToGrows
<1>6. ASSUME NEW i \in 0 .. Len(mxQueue) PROVE Chunk(mxHeard, mxQueue, Upcoming, i).id # v.id
  <2>1. Chunk(mxHeard, mxQueue, Upcoming, i).id <= mxEdits
    <3>1. CASE i = 0
      BY <1>4, <3>1 DEF UpTo, Chunk
    <3>2. CASE i \in 1 .. Len(mxQueue)
      <4>0. Len(mxQueue) \in Nat
        BY <1>4, LenProperties
      <4>1. Chunk(mxHeard, mxQueue, Upcoming, i) = mxQueue[i]
        BY <3>2, <4>0 DEF Chunk
      <4> QED BY <1>4, <3>2, <4>1 DEF UpTo
    <3> QED BY <1>4, <3>1, <3>2, LenProperties
  <2>2. Chunk(mxHeard, mxQueue, Upcoming, i).id \in Nat
    BY <1>4, ChunkIs, LenProperties
  <2> QED BY <1>1, <1>3, <2>1, <2>2
<1>7. mxEdits' \in Nat /\ mxEdits <= mxEdits' /\ play.id <= mxEdits'
  BY <1>1, <1>2
<1>8. PICK cut : cut = mxCut' /\ mxCut \subseteq cut
  BY <1>1
<1> QED BY <1>1, <1>2, <1>3, <1>5, <1>6, <1>7, <1>8, FadedOver

LEMMA StopMixed == ASSUME MixInv, MixStop PROVE MixInv'
<1>1. /\ mxPlay' = NoPlay /\ mxEdits' = mxEdits + 1 /\ mxEdits \in Nat /\ UNCHANGED mxHeard
      /\ mxCut' = mxCut \cup {mxPlay.id} /\ (UNCHANGED mxQueue \/ mxQueue' \in {<<>>, <<Silence>>})
  BY DEF MixStop, MxEdit, MixInv, Fade, Cuts, MixEditRest
<1>2. PICK v \in Sample : v = Upcoming' /\ v.id = 0
  <2>1. Upcoming' = [id |-> 0, at |-> 1]
    BY <1>1, NoPlayIs DEF Upcoming
  <2> QED BY <2>1 DEF Sample
<1>3. PICK cut : cut = mxCut' /\ mxCut \subseteq cut
  BY <1>1
<1> QED BY <1>1, <1>2, <1>3, NoPlayIs, FadedOver

LEMMA SeekMixed == ASSUME MixInv, MixSeek PROVE MixInv'
<1>1. /\ mxEdits' = mxEdits + 1 /\ mxEdits \in Nat /\ UNCHANGED mxHeard /\ mxPlay.id # 0
      /\ mxCut' = mxCut \cup {mxPlay.id} /\ (UNCHANGED mxQueue \/ mxQueue' \in {<<>>, <<Silence>>})
      /\ mxPlay.id <= mxEdits /\ mxPlay.id \in Nat /\ UpTo(mxHeard, mxQueue, mxPlay.id)
  BY UpcomingIs DEF MixSeek, MxEdit, MixInv, Fade, Cuts, MixEditRest, Active
<1>2. PICK play \in PlayRecs : play = mxPlay' /\ play.id = mxPlay.id
  <2>1. PICK at \in 1 .. MxLength : mxPlay' \in {mxPlay, [mxPlay EXCEPT !.next = at, !.finished = FALSE]}
    BY DEF MixSeek
  <2>2. at \in 1 .. MxLength + 1
    BY MixAssumption
  <2>3. [mxPlay EXCEPT !.next = at, !.finished = FALSE] \in PlayRecs /\ mxPlay \in PlayRecs
        /\ [mxPlay EXCEPT !.next = at, !.finished = FALSE].id = mxPlay.id
    BY <2>2 DEF MixInv, PlayRecs
  <2> QED BY <2>1, <2>3
<1>3. PICK v \in Sample : v = Upcoming' /\ v.id \in {0, mxPlay.id}
  <2>1. play.id \in Nat /\ play.next \in Nat
    BY <1>1, <1>2, MixAssumption DEF PlayRecs
  <2>2. Upcoming' = IF play.finished THEN Silence ELSE [id |-> play.id, at |-> play.next]
    BY <1>2 DEF Upcoming
  <2>3. [id |-> play.id, at |-> play.next] \in Sample /\ [id |-> play.id, at |-> play.next].id = mxPlay.id
    BY <1>2, <2>1 DEF Sample
  <2> QED BY <2>2, <2>3, UpcomingIs
<1>4. PICK cut : cut = mxCut' /\ mxCut \subseteq cut /\ mxPlay.id \in cut
  BY <1>1
<1>5. mxEdits' \in Nat /\ mxEdits <= mxEdits' /\ play.id <= mxEdits'
  BY <1>1, <1>2
<1> QED BY <1>1, <1>2, <1>3, <1>4, <1>5, FadedOver

LEMMA PauseMixed == ASSUME MixInv, MixPause PROVE MixInv'
<1>1. /\ mxEdits' = mxEdits + 1 /\ UNCHANGED <<mxHeard, mxQueue, mxCut>> /\ mxPlay' = [mxPlay EXCEPT !.paused = ~@]
  BY DEF MixPause, MxEdit, MixEditRest
<1>2. mxPlay' \in PlayRecs /\ mxPlay'.id = mxPlay.id /\ mxPlay'.next = mxPlay.next /\ mxPlay'.finished = mxPlay.finished
  BY <1>1 DEF MixInv, PlayRecs
<1>3. Upcoming' = Upcoming
  BY <1>2 DEF Upcoming
<1> QED BY <1>1, <1>2, <1>3, SoundLeftAlone

LEMMA LocalHeard == ASSUME MixInv, LocalPlays PROVE MixInv'
<1>1. /\ mxQueue # <<>> /\ mxQueue' = Tail(mxQueue) /\ UNCHANGED <<mxPlay, mxCut, mxEdits>>
      /\ mxHeard' = IF Head(mxQueue) = Silence THEN mxHeard ELSE Head(mxQueue)
  BY DEF LocalPlays, RealtimeRest, mxBounds
<1>2. /\ mxHeard \in Sample /\ mxQueue \in Seq(Sample) /\ Upcoming \in Sample /\ mxEdits \in Nat /\ mxPlay.id \in Nat
      /\ InOrder(mxHeard, mxQueue, Upcoming, mxCut) /\ UpTo(mxHeard, mxQueue, mxEdits) /\ Silence.id = 0
      /\ mxPlay.id # 0 => UpTo(mxHeard, mxQueue, mxPlay.id)
  BY UpcomingIs DEF MixInv
<1>3. Upcoming' = Upcoming
  BY <1>1 DEF Upcoming
<1>4. PICK h : h = mxHeard'
  OBVIOUS
<1>5. InOrder(h, Tail(mxQueue), Upcoming, mxCut)
  <2>1. CASE Head(mxQueue) = Silence
    BY <1>1, <1>2, <1>4, <2>1, HeadLost
  <2>2. CASE Head(mxQueue) # Silence
    BY <1>1, <1>2, <1>4, <2>2, HeadHeard
  <2> QED BY <2>1, <2>2
<1>6. h \in Sample /\ Tail(mxQueue) \in Seq(Sample) /\ UpTo(h, Tail(mxQueue), mxEdits)
      /\ (mxPlay.id # 0 => UpTo(h, Tail(mxQueue), mxPlay.id))
  BY <1>1, <1>2, <1>4, UpToTail
<1>7. Len(Tail(mxQueue)) <= MxCapacity
  <2>1. Len(Tail(mxQueue)) = Len(mxQueue) - 1 /\ Len(mxQueue) \in Nat
    BY <1>1, <1>2, HeadTailProperties, LenProperties
  <2> QED BY <2>1, MixAssumption DEF MixInv
<1>8. InOrder(mxHeard, mxQueue, Upcoming, mxCut)'
  BY <1>1, <1>3, <1>4, <1>5
<1> QED BY <1>1, <1>4, <1>6, <1>7, <1>8 DEF MixInv

LEMMA MixStart == ASSUME MxInit PROVE MixInv
<1>1. mxPlay = NoPlay /\ mxQueue = <<>> /\ mxHeard = Silence /\ mxCut = {} /\ mxEdits = 0
  BY DEF MxInit
<1>2. Silence \in Sample /\ Silence.id = 0 /\ Upcoming = [id |-> 0, at |-> 1] /\ Upcoming \in Sample
  BY <1>1, NoPlayIs DEF Upcoming, Silence, Sample
<1>3. InOrder(mxHeard, mxQueue, Upcoming, mxCut)
  BY <1>1, <1>2, QueueFaded
<1>4. UpTo(mxHeard, mxQueue, mxEdits) /\ Len(mxQueue) <= MxCapacity /\ mxQueue \in Seq(Sample)
  BY <1>1, <1>2, MixAssumption DEF UpTo
<1> QED BY <1>1, <1>2, <1>3, <1>4, NoPlayIs DEF MixInv, PlayRecs

LEMMA MixGoesOn == ASSUME MixInv, [MxNext]_mxVars PROVE MixInv'
<1>1. CASE UNCHANGED mxVars
  BY <1>1, SamePlay DEF mxVars, mxBounds
<1>2. CASE TickBegins
  BY <1>2, SamePlay DEF TickBegins
<1>3. CASE TickEnds
  BY <1>3, PlaybackEndsIs DEF TickEnds
<1>4. CASE TickGivesUp
  BY <1>4, PlaybackEndsIs DEF TickGivesUp
<1>5. CASE MixLooping
  BY <1>5, SamePlay DEF MixLooping, MxEdit, MixEditRest
<1>6. CASE Recreates
  BY <1>6, SamePlay DEF Recreates, MxEdit
<1>7. CASE VirtualPlays
  BY <1>7, SamePlay DEF VirtualPlays, RealtimeRest, mxBounds
<1>8. CASE Captures
  BY <1>8, SamePlay DEF Captures, RealtimeRest, mxBounds
<1>9. CASE StreamChanges
  BY <1>9, SamePlay DEF StreamChanges, MxEdit
<1> QED
  BY <1>1, <1>2, <1>3, <1>4, <1>5, <1>6, <1>7, <1>8, <1>9, BatchMixed, PlayMixed, StopMixed, SeekMixed, PauseMixed,
     LocalHeard DEF MxNext

LEMMA InOrderIsTheSound == ASSUME MixInv PROVE LocalOutputIsTheSound
<1>1. DOMAIN Sounding = 0 .. Len(mxQueue) + 1
      /\ \A i \in 0 .. Len(mxQueue) + 1 : Sounding[i] = Chunk(mxHeard, mxQueue, Upcoming, i)
  BY DEF Sounding
<1>2. ASSUME NEW i \in 0 .. Len(mxQueue) + 1, NEW j \in 0 .. Len(mxQueue) + 1, i < j, Sounding[i].id # 0,
             Sounding[j].id # 0, \A k \in i + 1 .. j - 1 : Sounding[k].id = 0
      PROVE Follows(Sounding[i], Sounding[j]) \/ Sounding[i].id \in mxCut
  <2>1. Len(mxQueue) \in Nat
    BY LenProperties DEF MixInv
  <2>2. \A k \in i + 1 .. j - 1 : Chunk(mxHeard, mxQueue, Upcoming, k).id = 0
    BY <1>1, <1>2, <2>1
  <2> QED BY <1>1, <1>2, <2>2 DEF MixInv, InOrder
<1> QED BY <1>1, <1>2 DEF LocalOutputIsTheSound

\* However many commands, batches and callbacks there are, and however large the
\* queue: what local output plays of a sound is chunk after chunk of its file,
\* unless a stop, a seek, a lock that was not free or the capacity took one.
THEOREM LocalOutputStaysInOrder == MxSpec => []LocalOutputIsTheSound
<1>1. MixInv => LocalOutputIsTheSound
  BY InOrderIsTheSound
<1>2. MxInit => MixInv
  BY MixStart
<1>3. MixInv /\ [MxNext]_mxVars => MixInv'
  BY MixGoesOn
<1> QED BY <1>1, <1>2, <1>3, PTL DEF MxSpec

-----------------------------------------------------------------------------
(***************************************************************************)
(* Decoding.                                                               *)
(*                                                                         *)
(* Every output is the frame that the rates put there, for files of any    *)
(* number of packets, any rates and any seeks.                             *)
(***************************************************************************)

(***************************************************************************)
(* The invariant.                                                          *)
(***************************************************************************)

Greater(m, n) == IF m < n THEN n ELSE m

\* Where reading may begin, and the packets that matter from there: the one that
\* takes the delay with it, and the one at which reading ends.
DcStarts == [packet : 1..Len(dcFile.packets) + 1, cuts : BOOLEAN, drop : Nat]
CutAt(start) == FirstKind(dcFile.packets, {"sound", "reset", "fault"}, start.packet)
StopAt(start) == FirstKind(dcFile.packets, {"fault"}, start.packet)

\* The number that is given when there are no more frames.
PastTheEnd(start) == Greater(FirstFrame(start), LastFrame(start) + 1)

\* The next frame that a reader gives.
NextOf(source, start) ==
  IF source.from <= source.to THEN source.from
  ELSE Greater(FirstFrame(start), Lesser(Before(source.packet), LastFrame(start)) + 1)

\* A reader has dropped what of the delay, and given up what of the playable
\* frames, its packets so far held; it is not past the packet at which reading ends.
DcSources == [packet : 1..Len(dcFile.packets) + 1, skip : Nat, remaining : Nat, from : Nat, to : Nat]
OggFits(source, start) ==
  LET before == Before(source.packet)
  IN  /\ start.packet = 1
      /\ source.skip = Greater(0, dcFile.skip - before)
      /\ source.remaining = dcFile.granule - Greater(dcFile.skip, Lesser(before, dcFile.granule))
ContainerFits(source, start) ==
  /\ source.packet <= CutAt(start) =>
       /\ source.skip = IF start.cuts THEN dcFile.skip ELSE 0
       /\ Before(source.packet) = Before(start.packet)
  /\ source.packet > CutAt(start) => source.skip = 0
  /\ source.remaining >= Decoded - Before(source.packet)
SourceFits(source, start) ==
  /\ source \in DcSources /\ start \in DcStarts
  /\ start.packet <= source.packet /\ source.packet <= StopAt(start)
  /\ dcFile.kind = "ogg" => OggFits(source, start)
  /\ dcFile.kind = "container" => ContainerFits(source, start)
  /\ source.from <= source.to =>
       source.to = Lesser(Before(source.packet), LastFrame(start)) /\ source.from >= FirstFrame(start)

DcConvs == [current : Nat, next : Nat, frac : Nat, exhausted : BOOLEAN]
\* The outputs so far are as many steps as the converter has gone.
Begin(start) == FirstFrame(start) + start.drop
Balanced(conv, start, out) == (conv.current - Begin(start)) * To + conv.frac = out * From

PlayerFits(source, conv, phase, start, out) ==
  LET S == Begin(start)
  IN  /\ SourceFits(source, start) /\ conv \in DcConvs /\ out \in Nat
      /\ phase = "current" => out = 0 /\ NextOf(source, start) = Lesser(S, PastTheEnd(start))
      /\ phase = "next" => /\ out = 0 /\ S <= LastFrame(start) /\ conv = [NoConv EXCEPT !.current = S]
                           /\ NextOf(source, start) = S + 1
      /\ phase = "more" => /\ S <= conv.current /\ conv.current <= LastFrame(start)
                           /\ conv.next = conv.current /\ ~conv.exhausted /\ conv.frac < From
                           /\ Balanced(conv, start, out) /\ NextOf(source, start) = conv.current + 1
      /\ phase = "emit" => /\ S <= conv.current /\ conv.current <= LastFrame(start)
                           /\ conv.next = Lesser(conv.current + 1, LastFrame(start))
                           /\ (conv.exhausted <=> conv.current = LastFrame(start)) /\ conv.frac < To
                           /\ Balanced(conv, start, out)
                           /\ NextOf(source, start) = Lesser(conv.current + 2, PastTheEnd(start))
      /\ phase = "done" => out = ((LastFrame(start) - FirstFrame(start) + 1 - start.drop) * To + From - 1) \div From

\* A seek drops frames one by one; it has kept what was played.
Drops(source, phase, drop, start, out) ==
  phase = "drop" =>
    /\ drop \in Nat \ {0} /\ drop <= start.drop /\ out = 0
    /\ NextOf(source, start) = Lesser(Begin(start) - drop, PastTheEnd(start))
Keeps(kept) ==
  kept # <<>> =>
    kept[3] \in {"emit", "done"} /\ PlayerFits(kept[1], kept[2], kept[3], kept[4], kept[5])

DcPhases == {"drop", "current", "next", "more", "emit", "done", "refused"}
DecodeInv ==
  /\ dcFile \in Files /\ dcRate \in DcRates /\ dcPhase \in DcPhases
  /\ dcPhase # "refused" =>
       /\ Scannable(dcFile) /\ Keeps(dcKept)
       /\ Drops(dcSource, dcPhase, dcDrop, dcStart, dcOut)
       /\ PlayerFits(dcSource, dcConv, dcPhase, dcStart, dcOut)

(***************************************************************************)
(* Files.                                                                  *)
(***************************************************************************)

\* What is used of a file: where its packets end, and what its packets are.
FileNumbers ==
  /\ Len(dcFile.packets) \in Nat /\ DOMAIN dcFile.packets = 1..Len(dcFile.packets)
  /\ Before(1) = 0 /\ Decoded = Before(Len(dcFile.packets) + 1)
  /\ \A i \in 1..Len(dcFile.packets) + 1 : Before(i) \in Nat /\ Before(i) <= Decoded
  /\ \A i, j \in 1..Len(dcFile.packets) + 1 : i <= j => Before(i) <= Before(j)
  /\ \A i \in 1..Len(dcFile.packets) :
       /\ dcFile.packets[i].end = Before(i + 1)
       /\ dcFile.packets[i].kind \in PacketKinds
       /\ dcFile.packets[i].kind # "sound" => Before(i + 1) = Before(i)
       /\ dcFile.kind = "ogg" => dcFile.packets[i].kind # "reset"
  /\ Decoded \in Nat /\ DcPackets * DcFrames \in Nat /\ Decoded <= DcPackets * DcFrames
  /\ dcFile.skip \in Nat /\ dcFile.granule \in Nat /\ dcFile.kind \in {"ogg", "container"}

\* What a file is gives its numbers.
LEMMA FileIs == ASSUME dcFile \in Files PROVE FileNumbers
<1>1. DcPackets \in Nat /\ DcFrames \in Nat /\ DcPackets * DcFrames \in Nat
  BY DecodingAssumption
<1> DEFINE bound == DcPackets * DcFrames
           list == dcFile.packets
<1>2. /\ list \in PacketLists /\ dcFile.kind \in {"ogg", "container"}
      /\ dcFile.skip \in 0..DcFrames /\ dcFile.granule \in 0..bound
      /\ dcFile.kind = "ogg" => list \in OggLists
  <2> DEFINE oggs == [kind : {"ogg"}, packets : OggLists, skip : 0..DcFrames, granule : 0..bound, ended : BOOLEAN]
             containers == [kind : {"container"}, packets : PacketLists, skip : 0..DcFrames, granule : {0}, ended : {TRUE}]
  <2>1. dcFile \in oggs \/ dcFile \in containers
    BY DEF Files
  <2>2. 0 \in 0..bound /\ OggLists \subseteq PacketLists
    BY <1>1 DEF OggLists
  <2> HIDE DEF bound
  <2>3. CASE dcFile \in oggs
    BY <2>2, <2>3
  <2>4. CASE dcFile \in containers
    BY <2>2, <2>4
  <2> QED BY <2>1, <2>3, <2>4
<1>3. PICK n \in 0..DcPackets : list \in [1..n -> Packets]
  BY <1>2 DEF PacketLists
<1>4. Len(list) = n /\ DOMAIN list = 1..n /\ n \in Nat
  <2>1. list \in Seq(Packets)
    BY <1>1, <1>3, SeqDef
  <2>2. DOMAIN list = 1..n
    BY <1>3
  <2>3. n \in Nat
    BY <1>1
  <2> QED BY <2>1, <2>2, <2>3, LenProperties
<1>5. \A i \in 1..n : list[i].end \in 0..bound /\ list[i].kind \in PacketKinds
  BY <1>3 DEF Packets
<1>6. /\ \A i \in 1..n : list[i].kind # "sound" => list[i].end = BeforeOf(list, i)
      /\ \A i, j \in 1..n : i < j => list[i].end <= list[j].end
      /\ dcFile.kind = "ogg" => \A i \in 1..n : list[i].kind # "reset"
  <2>1. /\ \A i \in 1..n : list[i].kind # "sound" => list[i].end = BeforeOf(list, i)
        /\ \A i, j \in 1..n : i < j => list[i].end <= list[j].end
    BY <1>2, <1>4 DEF PacketLists
  <2>2. dcFile.kind = "ogg" => \A i \in 1..n : list[i].kind # "reset"
    BY <1>2, <1>4 DEF OggLists
  <2> QED BY <2>1, <2>2
<1>7. \A i : Before(i) = IF i = 1 THEN 0 ELSE list[i - 1].end
  BY DEF Before, BeforeOf
<1> HIDE DEF bound
<1>8. Before(1) = 0 /\ Decoded = Before(n + 1)
  BY <1>4, <1>7 DEF Decoded
<1>9. \A i \in 1..n : list[i].end = Before(i + 1)
  <2> SUFFICES ASSUME NEW i \in 1..n PROVE list[i].end = Before(i + 1)
    OBVIOUS
  <2>1. i + 1 # 1 /\ (i + 1) - 1 = i
    BY <1>4
  <2> QED BY <1>7, <2>1
<1>10. \A i \in 1..n + 1 : Before(i) \in 0..bound
  <2> SUFFICES ASSUME NEW i \in 1..n + 1 PROVE Before(i) \in 0..bound
    OBVIOUS
  <2>1. CASE i = 1
    BY <1>1, <1>7, <2>1 DEF bound
  <2>2. CASE i # 1
    <3>1. i - 1 \in 1..n
      BY <1>4, <2>2
    <3> QED BY <1>5, <1>7, <2>2, <3>1
  <2> QED BY <2>1, <2>2
<1>11. bound \in Nat /\ \A i \in 1..n + 1 : Before(i) \in Nat
  BY <1>1, <1>10 DEF bound
<1>12. \A i, j \in 1..n + 1 : i <= j => Before(i) <= Before(j)
  <2> SUFFICES ASSUME NEW i \in 1..n + 1, NEW j \in 1..n + 1, i <= j PROVE Before(i) <= Before(j)
    OBVIOUS
  <2>1. Before(j) \in Nat /\ Before(i) \in Nat
    BY <1>11
  <2>2. CASE i = 1
    BY <1>8, <2>1, <2>2
  <2>3. CASE i = j
    BY <2>1, <2>3
  <2>4. CASE i # 1 /\ i # j
    <3>1. i - 1 \in 1..n /\ j - 1 \in 1..n /\ i - 1 < j - 1 /\ j # 1
      BY <1>4, <2>4
    <3>2. list[i - 1].end <= list[j - 1].end
      BY <1>6, <3>1
    <3> QED BY <1>7, <2>4, <3>1, <3>2
  <2> QED BY <2>2, <2>3, <2>4
<1>13. \A i \in 1..n + 1 : Before(i) <= Decoded
  <2>1. n + 1 \in 1..n + 1 /\ \A i \in 1..n + 1 : i <= n + 1
    BY <1>4
  <2> QED BY <1>8, <1>12, <2>1
<1>14. \A i \in 1..n : list[i].kind # "sound" => Before(i + 1) = Before(i)
  BY <1>6, <1>9 DEF Before
<1>15. Before(n + 1) \in 0..bound
  BY <1>4, <1>10
<1>16. Decoded \in Nat /\ Decoded <= bound
  BY <1>8, <1>11, <1>15
<1>17. dcFile.skip \in Nat /\ dcFile.granule \in Nat
  BY <1>1, <1>2, <1>11
<1> QED BY <1>2, <1>4, <1>5, <1>6, <1>8, <1>9, <1>11, <1>12, <1>13, <1>14, <1>16, <1>17 DEF FileNumbers, bound

\* Of some numbers one is the smallest.
LEMMA SmallestIs ==
  ASSUME NEW T, T \subseteq Nat, T # {}
  PROVE  \E m \in T : \A k \in T : ~(k < m)
<1> DEFINE Below == {ss \in Nat \X Nat : ss[1] < ss[2]}
<1>1. IsWellFoundedOn(Below, Nat)
  BY NatLessThanWellFounded DEF OpToRel
<1>2. \A a, b \in Nat : a < b => <<a, b>> \in Below
  OBVIOUS
<1> HIDE DEF Below
<1>3. \E m \in T : \A k \in T : ~(<<k, m>> \in Below)
  BY <1>1, WFMin, Zenon
<1> QED BY <1>2, <1>3

\* There is a first packet of some kinds, or none is of them.
LEMMA FirstKindIs ==
  ASSUME NEW list, NEW n \in Nat, Len(list) = n, DOMAIN list = 1..n, NEW kinds, NEW i \in 1..n + 1
  PROVE  /\ FirstKind(list, kinds, i) \in i..n + 1
         /\ FirstKind(list, kinds, i) <= n => list[FirstKind(list, kinds, i)].kind \in kinds
         /\ \A k \in i..n : k < FirstKind(list, kinds, i) => list[k].kind \notin kinds
<1> DEFINE candidates == {j \in i..n + 1 : j <= n => list[j].kind \in kinds}
<1>1. candidates \subseteq Nat /\ candidates # {}
  <2>1. n + 1 \in candidates
    OBVIOUS
  <2>2. i..n + 1 \subseteq Nat
    OBVIOUS
  <2>3. candidates \subseteq i..n + 1
    OBVIOUS
  <2> HIDE DEF candidates
  <2> QED BY <2>1, <2>2, <2>3
<1> HIDE DEF candidates
<1>2. PICK m \in candidates : \A k \in candidates : ~(k < m)
  BY <1>1, SmallestIs
<1> USE DEF candidates
<1>3. m \in i..n + 1 /\ (m \in DOMAIN list => list[m].kind \in kinds)
  BY <1>2
<1>4. \A k \in i..m - 1 : list[k].kind \notin kinds
  <2> SUFFICES ASSUME NEW k \in i..m - 1, list[k].kind \in kinds PROVE FALSE
    OBVIOUS
  <2>1. k \in i..n + 1 /\ k < m
    BY <1>3
  <2> QED BY <1>2, <2>1
<1> DEFINE found == FirstKind(list, kinds, i)
<1>5. /\ found \in i..Len(list) + 1
      /\ found \in DOMAIN list => list[found].kind \in kinds
      /\ \A k \in i..found - 1 : list[k].kind \notin kinds
  BY <1>3, <1>4 DEF FirstKind
<1> HIDE DEF found
<1>6. /\ found \in i..n + 1 /\ (found <= n => list[found].kind \in kinds)
      /\ \A k \in i..n : k < found => list[k].kind \notin kinds
  BY <1>5
<1> QED BY <1>6 DEF found

\* Where reading begins tells which frames are heard.
StartNumbers(start) ==
  /\ start.packet \in 1..Len(dcFile.packets) + 1 /\ start.cuts \in BOOLEAN /\ start.drop \in Nat
  /\ CutAt(start) \in start.packet..Len(dcFile.packets) + 1
  /\ CutAt(start) <= Len(dcFile.packets) => dcFile.packets[CutAt(start)].kind \in {"sound", "reset", "fault"}
  /\ \A k \in start.packet..Len(dcFile.packets) :
       k < CutAt(start) => dcFile.packets[k].kind \notin {"sound", "reset", "fault"}
  /\ StopAt(start) \in start.packet..Len(dcFile.packets) + 1
  /\ StopAt(start) <= Len(dcFile.packets) => dcFile.packets[StopAt(start)].kind = "fault"
  /\ \A k \in start.packet..Len(dcFile.packets) : k < StopAt(start) => dcFile.packets[k].kind # "fault"
  /\ dcFile.kind = "ogg" =>
       /\ CutFrom(start) = dcFile.skip
       /\ LastFrame(start) = Lesser(dcFile.granule, Before(StopAt(start)))
  /\ dcFile.kind = "container" =>
       /\ CutFrom(start) = IF start.cuts /\ CutAt(start) <= Len(dcFile.packets)
                           THEN Lesser(dcFile.skip, Before(CutAt(start) + 1) - Before(CutAt(start))) ELSE 0
       /\ LastFrame(start) = Before(StopAt(start))
  /\ FirstFrame(start) = Before(start.packet) + CutFrom(start) + 1
  /\ FirstFrame(start) \in Nat \ {0} /\ LastFrame(start) \in Nat
  /\ PastTheEnd(start) = Greater(FirstFrame(start), LastFrame(start) + 1) /\ PastTheEnd(start) \in Nat \ {0}
LEMMA StartIs == ASSUME FileNumbers, NEW start \in DcStarts PROVE StartNumbers(start)
<1> DEFINE list == dcFile.packets
           n == Len(list)
           cut == CutAt(start)
           stop == StopAt(start)
<1>1. n \in Nat /\ DOMAIN list = 1..n
  BY DEF FileNumbers
<1>2. start.packet \in 1..n + 1 /\ start.cuts \in BOOLEAN /\ start.drop \in Nat
  BY DEF DcStarts
<1>3. /\ cut \in start.packet..n + 1
      /\ cut <= n => list[cut].kind \in {"sound", "reset", "fault"}
      /\ \A k \in start.packet..n : k < cut => list[k].kind \notin {"sound", "reset", "fault"}
  BY <1>1, <1>2, FirstKindIs DEF CutAt
<1>4. /\ stop \in start.packet..n + 1
      /\ stop <= n => list[stop].kind \in {"fault"}
      /\ \A k \in start.packet..n : k < stop => list[k].kind \notin {"fault"}
  BY <1>1, <1>2, FirstKindIs DEF StopAt
<1> HIDE DEF cut, stop
<1>5. stop \in 1..n + 1 /\ cut \in 1..n + 1
  BY <1>1, <1>2, <1>3, <1>4
<1>6. Before(stop) \in Nat /\ Before(start.packet) \in Nat /\ dcFile.skip \in Nat /\ dcFile.granule \in Nat
  BY <1>2, <1>5 DEF FileNumbers
<1>7. dcFile.kind = "ogg" =>
        CutFrom(start) = dcFile.skip /\ LastFrame(start) = Lesser(dcFile.granule, Before(stop))
  BY DEF CutFrom, LastFrame, StopAt, stop
<1>8. FramesOf(list, cut) = IF cut <= n THEN Before(cut + 1) - Before(cut) ELSE 0
  <2>1. cut <= n => cut \in DOMAIN list /\ list[cut].end = Before(cut + 1)
    BY <1>1, <1>5 DEF FileNumbers
  <2>2. ~(cut <= n) => cut \notin DOMAIN list
    BY <1>1, <1>5
  <2> QED BY <2>1, <2>2 DEF FramesOf, Before
<1>9. dcFile.kind = "container" => LastFrame(start) = Before(stop)
  BY DEF LastFrame, StopAt, stop
<1>10. dcFile.kind = "container" =>
         CutFrom(start) = IF start.cuts THEN Lesser(dcFile.skip, FramesOf(list, cut)) ELSE 0
  BY DEF CutFrom, CutAt, cut
<1>11. Lesser(dcFile.skip, 0) = 0
  BY <1>6 DEF Lesser
<1>12. dcFile.kind = "container" =>
         CutFrom(start) = IF start.cuts /\ cut <= n THEN Lesser(dcFile.skip, Before(cut + 1) - Before(cut)) ELSE 0
  BY <1>8, <1>10, <1>11
<1>13. cut <= n => Before(cut + 1) - Before(cut) \in Nat
  <2> SUFFICES ASSUME cut <= n PROVE Before(cut + 1) - Before(cut) \in Nat
    OBVIOUS
  <2>1. cut + 1 \in 1..n + 1 /\ cut <= cut + 1
    BY <1>1, <1>5
  <2>2. Before(cut + 1) \in Nat /\ Before(cut) \in Nat /\ Before(cut) <= Before(cut + 1)
    BY <1>5, <2>1 DEF FileNumbers
  <2> QED BY <2>2
<1>14. dcFile.kind \in {"ogg", "container"}
  BY DEF FileNumbers
<1>15. CutFrom(start) \in Nat
  BY <1>6, <1>7, <1>12, <1>13, <1>14 DEF Lesser
<1>16. LastFrame(start) \in Nat
  BY <1>6, <1>7, <1>9, <1>14 DEF Lesser
<1>17. FirstFrame(start) = Before(start.packet) + CutFrom(start) + 1
  BY DEF FirstFrame
<1>18. FirstFrame(start) \in Nat \ {0}
  BY <1>6, <1>15, <1>17
<1>19. PastTheEnd(start) = Greater(FirstFrame(start), LastFrame(start) + 1) /\ PastTheEnd(start) \in Nat \ {0}
  BY <1>16, <1>18 DEF PastTheEnd, Greater
<1> QED BY <1>2, <1>3, <1>4, <1>7, <1>9, <1>12, <1>16, <1>17, <1>18, <1>19 DEF StartNumbers, cut, stop

(***************************************************************************)
(* The reader.                                                             *)
(***************************************************************************)

\* The numbers of an Ogg file: b and c frames before and after a packet, k of
\* delay, g up to the end that is stated, d in all.
OggStep(b, c, k, g, d, skip, remaining, skipped, kept) ==
  /\ b <= c /\ c <= d /\ k <= g
  /\ skip = Greater(0, k - b) /\ remaining = g - Greater(k, Lesser(b, g)) /\ remaining # 0
  /\ skipped = Lesser(c - b, skip) /\ kept = Lesser(c - b - skipped, remaining)
OggMoved(b, c, k, g, d, skip, remaining, skipped, kept) ==
  LET first == b + skipped + 1
      last == first + kept - 1
      end == Lesser(g, d)
  IN  /\ skip - skipped = Greater(0, k - c) /\ skip - skipped \in Nat
      /\ remaining - kept = g - Greater(k, Lesser(c, g)) /\ remaining - kept \in Nat
      /\ first \in Nat /\ last \in Nat
      /\ first <= last => last = Lesser(c, end) /\ first >= k + 1
      /\ (IF first <= last THEN first ELSE Greater(k + 1, Lesser(c, end) + 1))
           = Greater(k + 1, Lesser(b, end) + 1)
LEMMA OggTaken ==
  ASSUME NEW b \in Nat, NEW c \in Nat, NEW k \in Nat, NEW g \in Nat, NEW d \in Nat,
         NEW skip, NEW remaining, NEW skipped, NEW kept,
         OggStep(b, c, k, g, d, skip, remaining, skipped, kept)
  PROVE  OggMoved(b, c, k, g, d, skip, remaining, skipped, kept)
<1> USE DEF OggStep, OggMoved
<1> DEFINE first == b + skipped + 1
           last == first + kept - 1
           end == Lesser(g, d)
           before == Greater(k, Lesser(b, g))
           after == Greater(k, Lesser(c, g))
<1>1. skip \in Nat /\ skipped \in Nat /\ skipped <= c - b /\ skipped <= skip
  BY DEF Greater, Lesser
<1>2. before \in Nat /\ after \in Nat /\ before <= after /\ after <= g /\ remaining \in Nat
  BY DEF Greater, Lesser
<1>3. kept \in Nat /\ kept <= remaining /\ kept <= c - b - skipped
  BY <1>1, <1>2 DEF Lesser
<1>4. skip - skipped = Greater(0, k - c) /\ skip - skipped \in Nat
  BY <1>1 DEF Greater, Lesser
<1>5. kept = after - before
  <2>1. CASE c <= k
    BY <1>1, <1>2, <1>3, <2>1 DEF Greater, Lesser
  <2>2. CASE b <= k /\ k < c
    BY <1>1, <1>2, <1>3, <2>2 DEF Greater, Lesser
  <2>3. CASE k < b
    BY <1>1, <1>2, <1>3, <2>3 DEF Greater, Lesser
  <2> QED BY <2>1, <2>2, <2>3
<1>6. remaining - kept = g - after /\ remaining - kept \in Nat
  BY <1>2, <1>3, <1>5
<1>7. first \in Nat /\ last \in Nat
  BY <1>1, <1>3
<1>8. CASE kept = 0
  <2>1. c <= k \/ c = b
    BY <1>1, <1>2, <1>3, <1>8 DEF Greater, Lesser
  <2>2. ~(first <= last)
    BY <1>1, <1>8
  <2>3. Greater(k + 1, Lesser(c, end) + 1) = Greater(k + 1, Lesser(b, end) + 1)
    BY <2>1 DEF Greater, Lesser
  <2> QED BY <1>4, <1>6, <1>7, <2>2, <2>3
<1>9. CASE kept # 0
  <2>1. b < g /\ k < c /\ b < c
    BY <1>1, <1>2, <1>3, <1>9 DEF Greater, Lesser
  <2>2. skipped = Greater(0, k - b)
    BY <1>1, <2>1 DEF Greater, Lesser
  <2>3. first = Greater(b, k) + 1
    BY <2>2 DEF Greater
  <2>4. last = Lesser(c, g)
    BY <1>5, <2>1, <2>3 DEF Greater, Lesser
  <2>5. last = Lesser(c, end)
    BY <2>4 DEF Lesser
  <2>6. first <= last /\ first >= k + 1
    BY <1>3, <1>7, <1>9, <2>3 DEF Greater
  <2>7. first = Greater(k + 1, Lesser(b, end) + 1)
    BY <2>1, <2>3 DEF Greater, Lesser
  <2> QED BY <1>4, <1>6, <1>7, <2>5, <2>6, <2>7
<1> QED BY <1>3, <1>8, <1>9

\* And those of a container: b and c frames before and after a packet that is not
\* past the e frames up to where reading ends, F the first frame that is heard.
ContainerStep(b, c, e, d, F, skip, remaining, skipped, kept) ==
  /\ b <= c /\ c <= e /\ e <= d /\ remaining >= d - b
  /\ skipped = Lesser(c - b, skip) /\ kept = Lesser(c - b - skipped, remaining)
  /\ F = b + skipped + 1 \/ (skip = 0 /\ F <= b + 1)
ContainerMoved(b, c, e, d, F, remaining, skipped, kept) ==
  LET first == b + skipped + 1
      last == first + kept - 1
  IN  /\ remaining - kept \in Nat /\ remaining - kept >= d - c
      /\ first \in Nat /\ last \in Nat
      /\ first <= last => last = Lesser(c, e) /\ first >= F
      /\ (IF first <= last THEN first ELSE Greater(F, Lesser(c, e) + 1))
           = Greater(F, Lesser(b, e) + 1)
LEMMA ContainerTaken ==
  ASSUME NEW b \in Nat, NEW c \in Nat, NEW e \in Nat, NEW d \in Nat, NEW F \in Nat, NEW remaining \in Nat,
         NEW skip \in Nat, NEW skipped, NEW kept,
         ContainerStep(b, c, e, d, F, skip, remaining, skipped, kept)
  PROVE  ContainerMoved(b, c, e, d, F, remaining, skipped, kept)
<1> USE DEF ContainerStep, ContainerMoved
<1>1. c - b \in Nat /\ skipped \in Nat /\ skipped <= c - b /\ (skip = 0 => skipped = 0)
  BY DEF Lesser
<1>2. d - b \in Nat /\ c - b - skipped \in Nat /\ c - b - skipped <= d - b
  BY <1>1
<1>3. kept = c - b - skipped
  BY <1>2 DEF Lesser
<1>4. Lesser(c, e) = c /\ Lesser(b, e) = b
  BY DEF Lesser
<1> DEFINE first == b + skipped + 1
           last == first + kept - 1
<1>5. first \in Nat /\ last = c /\ first = b + skipped + 1
  BY <1>1, <1>3
<1>6. first >= F /\ Greater(F, b + 1) = first
  <2>1. CASE F = b + skipped + 1
    BY <1>1, <2>1 DEF Greater
  <2>2. CASE skip = 0 /\ F <= b + 1
    BY <1>1, <2>2 DEF Greater
  <2> QED BY <2>1, <2>2
<1>7. first > last => Greater(F, c + 1) = first
  <2>1. first > last => skipped = c - b
    BY <1>1, <1>5
  <2>2. F <= c + 1 /\ (skipped = c - b => first = c + 1)
    BY <1>1, <1>5, <1>6
  <2> QED BY <2>1, <2>2 DEF Greater
<1>8. remaining - kept \in Nat /\ remaining - kept >= d - c
  BY <1>1, <1>2, <1>3
<1> HIDE DEF first, last
<1>9. (IF first <= last THEN first ELSE Greater(F, c + 1)) = first
  BY <1>5, <1>7
<1> QED BY <1>4, <1>5, <1>6, <1>8, <1>9 DEF first, last

\* Ogg files that are played end after their delay.
LEMMA DelayIsBeforeTheEnd ==
  ASSUME FileNumbers, Scannable(dcFile), dcFile.kind = "ogg"
  PROVE  dcFile.skip <= dcFile.granule
BY DEF Scannable, FileNumbers

\* A packet that is not an error is before the one at which reading ends.
LEMMA NextIsRead ==
  ASSUME FileNumbers, NEW source, NEW start, SourceFits(source, start),
         source.packet <= Len(dcFile.packets), dcFile.packets[source.packet].kind # "fault"
  PROVE  /\ StartNumbers(start)
         /\ source.packet \in 1..Len(dcFile.packets) /\ source.packet + 1 \in 1..Len(dcFile.packets) + 1
         /\ start.packet <= source.packet + 1 /\ source.packet + 1 <= StopAt(start)
         /\ Before(source.packet) \in Nat /\ Before(source.packet + 1) \in Nat
         /\ Before(source.packet) <= Before(source.packet + 1)
         /\ Before(source.packet + 1) <= Before(StopAt(start)) /\ Before(StopAt(start)) <= Decoded
         /\ Before(StopAt(start)) \in Nat
<1> DEFINE n == Len(dcFile.packets)
           p == source.packet
           stop == StopAt(start)
<1>1. StartNumbers(start) /\ n \in Nat
  BY StartIs DEF SourceFits, FileNumbers
<1>2. p \in 1..n /\ start.packet <= p /\ p <= stop
  BY <1>1 DEF SourceFits, DcSources
<1>3. /\ stop \in start.packet..n + 1 /\ start.packet \in 1..n + 1
      /\ stop <= n => dcFile.packets[stop].kind = "fault"
  BY <1>1 DEF StartNumbers
<1> HIDE DEF stop
<1>4. p # stop /\ stop \in 1..n + 1
  BY <1>1, <1>2, <1>3
<1>5. p + 1 <= stop /\ p + 1 \in 1..n + 1 /\ p \in 1..n + 1 /\ p <= p + 1 /\ start.packet <= p + 1
  BY <1>1, <1>2, <1>3, <1>4
<1>6. /\ Before(p) \in Nat /\ Before(p + 1) \in Nat /\ Before(stop) \in Nat
      /\ Before(p) <= Before(p + 1) /\ Before(p + 1) <= Before(stop) /\ Before(stop) <= Decoded
  BY <1>4, <1>5 DEF FileNumbers
<1> QED BY <1>1, <1>2, <1>5, <1>6 DEF stop

\* What a packet makes of the reader.
PacketTaken(source, taken) ==
  LET packet == dcFile.packets[source.packet]
      frames == packet.end - Before(source.packet)
      skipped == Lesser(frames, source.skip)
      kept == Lesser(frames - skipped, source.remaining)
      first == Before(source.packet) + skipped + 1
  IN  \/ /\ packet.kind = "sound"
         /\ taken = [packet |-> source.packet + 1, skip |-> IF dcFile.kind = "ogg" THEN source.skip - skipped ELSE 0,
                     remaining |-> source.remaining - kept, from |-> first, to |-> first + kept - 1]
      \/ packet.kind \in {"broken", "foreign"} /\ taken = [source EXCEPT !.packet = @ + 1]
      \/ packet.kind = "reset" /\ taken = [source EXCEPT !.packet = @ + 1, !.skip = 0]

\* One without sound is passed over.
LEMMA PassedFits ==
  ASSUME FileNumbers, NEW source, NEW start, SourceFits(source, start), ~(source.from <= source.to),
         source.packet <= Len(dcFile.packets), dcFile.packets[source.packet].kind # "sound",
         NEW taken, PacketTaken(source, taken)
  PROVE  SourceFits(taken, start) /\ NextOf(taken, start) = NextOf(source, start)
<1> DEFINE p == source.packet
           cut == CutAt(start)
           kind == dcFile.packets[p].kind
<1>0. \/ kind \in {"broken", "foreign"} /\ taken = [source EXCEPT !.packet = @ + 1]
      \/ kind = "reset" /\ taken = [source EXCEPT !.packet = @ + 1, !.skip = 0]
  BY DEF PacketTaken
<1>1. /\ StartNumbers(start) /\ p \in 1..Len(dcFile.packets) /\ p + 1 \in 1..Len(dcFile.packets) + 1
      /\ start.packet <= p + 1 /\ p + 1 <= StopAt(start)
      /\ Before(p) \in Nat /\ Before(p + 1) \in Nat
  BY <1>0, NextIsRead
<1>2. Before(p + 1) = Before(p) /\ (dcFile.kind = "ogg" => kind # "reset")
  BY <1>1 DEF FileNumbers
<1>3. /\ source \in DcSources /\ start \in DcStarts /\ start.packet <= p
      /\ dcFile.kind = "ogg" => OggFits(source, start)
      /\ dcFile.kind = "container" => ContainerFits(source, start)
  BY DEF SourceFits
<1>4. /\ taken \in DcSources /\ taken.packet = p + 1 /\ taken.remaining = source.remaining
      /\ taken.from = source.from /\ taken.to = source.to
      /\ kind # "reset" => taken.skip = source.skip
      /\ kind = "reset" => taken.skip = 0
  <2>1. CASE taken = [source EXCEPT !.packet = @ + 1] /\ kind # "reset"
    BY <1>1, <1>3, <2>1 DEF DcSources
  <2>2. CASE taken = [source EXCEPT !.packet = @ + 1, !.skip = 0] /\ kind = "reset"
    <3>1. p + 1 \in 1..Len(dcFile.packets) + 1 /\ 0 \in Nat
      BY <1>1
    <3> QED BY <1>3, <2>2, <3>1 DEF DcSources
  <2> QED BY <1>0, <2>1, <2>2
<1>5. dcFile.kind = "ogg" => OggFits(taken, start)
  BY <1>2, <1>3, <1>4 DEF OggFits
<1>6. ASSUME dcFile.kind = "container" PROVE ContainerFits(taken, start)
  <2>1. /\ p <= cut => source.skip = (IF start.cuts THEN dcFile.skip ELSE 0) /\ Before(p) = Before(start.packet)
        /\ p > cut => source.skip = 0
        /\ source.remaining >= Decoded - Before(p)
    BY <1>3, <1>6 DEF ContainerFits
  <2>2. /\ cut \in Int /\ p \in Int
        /\ cut <= Len(dcFile.packets) => dcFile.packets[cut].kind \in {"sound", "reset", "fault"}
        /\ p < cut => dcFile.packets[p].kind \notin {"sound", "reset", "fault"}
    <3>1. Len(dcFile.packets) \in Nat /\ start.packet \in 1..Len(dcFile.packets) + 1 /\ p \in start.packet..Len(dcFile.packets)
      BY <1>1, <1>3 DEF StartNumbers, FileNumbers
    <3>2. cut \in start.packet..Len(dcFile.packets) + 1
      BY <1>1 DEF StartNumbers
    <3>3. cut <= Len(dcFile.packets) => dcFile.packets[cut].kind \in {"sound", "reset", "fault"}
      BY <1>1 DEF StartNumbers
    <3>4. p < cut => dcFile.packets[p].kind \notin {"sound", "reset", "fault"}
      BY <1>1, <3>1 DEF StartNumbers
    <3> HIDE DEF cut
    <3> QED BY <3>1, <3>2, <3>3, <3>4
  <2> HIDE DEF cut
  <2>3. p + 1 <= cut <=> p < cut
    BY <2>2
  <2>4. p + 1 <= cut => kind # "reset" /\ p <= cut
    BY <2>2, <2>3
  <2>5. p + 1 > cut /\ kind # "reset" => p > cut
    <3>1. p = cut => kind \in {"sound", "reset", "fault"}
      BY <1>1, <2>2
    <3> QED BY <1>0, <2>2, <3>1
  <2> HIDE DEF p
  <2>6. taken.packet <= cut =>
          taken.skip = (IF start.cuts THEN dcFile.skip ELSE 0) /\ Before(taken.packet) = Before(start.packet)
    BY <1>2, <1>4, <2>1, <2>4
  <2>7. taken.packet > cut => taken.skip = 0
    BY <1>4, <2>1, <2>5
  <2>8. taken.remaining >= Decoded - Before(taken.packet)
    BY <1>2, <1>4, <2>1
  <2> QED BY <2>6, <2>7, <2>8 DEF ContainerFits, cut
<1>7. SourceFits(taken, start)
  BY <1>1, <1>3, <1>4, <1>5, <1>6 DEF SourceFits
<1>8. NextOf(taken, start) = NextOf(source, start)
  BY <1>2, <1>4 DEF NextOf
<1> QED BY <1>7, <1>8

\* What is heard of a container's packet is what its delay leaves.
LEMMA CutOfPacket ==
  ASSUME FileNumbers, NEW source, NEW start, SourceFits(source, start), dcFile.kind = "container",
         source.packet <= Len(dcFile.packets), dcFile.packets[source.packet].kind = "sound",
         NEW skipped, skipped = Lesser(Before(source.packet + 1) - Before(source.packet), source.skip)
  PROVE  /\ source.packet >= CutAt(start)
         /\ FirstFrame(start) = Before(source.packet) + skipped + 1
              \/ (source.skip = 0 /\ FirstFrame(start) <= Before(source.packet) + 1)
<1> DEFINE n == Len(dcFile.packets)
           p == source.packet
           cut == CutAt(start)
           b == Before(p)
           c == Before(p + 1)
<1>1. /\ StartNumbers(start) /\ p \in 1..n /\ p + 1 \in 1..n + 1 /\ b \in Nat /\ c \in Nat /\ b <= c
  BY NextIsRead
<1>2. n \in Nat /\ start.packet \in 1..n + 1 /\ start.packet <= p /\ dcFile.skip \in Nat
  BY <1>1 DEF StartNumbers, FileNumbers, SourceFits
<1>3. p >= cut /\ cut \in 1..n
  <2>1. cut \in start.packet..n + 1
    BY <1>1 DEF StartNumbers
  <2>2. p < cut => dcFile.packets[p].kind \notin {"sound", "reset", "fault"}
    <3>1. p \in start.packet..n
      BY <1>1, <1>2
    <3> QED BY <1>1, <3>1 DEF StartNumbers
  <2> HIDE DEF cut
  <2> QED BY <1>1, <1>2, <2>1, <2>2
<1>4. FirstFrame(start) = Before(start.packet) + CutFrom(start) + 1
  BY <1>1 DEF StartNumbers
<1>5. CutFrom(start) = IF start.cuts THEN Lesser(dcFile.skip, Before(cut + 1) - Before(cut)) ELSE 0
  <2>1. cut <= n
    BY <1>2, <1>3
  <2> QED BY <1>1, <2>1 DEF StartNumbers
<1>6. ContainerFits(source, start)
  BY DEF SourceFits
<1>7. CASE p = cut
  <2>1. p <= cut
    BY <1>1, <1>7
  <2>2. source.skip = (IF start.cuts THEN dcFile.skip ELSE 0) /\ b = Before(start.packet)
    BY <1>6, <2>1 DEF ContainerFits
  <2>3. CutFrom(start) = IF start.cuts THEN Lesser(dcFile.skip, c - b) ELSE 0
    BY <1>5, <1>7, Zenon
  <2>4. CutFrom(start) = skipped
    <3> HIDE DEF b, c
    <3>1. skipped = Lesser(c - b, source.skip)
      BY DEF b, c
    <3> QED BY <1>1, <1>2, <2>2, <2>3, <3>1 DEF Lesser
  <2> QED BY <1>3, <1>4, <2>2, <2>4
<1>8. CASE p # cut
  <2>1. p > cut /\ cut + 1 \in 1..n + 1 /\ cut + 1 <= p /\ p \in 1..n + 1 /\ start.packet <= cut + 1
        /\ cut \in 1..n + 1 /\ start.packet <= cut /\ cut <= cut + 1
    <3>1. cut \in start.packet..n + 1
      BY <1>1 DEF StartNumbers
    <3> HIDE DEF cut
    <3> QED BY <1>1, <1>2, <1>3, <1>8, <3>1
  <2>2. source.skip = 0
    BY <1>6, <2>1 DEF ContainerFits
  <2>3. /\ Before(start.packet) <= Before(cut) /\ Before(cut + 1) <= b /\ Before(cut) <= Before(cut + 1)
        /\ Before(start.packet) \in Nat /\ Before(cut) \in Nat /\ Before(cut + 1) \in Nat
    BY <1>2, <2>1 DEF FileNumbers
  <2>4. CutFrom(start) <= Before(cut + 1) - Before(cut) /\ CutFrom(start) \in Nat
    <3> DEFINE length == Before(cut + 1) - Before(cut)
    <3>1. length \in Nat
      BY <2>3
    <3>2. CutFrom(start) = IF start.cuts THEN Lesser(dcFile.skip, length) ELSE 0
      BY <1>5
    <3> HIDE DEF length
    <3>3. CutFrom(start) <= length /\ CutFrom(start) \in Nat
      BY <1>2, <3>1, <3>2 DEF Lesser
    <3> QED BY <3>3 DEF length
  <2> HIDE DEF cut, b
  <2>5. FirstFrame(start) <= b + 1
    BY <1>1, <1>4, <2>3, <2>4
  <2> QED BY <1>3, <2>2, <2>5 DEF b, cut
<1> QED BY <1>7, <1>8

\* One with sound is decoded.
LEMMA SoundFits ==
  ASSUME FileNumbers, Scannable(dcFile), NEW source, NEW start, SourceFits(source, start),
         ~(source.from <= source.to), source.packet <= Len(dcFile.packets), source.remaining # 0,
         dcFile.packets[source.packet].kind = "sound", NEW taken, PacketTaken(source, taken)
  PROVE  SourceFits(taken, start) /\ NextOf(taken, start) = NextOf(source, start)
<1> DEFINE n == Len(dcFile.packets)
           p == source.packet
           b == Before(p)
           c == Before(p + 1)
           e == Before(StopAt(start))
           F == FirstFrame(start)
           L == LastFrame(start)
           skipped == Lesser(c - b, source.skip)
           kept == Lesser(c - b - skipped, source.remaining)
           first == b + skipped + 1
           last == first + kept - 1
           rest == IF dcFile.kind = "ogg" THEN source.skip - skipped ELSE 0
<1>1. /\ StartNumbers(start) /\ p \in 1..n /\ p + 1 \in 1..n + 1
      /\ start.packet <= p + 1 /\ p + 1 <= StopAt(start)
      /\ b \in Nat /\ c \in Nat /\ b <= c /\ c <= e /\ e <= Decoded /\ e \in Nat
  BY NextIsRead
<1>2. /\ source \in DcSources /\ start \in DcStarts /\ start.packet <= p
      /\ dcFile.kind = "ogg" => OggFits(source, start)
      /\ dcFile.kind = "container" => ContainerFits(source, start)
  BY DEF SourceFits
<1>3. source.skip \in Nat /\ source.remaining \in Nat /\ source.from \in Nat /\ source.to \in Nat
  BY <1>2 DEF DcSources
<1>4. /\ dcFile.packets[p].end = c /\ Decoded \in Nat /\ dcFile.kind \in {"ogg", "container"}
      /\ dcFile.skip \in Nat /\ dcFile.granule \in Nat
  BY <1>1 DEF FileNumbers
<1>5. taken = [packet |-> p + 1, skip |-> rest, remaining |-> source.remaining - kept, from |-> first, to |-> last]
  BY <1>4 DEF PacketTaken
<1>6. NextOf(source, start) = Greater(F, Lesser(b, L) + 1)
  BY DEF NextOf
<1>7. F \in Nat /\ L \in Nat
  BY <1>1 DEF StartNumbers
<1>8. ASSUME rest \in Nat, source.remaining - kept \in Nat, first \in Nat, last \in Nat,
             first <= last => last = Lesser(c, L) /\ first >= F,
             (IF first <= last THEN first ELSE Greater(F, Lesser(c, L) + 1)) = Greater(F, Lesser(b, L) + 1),
             dcFile.kind = "ogg" => OggFits(taken, start),
             dcFile.kind = "container" => ContainerFits(taken, start)
      PROVE  SourceFits(taken, start) /\ NextOf(taken, start) = NextOf(source, start)
  <2> HIDE DEF rest, kept, first, last, F, L
  <2>1. /\ taken.packet = p + 1 /\ taken.skip = rest /\ taken.remaining = source.remaining - kept
        /\ taken.from = first /\ taken.to = last
    BY <1>5
  <2>2. taken \in DcSources
    BY <1>1, <1>5, <1>8 DEF DcSources
  <2>3. SourceFits(taken, start)
    BY <1>1, <1>2, <1>8, <2>1, <2>2 DEF SourceFits, F, L
  <2>4. NextOf(taken, start) = NextOf(source, start)
    BY <1>6, <1>8, <2>1 DEF NextOf, F, L
  <2> QED BY <2>3, <2>4
<1>9. taken.packet = p + 1 /\ taken.skip = rest /\ taken.remaining = source.remaining - kept
  BY <1>5
<1> HIDE DEF skipped, kept
<1>10. skipped = Lesser(c - b, source.skip) /\ kept = Lesser(c - b - skipped, source.remaining)
  BY DEF skipped, kept
<1>11. CASE dcFile.kind = "ogg"
  <2> DEFINE k == dcFile.skip
             g == dcFile.granule
  <2>1. start.packet = 1 /\ Before(1) = 0
    BY <1>2, <1>11 DEF OggFits, FileNumbers
  <2>2. L = Lesser(g, e) /\ F = k + 1 /\ k <= g
    <3>1. CutFrom(start) = k /\ L = Lesser(g, e) /\ F = Before(start.packet) + CutFrom(start) + 1
      BY <1>1, <1>11 DEF StartNumbers
    <3>2. k <= g
      BY <1>11, DelayIsBeforeTheEnd
    <3> QED BY <1>4, <2>1, <3>1, <3>2
  <2>3. source.skip = Greater(0, k - b) /\ source.remaining = g - Greater(k, Lesser(b, g))
    BY <1>2, <1>11 DEF OggFits
  <2>4. OggStep(b, c, k, g, e, source.skip, source.remaining, skipped, kept)
    <3> HIDE DEF b, c, e, k, g
    <3> QED BY <1>1, <1>10, <2>2, <2>3 DEF OggStep
  <2>5. k \in Nat /\ g \in Nat
    BY <1>4
  <2> HIDE DEF b, c, e, k, g
  <2>6. OggMoved(b, c, k, g, e, source.skip, source.remaining, skipped, kept)
    BY <1>1, <2>4, <2>5, OggTaken
  <2> HIDE DEF F, L
  <2>7. /\ source.skip - skipped = Greater(0, k - c) /\ source.skip - skipped \in Nat
        /\ source.remaining - kept = g - Greater(k, Lesser(c, g))
        /\ source.remaining - kept \in Nat /\ first \in Nat /\ last \in Nat
        /\ first <= last => last = Lesser(c, L) /\ first >= F
        /\ (IF first <= last THEN first ELSE Greater(F, Lesser(c, L) + 1)) = Greater(F, Lesser(b, L) + 1)
    BY <2>2, <2>6 DEF OggMoved
  <2>8. rest = source.skip - skipped
    BY <1>11
  <2>9. OggFits(taken, start)
    <3> HIDE DEF rest
    <3> QED BY <1>9, <2>1, <2>7, <2>8 DEF OggFits, c, k, g
  <2> QED BY <1>8, <1>11, <2>7, <2>8, <2>9
<1>12. CASE dcFile.kind = "container"
  <2>1. p >= CutAt(start) /\ (F = b + skipped + 1 \/ (source.skip = 0 /\ F <= b + 1))
    BY <1>10, <1>12, CutOfPacket
  <2>2. L = e
    BY <1>1, <1>12 DEF StartNumbers
  <2>3. source.remaining >= Decoded - b
    BY <1>2, <1>12 DEF ContainerFits
  <2> DEFINE d == Decoded
  <2> HIDE DEF b, c, e, d, F, L
  <2>4. /\ source.remaining - kept \in Nat /\ source.remaining - kept >= d - c
        /\ first \in Nat /\ last \in Nat
        /\ first <= last => last = Lesser(c, e) /\ first >= F
        /\ (IF first <= last THEN first ELSE Greater(F, Lesser(c, e) + 1)) = Greater(F, Lesser(b, e) + 1)
    <3>1. d \in Nat /\ e <= d /\ source.remaining >= d - b
      BY <1>1, <1>4, <2>3 DEF d
    <3>2. ContainerStep(b, c, e, d, F, source.skip, source.remaining, skipped, kept)
      BY <1>1, <1>10, <2>1, <3>1 DEF ContainerStep
    <3>3. ContainerMoved(b, c, e, d, F, source.remaining, skipped, kept)
      BY <1>1, <1>3, <1>7, <3>1, <3>2, ContainerTaken
    <3> QED BY <3>3 DEF ContainerMoved
  <2>5. rest = 0
    BY <1>12
  <2> HIDE DEF rest
  <2>6. taken.packet > CutAt(start)
    <3>1. CutAt(start) \in start.packet..n + 1 /\ start.packet \in 1..n + 1 /\ n \in Nat
      BY <1>1 DEF StartNumbers, FileNumbers
    <3> DEFINE cut == CutAt(start)
    <3> HIDE DEF cut
    <3>2. cut \in Int /\ p >= cut
      BY <2>1, <3>1 DEF cut
    <3>3. p + 1 > cut
      BY <1>1, <3>2
    <3> QED BY <1>9, <3>3 DEF cut
  <2>7. ContainerFits(taken, start)
    <3>1. taken.remaining >= Decoded - Before(taken.packet)
      BY <1>9, <2>4 DEF c, d
    <3>2. ~(taken.packet <= CutAt(start))
      <4>1. CutAt(start) \in Int /\ taken.packet \in Int
        BY <1>1, <1>9 DEF StartNumbers, FileNumbers
      <4> QED BY <2>6, <4>1
    <3> QED BY <1>9, <2>5, <3>1, <3>2 DEF ContainerFits
  <2> QED BY <1>4, <1>8, <1>12, <2>2, <2>4, <2>5, <2>7
<1> QED BY <1>4, <1>11, <1>12

\* Decoding a packet does not lose the place.
LEMMA DecodedFits ==
  ASSUME FileNumbers, Scannable(dcFile), NEW source, NEW start, SourceFits(source, start),
         ~(source.from <= source.to), source.packet <= Len(dcFile.packets), source.remaining # 0,
         NEW taken, PacketTaken(source, taken)
  PROVE  SourceFits(taken, start) /\ NextOf(taken, start) = NextOf(source, start)
<1>1. dcFile.packets[source.packet].kind \in {"sound", "broken", "foreign", "reset"}
  BY DEF PacketTaken
<1>2. CASE dcFile.packets[source.packet].kind = "sound"
  BY <1>2, SoundFits
<1>3. CASE dcFile.packets[source.packet].kind # "sound"
  BY <1>3, PassedFits
<1> QED BY <1>2, <1>3

\* A frame that is buffered is the next one, and not past the end.
LEMMA PulledFits ==
  ASSUME FileNumbers, NEW source, NEW start, SourceFits(source, start), source.from <= source.to,
         NEW pulled, pulled = [source EXCEPT !.from = @ + 1]
  PROVE  /\ NextOf(source, start) = source.from /\ source.from <= LastFrame(start) /\ source.from >= FirstFrame(start)
         /\ source.from \in Nat
         /\ SourceFits(pulled, start) /\ NextOf(pulled, start) = source.from + 1
<1> DEFINE F == FirstFrame(start)
           L == LastFrame(start)
<1>1. source \in DcSources /\ StartNumbers(start)
  BY StartIs DEF SourceFits
<1>2. source.from \in Nat /\ source.to \in Nat /\ source.packet \in 1..Len(dcFile.packets) + 1
  BY <1>1 DEF DcSources
<1>3. source.to = Lesser(Before(source.packet), L) /\ source.from >= F
  BY DEF SourceFits
<1>4. Before(source.packet) \in Nat /\ L \in Nat /\ F \in Nat
  BY <1>1, <1>2 DEF FileNumbers, StartNumbers
<1>5. source.to <= L
  BY <1>3, <1>4 DEF Lesser
<1>6. NextOf(source, start) = source.from
  BY DEF NextOf
<1>7. /\ pulled \in DcSources /\ pulled.packet = source.packet /\ pulled.skip = source.skip
      /\ pulled.remaining = source.remaining /\ pulled.from = source.from + 1 /\ pulled.to = source.to
  BY <1>1, <1>2 DEF DcSources
<1>8. SourceFits(pulled, start)
  <2>1. OggFits(source, start) => OggFits(pulled, start)
    BY <1>7 DEF OggFits
  <2>2. ContainerFits(source, start) => ContainerFits(pulled, start)
    BY <1>7 DEF ContainerFits
  <2>3. pulled.from >= F
    BY <1>2, <1>3, <1>4, <1>7
  <2> QED BY <1>3, <1>7, <2>1, <2>2, <2>3 DEF SourceFits
<1> HIDE DEF F, L
<1>9. NextOf(pulled, start) = source.from + 1
  <2>1. CASE source.from + 1 <= source.to
    BY <1>7, <2>1 DEF NextOf
  <2>2. CASE ~(source.from + 1 <= source.to)
    <3>1. Lesser(Before(source.packet), L) + 1 = source.from + 1
      BY <1>2, <1>3, <2>2
    <3>2. Greater(F, source.from + 1) = source.from + 1
      BY <1>2, <1>3, <1>4 DEF Greater
    <3> QED BY <1>7, <2>2, <3>1, <3>2 DEF NextOf, F, L
  <2> QED BY <2>1, <2>2
<1> QED BY <1>2, <1>3, <1>4, <1>5, <1>6, <1>8, <1>9 DEF F, L

\* Without a frame it is past the last one.
LEMMA EndedFits ==
  ASSUME FileNumbers, Scannable(dcFile), NEW source, NEW start, SourceFits(source, start), ~(source.from <= source.to),
         \/ source.remaining = 0
         \/ source.packet \in DOMAIN dcFile.packets => dcFile.packets[source.packet].kind = "fault"
  PROVE  NextOf(source, start) = PastTheEnd(start)
<1> DEFINE n == Len(dcFile.packets)
           p == source.packet
           b == Before(p)
           stop == StopAt(start)
           e == Before(stop)
           F == FirstFrame(start)
           L == LastFrame(start)
<1>1. /\ StartNumbers(start) /\ p \in 1..n + 1 /\ n \in Nat /\ source.remaining \in Nat
      /\ start.packet <= p /\ p <= stop /\ DOMAIN dcFile.packets = 1..n
  BY StartIs DEF SourceFits, DcSources, FileNumbers
<1>2. stop \in 1..n + 1 /\ start.packet \in 1..n + 1
      /\ \A k \in start.packet..n : k < stop => dcFile.packets[k].kind # "fault"
  BY <1>1 DEF StartNumbers
<1>3. /\ b \in Nat /\ e \in Nat /\ b <= Decoded /\ e <= Decoded /\ Decoded \in Nat /\ b <= e
      /\ dcFile.skip \in Nat /\ dcFile.granule \in Nat /\ dcFile.kind \in {"ogg", "container"}
  BY <1>1, <1>2 DEF FileNumbers
<1>4. /\ NextOf(source, start) = Greater(F, Lesser(b, L) + 1) /\ PastTheEnd(start) = Greater(F, L + 1)
      /\ F \in Nat /\ L \in Nat
  BY <1>1 DEF NextOf, StartNumbers
<1>5. L <= e
  <2>1. dcFile.kind = "ogg" => L = Lesser(dcFile.granule, e)
    BY <1>1 DEF StartNumbers
  <2>2. dcFile.kind = "container" => L = e
    BY <1>1 DEF StartNumbers
  <2> HIDE DEF L, e
  <2> QED BY <1>3, <2>1, <2>2 DEF Lesser
<1>6. CASE source.packet \in DOMAIN dcFile.packets => dcFile.packets[source.packet].kind = "fault"
  <2>1. p = stop
    <3> HIDE DEF stop
    <3>1. CASE p \in 1..n
      <4>1. p \in start.packet..n /\ dcFile.packets[p].kind = "fault"
        BY <1>1, <1>2, <1>6, <3>1
      <4>2. ~(p < stop)
        BY <1>2, <4>1
      <4> QED BY <1>1, <1>2, <4>2
    <3>2. CASE p \notin 1..n
      BY <1>1, <1>2, <3>2
    <3> QED BY <3>1, <3>2
  <2>2. b = e
    BY <2>1
  <2> HIDE DEF b, e, L, F
  <2>3. Lesser(b, L) = L
    BY <1>3, <1>4, <1>5, <2>2 DEF Lesser
  <2> QED BY <1>4, <2>3
<1>7. CASE source.remaining = 0 /\ dcFile.kind = "ogg"
  <2> DEFINE k == dcFile.skip
             g == dcFile.granule
  <2>1. g - Greater(k, Lesser(b, g)) = 0 /\ start.packet = 1
    BY <1>7 DEF SourceFits, OggFits
  <2>2. L = Lesser(g, e) /\ F = Before(1) + k + 1
    BY <1>1, <1>7, <2>1 DEF StartNumbers
  <2>3. F = k + 1
    BY <1>3, <2>2 DEF FileNumbers
  <2>4. k \in Nat /\ g \in Nat
    BY <1>3
  <2> HIDE DEF b, e, L, F, k, g
  <2>5. Greater(F, Lesser(b, L) + 1) = Greater(F, L + 1)
    BY <1>3, <2>1, <2>2, <2>3, <2>4 DEF Greater, Lesser
  <2> QED BY <1>4, <2>5
<1>8. CASE source.remaining = 0 /\ dcFile.kind = "container"
  <2>1. 0 >= Decoded - b
    BY <1>8 DEF SourceFits, ContainerFits
  <2> HIDE DEF b, e, L, F
  <2>2. Lesser(b, L) = L
    BY <1>3, <1>4, <1>5, <2>1 DEF Lesser
  <2> QED BY <1>4, <2>2
<1> QED BY <1>3, <1>6, <1>7, <1>8

(***************************************************************************)
(* The converter.                                                          *)
(***************************************************************************)

\* A rate is not zero.
LEMMA RatesAre == ASSUME dcRate \in DcRates PROVE From \in Nat \ {0} /\ To \in Nat \ {0}
BY DecodingAssumption DEF From, To

\* What a division gives is the only quotient with a rest below the divisor.
LEMMA DivisionIs ==
  ASSUME NEW a \in Nat, NEW d \in Nat \ {0}, NEW q \in Nat, NEW r \in 0 .. d - 1, q * d + r = a
  PROVE  a \div d = q /\ a % d = r
BY SMTT(30)

LEMMA OneMore == ASSUME NEW m \in Int, NEW d \in Int PROVE (m + 1) * d = m * d + d
OBVIOUS

\* After the last frame there are as many outputs as began before its end.
LEMMA RoundedUp ==
  ASSUME NEW q \in Nat, NEW d \in Nat \ {0}, NEW f \in Nat, NEW o \in Nat, NEW m \in Nat \ {0},
         q * d + f = o * m, d <= f, f < m + d
  PROVE  o = ((q + 1) * d + m - 1) \div m
<1>1. (q + 1) * d = q * d + d
  BY OneMore
<1> DEFINE r == m - 1 - (f - d)
           a == (q + 1) * d + m - 1
<1>2. r \in 0 .. m - 1
  OBVIOUS
<1>3. q * d \in Nat /\ o * m \in Nat
  OBVIOUS
<1>4. o * m + r = a /\ a \in Nat
  BY <1>1, <1>3
<1> HIDE DEF r, a
<1>5. a \div m = o
  BY <1>2, <1>4, DivisionIs
<1> QED BY <1>5 DEF a

\* A converter that has its two frames: there may be an output between them.
Settling(source, conv, start, out) ==
  /\ SourceFits(source, start) /\ conv \in DcConvs /\ out \in Nat
  /\ Begin(start) <= conv.current /\ conv.current <= LastFrame(start)
  /\ conv.next = Lesser(conv.current + 1, LastFrame(start))
  /\ (conv.exhausted <=> conv.current = LastFrame(start)) /\ conv.frac < From + To
  /\ Balanced(conv, start, out) /\ NextOf(source, start) = Lesser(conv.current + 2, PastTheEnd(start))

\* The loop leaves a player that fits, whether it gives an output, reads on or ends.
LEMMA SettledFits ==
  ASSUME FileNumbers, dcRate \in DcRates, NEW source, NEW conv, NEW start, NEW out,
         Settling(source, conv, start, out), NEW after, NEW phase,
         \/ conv.frac < To /\ after = conv /\ phase = "emit"
         \/ ~(conv.frac < To) /\ conv.exhausted /\ after = conv /\ phase = "done"
         \/ /\ ~(conv.frac < To) /\ ~conv.exhausted /\ phase = "more"
            /\ after = [conv EXCEPT !.current = conv.next, !.frac = @ - To]
  PROVE  PlayerFits(source, after, phase, start, out)
<1> DEFINE S == Begin(start)
           F == FirstFrame(start)
           L == LastFrame(start)
           c == conv.current
           f == conv.frac
           q == c - S
<1>1. /\ SourceFits(source, start) /\ conv \in DcConvs /\ out \in Nat
      /\ S <= c /\ c <= L /\ conv.next = Lesser(c + 1, L)
      /\ (conv.exhausted <=> c = L) /\ f < From + To
      /\ q * To + f = out * From /\ NextOf(source, start) = Lesser(c + 2, PastTheEnd(start))
  BY DEF Settling, Balanced
<1>2. /\ From \in Nat \ {0} /\ To \in Nat \ {0} /\ F \in Nat \ {0} /\ L \in Nat
      /\ PastTheEnd(start) = Greater(F, L + 1) /\ start.drop \in Nat /\ S = F + start.drop
  BY <1>1, RatesAre, StartIs DEF SourceFits, StartNumbers, Begin
<1>3. c \in Nat /\ f \in Nat /\ conv.next \in Nat /\ conv.exhausted \in BOOLEAN
  BY <1>1 DEF DcConvs
<1> HIDE DEF S, F, L
<1>4. q \in Nat /\ S \in Nat /\ c - S = q
  BY <1>1, <1>2, <1>3
<1>5. CASE conv.frac < To /\ after = conv /\ phase = "emit"
  BY <1>1, <1>5 DEF PlayerFits, Balanced, S, L
<1>6. CASE ~(conv.frac < To) /\ conv.exhausted /\ after = conv /\ phase = "done"
  <2> HIDE DEF q
  <2>1. out = ((q + 1) * To + From - 1) \div From
    BY <1>1, <1>2, <1>3, <1>4, <1>6, RoundedUp
  <2>2. L - F + 1 - start.drop = q + 1
    BY <1>1, <1>2, <1>3, <1>6 DEF q
  <2> QED BY <1>1, <1>6, <2>1, <2>2 DEF PlayerFits, F, L
<1>7. CASE /\ ~(conv.frac < To) /\ ~conv.exhausted /\ phase = "more"
           /\ after = [conv EXCEPT !.current = conv.next, !.frac = @ - To]
  <2>1. c < L /\ conv.next = c + 1
    <3>1. c # L /\ c <= L
      BY <1>1, <1>7
    <3>2. conv.next = IF c + 1 < L THEN c + 1 ELSE L
      BY <1>1 DEF Lesser
    <3> QED BY <1>2, <1>3, <3>1, <3>2
  <2>2. /\ after \in DcConvs /\ after.current = c + 1 /\ after.next = c + 1
        /\ after.frac = f - To /\ after.exhausted = conv.exhausted
    <3> DEFINE rest == f - To
               more == c + 1
    <3>1. rest \in Nat /\ more \in Nat
      BY <1>2, <1>3, <1>7
    <3>2. after = [conv EXCEPT !.current = more, !.frac = rest]
      BY <1>7, <2>1
    <3> HIDE DEF rest, more
    <3>3. /\ after \in DcConvs /\ after.current = more /\ after.next = conv.next
          /\ after.frac = rest /\ after.exhausted = conv.exhausted
      BY <1>1, <3>1, <3>2 DEF DcConvs
    <3> QED BY <2>1, <3>3 DEF rest, more
  <2>3. (after.current - S) * To + after.frac = out * From
    <3>1. after.current - S = q + 1
      BY <1>2, <1>3, <1>4, <2>2
    <3>2. (q + 1) * To = q * To + To
      BY <1>2, <1>4, OneMore
    <3>3. q * To \in Int /\ out * From \in Int
      BY <1>1, <1>2, <1>4
    <3> HIDE DEF q
    <3>4. (q + 1) * To + (f - To) = q * To + f
      BY <1>2, <1>3, <3>2, <3>3
    <3> QED BY <1>1, <2>2, <3>1, <3>4
  <2>4. NextOf(source, start) = after.current + 1
    BY <1>1, <1>2, <1>3, <2>1, <2>2 DEF Lesser, Greater
  <2>5. after.frac < From
    BY <1>1, <1>2, <1>3, <2>2
  <2>6. S <= after.current /\ after.current <= L /\ ~after.exhausted /\ after.next = after.current
    BY <1>1, <1>2, <1>3, <1>4, <1>7, <2>1, <2>2
  <2> QED BY <1>1, <1>7, <2>2, <2>3, <2>4, <2>5, <2>6 DEF PlayerFits, Balanced, S, L
<1> QED BY <1>5, <1>6, <1>7

(***************************************************************************)
(* The steps.                                                              *)
(***************************************************************************)

\* The file and its rate stay; what is new has to fit.
LEMMA FitsNext ==
  ASSUME UNCHANGED <<dcFile, dcRate>>,
         PlayerFits(dcSource', dcConv', dcPhase', dcStart', dcOut')
  PROVE  PlayerFits(dcSource, dcConv, dcPhase, dcStart, dcOut)'
<1>1. /\ FirstFrame(dcStart)' = FirstFrame(dcStart') /\ LastFrame(dcStart)' = LastFrame(dcStart')
      /\ Decoded' = Decoded /\ From' = From /\ To' = To
      /\ StopAt(dcStart)' = StopAt(dcStart') /\ CutAt(dcStart)' = CutAt(dcStart')
  BY DEF FirstFrame, LastFrame, CutFrom, Decoded, Before, From, To, StopAt, CutAt
<1>2. PastTheEnd(dcStart)' = PastTheEnd(dcStart') /\ Begin(dcStart)' = Begin(dcStart')
  BY <1>1 DEF PastTheEnd, Begin
<1>3. Before(dcSource.packet)' = Before(dcSource'.packet) /\ Before(dcStart.packet)' = Before(dcStart'.packet)
  BY DEF Before
<1>4. NextOf(dcSource, dcStart)' = NextOf(dcSource', dcStart')
  BY <1>1, <1>3 DEF NextOf
<1>5. OggFits(dcSource', dcStart') => OggFits(dcSource, dcStart)'
  BY <1>3 DEF OggFits
<1>6. ContainerFits(dcSource', dcStart') => ContainerFits(dcSource, dcStart)'
  BY <1>1, <1>3 DEF ContainerFits
<1>7. SourceFits(dcSource, dcStart)'
  BY <1>1, <1>3, <1>5, <1>6 DEF PlayerFits, SourceFits, DcSources, DcStarts
<1>8. Balanced(dcConv', dcStart', dcOut') => Balanced(dcConv, dcStart, dcOut)'
  BY <1>1, <1>2 DEF Balanced
<1> QED BY <1>1, <1>2, <1>4, <1>7, <1>8 DEF PlayerFits, DcConvs, NoConv
LEMMA DropsNext ==
  ASSUME UNCHANGED <<dcFile, dcRate>>, Drops(dcSource', dcPhase', dcDrop', dcStart', dcOut')
  PROVE  Drops(dcSource, dcPhase, dcDrop, dcStart, dcOut)'
<1>1. /\ FirstFrame(dcStart)' = FirstFrame(dcStart') /\ LastFrame(dcStart)' = LastFrame(dcStart')
      /\ Before(dcSource.packet)' = Before(dcSource'.packet)
  BY DEF FirstFrame, LastFrame, CutFrom, Decoded, Before
<1>2. PastTheEnd(dcStart)' = PastTheEnd(dcStart') /\ Begin(dcStart)' = Begin(dcStart')
  BY <1>1 DEF PastTheEnd, Begin
<1>3. NextOf(dcSource, dcStart)' = NextOf(dcSource', dcStart')
  BY <1>1 DEF NextOf
<1> QED BY <1>2, <1>3 DEF Drops
LEMMA KeepsNext ==
  ASSUME UNCHANGED <<dcFile, dcRate>>, Keeps(dcKept')
  PROVE  Keeps(dcKept)'
<1> DEFINE start == dcKept[4]
           source == dcKept[1]
<1>1. /\ FirstFrame(start)' = FirstFrame(start') /\ LastFrame(start)' = LastFrame(start')
      /\ Decoded' = Decoded /\ From' = From /\ To' = To
      /\ StopAt(start)' = StopAt(start') /\ CutAt(start)' = CutAt(start')
  BY DEF FirstFrame, LastFrame, CutFrom, Decoded, Before, From, To, StopAt, CutAt
<1>2. PastTheEnd(start)' = PastTheEnd(start') /\ Begin(start)' = Begin(start')
  BY <1>1 DEF PastTheEnd, Begin
<1>3. Before(source.packet)' = Before(source'.packet) /\ Before(start.packet)' = Before(start'.packet)
  BY DEF Before
<1>4. NextOf(source, start)' = NextOf(source', start')
  BY <1>1, <1>3 DEF NextOf
<1>5. OggFits(source', start') => OggFits(source, start)'
  BY <1>3 DEF OggFits
<1>6. ContainerFits(source', start') => ContainerFits(source, start)'
  BY <1>1, <1>3 DEF ContainerFits
<1>7. SourceFits(source', start') => SourceFits(source, start)'
  BY <1>1, <1>3, <1>5, <1>6 DEF SourceFits, DcSources, DcStarts
<1>8. Balanced(dcKept'[2], start', dcKept'[5]) => Balanced(dcKept[2], start, dcKept[5])'
  BY <1>1, <1>2 DEF Balanced
<1>9. ASSUME PlayerFits(dcKept'[1], dcKept'[2], dcKept'[3], dcKept'[4], dcKept'[5])
      PROVE  PlayerFits(dcKept[1], dcKept[2], dcKept[3], dcKept[4], dcKept[5])'
  BY <1>1, <1>2, <1>4, <1>7, <1>8, <1>9 DEF PlayerFits, DcConvs
<1> QED BY <1>9 DEF Keeps

\* What is to be shown of a step that plays.
LEMMA InvNext ==
  ASSUME DecodeInv, dcPhase # "refused", UNCHANGED <<dcFile, dcRate>>, dcPhase' \in DcPhases,
         dcPhase' # "refused" => /\ PlayerFits(dcSource', dcConv', dcPhase', dcStart', dcOut')
                                 /\ Drops(dcSource', dcPhase', dcDrop', dcStart', dcOut')
                                 /\ Keeps(dcKept')
  PROVE  DecodeInv'
<1>1. Scannable(dcFile) => Scannable(dcFile)'
  BY DEF Scannable
<1> QED BY <1>1, FitsNext, DropsNext, KeepsNext DEF DecodeInv

\* What the invariant gives of a player that is not refused.
LEMMA PlayerIs ==
  ASSUME DecodeInv, dcPhase # "refused"
  PROVE  /\ FileNumbers /\ Scannable(dcFile) /\ dcRate \in DcRates /\ Keeps(dcKept)
         /\ Drops(dcSource, dcPhase, dcDrop, dcStart, dcOut)
         /\ PlayerFits(dcSource, dcConv, dcPhase, dcStart, dcOut) /\ SourceFits(dcSource, dcStart)
BY FileIs DEF DecodeInv, PlayerFits

\* A packet is decoded.
LEMMA DecodeFits == ASSUME DecodeInv, Decode PROVE DecodeInv'
<1> DEFINE source == dcSource'
<1>1. /\ dcPhase \in {"drop", "current", "next", "more"}
      /\ ~(dcSource.from <= dcSource.to)
      /\ dcSource.remaining # 0
      /\ dcSource.packet \in DOMAIN dcFile.packets
      /\ UNCHANGED <<dcFile, dcRate, dcConv, dcPhase, dcDrop, dcStart, dcOut, dcKept>>
  BY DEF Decode, Reading, Buffered, AtEnd
<1>2. /\ FileNumbers /\ Scannable(dcFile) /\ SourceFits(dcSource, dcStart) /\ Keeps(dcKept)
      /\ Drops(dcSource, dcPhase, dcDrop, dcStart, dcOut)
      /\ PlayerFits(dcSource, dcConv, dcPhase, dcStart, dcOut)
  BY <1>1, PlayerIs
<1>3. dcSource.packet <= Len(dcFile.packets)
  BY <1>1, <1>2 DEF FileNumbers
<1>4. PacketTaken(dcSource, source)
  BY DEF Decode, Taken, SkipLeft, ResetSkip, PacketTaken
<1>5. SourceFits(source, dcStart) /\ NextOf(source, dcStart) = NextOf(dcSource, dcStart)
  BY <1>1, <1>2, <1>3, <1>4, DecodedFits
<1>6. PlayerFits(source, dcConv, dcPhase, dcStart, dcOut)
  BY <1>2, <1>5 DEF PlayerFits
<1>7. Drops(source, dcPhase, dcDrop, dcStart, dcOut)
  BY <1>2, <1>5 DEF Drops
<1>8. dcPhase \in DcPhases /\ dcPhase # "refused"
  BY <1>1 DEF DcPhases
<1> QED BY <1>1, <1>2, <1>6, <1>7, <1>8, InvNext

\* The two frames are there.
LEMMA SettleGoesOn ==
  ASSUME DecodeInv, dcPhase # "refused", UNCHANGED <<dcFile, dcRate>>,
         NEW conv, Settling(dcSource', conv, dcStart', dcOut'), Settle(conv),
         Keeps(dcKept')
  PROVE  DecodeInv'
<1>1. FileNumbers /\ dcRate \in DcRates
  BY PlayerIs
<1>2. /\ \/ conv.frac < To /\ dcConv' = conv /\ dcPhase' = "emit"
         \/ ~(conv.frac < To) /\ conv.exhausted /\ dcConv' = conv /\ dcPhase' = "done"
         \/ /\ ~(conv.frac < To) /\ ~conv.exhausted /\ dcPhase' = "more"
            /\ dcConv' = [conv EXCEPT !.current = conv.next, !.frac = @ - To]
  BY DEF Settle
<1>3. PlayerFits(dcSource', dcConv', dcPhase', dcStart', dcOut')
  BY <1>1, <1>2, SettledFits
<1>4. dcPhase' \in {"emit", "done", "more"}
  BY <1>2
<1>5. Drops(dcSource', dcPhase', dcDrop', dcStart', dcOut') /\ dcPhase' \in DcPhases
  BY <1>4 DEF Drops, DcPhases
<1> QED BY <1>3, <1>5, InvNext

\* An output is given.
LEMMA EmitFits == ASSUME DecodeInv, Emit PROVE DecodeInv'
<1> DEFINE conv == [dcConv EXCEPT !.frac = @ + From]
           S == Begin(dcStart)
           q == dcConv.current - S
<1>1. /\ dcPhase = "emit" /\ dcOut' = dcOut + 1 /\ Settle(conv) /\ dcKept' = <<>>
      /\ UNCHANGED <<dcFile, dcRate, dcSource, dcDrop, dcStart>>
  BY DEF Emit
<1>2. /\ FileNumbers /\ dcRate \in DcRates
      /\ SourceFits(dcSource, dcStart) /\ dcConv \in DcConvs /\ dcOut \in Nat
      /\ S <= dcConv.current /\ dcConv.current <= LastFrame(dcStart)
      /\ dcConv.next = Lesser(dcConv.current + 1, LastFrame(dcStart))
      /\ (dcConv.exhausted <=> dcConv.current = LastFrame(dcStart)) /\ dcConv.frac < To
      /\ q * To + dcConv.frac = dcOut * From
      /\ NextOf(dcSource, dcStart) = Lesser(dcConv.current + 2, PastTheEnd(dcStart))
  BY <1>1, PlayerIs DEF PlayerFits, Balanced
<1>3. From \in Nat \ {0} /\ To \in Nat \ {0} /\ dcConv.current \in Nat /\ dcConv.frac \in Nat /\ S \in Nat
  <2>1. StartNumbers(dcStart)
    BY <1>2, StartIs DEF SourceFits
  <2>2. S \in Nat
    BY <2>1 DEF StartNumbers, Begin
  <2> QED BY <1>2, <2>2, RatesAre DEF DcConvs
<1>4. /\ conv \in DcConvs /\ conv.current = dcConv.current /\ conv.next = dcConv.next
      /\ conv.frac = dcConv.frac + From /\ conv.exhausted = dcConv.exhausted
  BY <1>2, <1>3 DEF DcConvs
<1> HIDE DEF conv
<1>5. (conv.current - S) * To + conv.frac = (dcOut + 1) * From
  <2>1. q \in Int /\ conv.current - S = q
    BY <1>3, <1>4
  <2> HIDE DEF q
  <2>2. (dcOut + 1) * From = dcOut * From + From
    BY <1>2, <1>3, OneMore
  <2>3. q * To \in Int /\ dcOut * From \in Int
    BY <1>2, <1>3, <2>1
  <2> QED BY <1>2, <1>3, <1>4, <2>1, <2>2, <2>3
<1>6. conv.frac < From + To
  BY <1>2, <1>3, <1>4
<1> HIDE DEF S
<1>7. Settling(dcSource', conv, dcStart', dcOut')
  BY <1>1, <1>2, <1>4, <1>5, <1>6 DEF Settling, Balanced, S
<1>8. Keeps(dcKept')
  BY <1>1 DEF Keeps
<1> QED BY <1>1, <1>7, <1>8, SettleGoesOn

\* A frame is read.
LEMMA PullFits == ASSUME DecodeInv, Pull PROVE DecodeInv'
<1> DEFINE S == Begin(dcStart)
           F == FirstFrame(dcStart)
           L == LastFrame(dcStart)
           P == PastTheEnd(dcStart)
           frame == dcSource.from
           c == dcConv.current
<1>1. /\ dcPhase \in {"drop", "current", "next", "more"} /\ dcSource.from <= dcSource.to
      /\ dcSource' = [dcSource EXCEPT !.from = @ + 1]
      /\ UNCHANGED <<dcFile, dcRate, dcStart, dcOut, dcKept>>
  BY DEF Pull, Reading, Buffered
<1>2. \/ /\ dcPhase = "drop" /\ dcDrop' = dcDrop - 1
         /\ dcPhase' = IF dcDrop' = 0 THEN "current" ELSE "drop"
         /\ UNCHANGED dcConv
      \/ dcPhase = "current" /\ dcConv' = [NoConv EXCEPT !.current = frame] /\ dcPhase' = "next"
      \/ dcPhase \in {"next", "more"} /\ Settle([dcConv EXCEPT !.next = frame])
  BY DEF Pull
<1>3. /\ FileNumbers /\ Scannable(dcFile) /\ dcRate \in DcRates /\ Keeps(dcKept) /\ SourceFits(dcSource, dcStart)
      /\ Drops(dcSource, dcPhase, dcDrop, dcStart, dcOut)
      /\ PlayerFits(dcSource, dcConv, dcPhase, dcStart, dcOut)
  BY <1>1, PlayerIs
<1>4. /\ NextOf(dcSource, dcStart) = frame /\ frame <= L /\ frame >= F /\ frame \in Nat
      /\ SourceFits(dcSource', dcStart') /\ NextOf(dcSource', dcStart') = frame + 1
  BY <1>1, <1>3, PulledFits
<1>5. /\ dcStart.drop \in Nat /\ dcOut \in Nat /\ dcConv \in DcConvs
      /\ F \in Nat \ {0} /\ L \in Nat /\ P = Greater(F, L + 1) /\ S = F + dcStart.drop
      /\ From \in Nat \ {0} /\ To \in Nat \ {0}
  BY <1>3, RatesAre, StartIs DEF PlayerFits, StartNumbers, SourceFits, Begin
<1> HIDE DEF S, F, L, P
<1>6. S \in Nat /\ c \in Nat /\ P \in Nat /\ P >= L + 1
  BY <1>5 DEF DcConvs, Greater
<1>7. ASSUME dcPhase = "drop", dcDrop' = dcDrop - 1, dcPhase' = IF dcDrop' = 0 THEN "current" ELSE "drop",
             UNCHANGED dcConv
      PROVE  DecodeInv'
  <2>1. dcDrop \in Nat \ {0} /\ dcDrop <= dcStart.drop /\ dcOut = 0 /\ frame = Lesser(S - dcDrop, P)
    BY <1>3, <1>4, <1>7, Zenon DEF Drops, S, L, P
  <2>2. frame = S - dcDrop
    BY <1>4, <1>5, <1>6, <2>1 DEF Lesser
  <2>3. frame + 1 = S - (dcDrop - 1) /\ frame + 1 <= P
    BY <1>4, <1>5, <1>6, <2>1, <2>2
  <2>4. NextOf(dcSource', dcStart') = Lesser(S - dcDrop', P)
    BY <1>4, <1>6, <1>7, <2>1, <2>3 DEF Lesser
  <2>5. dcPhase' \in DcPhases /\ dcPhase' # "refused"
    BY <1>7 DEF DcPhases
  <2>6. Drops(dcSource', dcPhase', dcDrop', dcStart', dcOut')
    <3>1. dcPhase' = "drop" => dcDrop' \in Nat \ {0} /\ dcDrop' <= dcStart.drop
      BY <1>5, <1>7, <2>1
    <3>3. dcStart' = dcStart /\ dcOut' = 0
      BY <1>1, <2>1
    <3>5. NextOf(dcSource', dcStart) = Lesser(S - dcDrop', P)
      BY <2>4, <3>3
    <3>2. NextOf(dcSource', dcStart) = Lesser(Begin(dcStart) - dcDrop', PastTheEnd(dcStart))
      BY <3>5 DEF S, P
    <3>4. dcPhase' = "drop" => dcDrop' \in Nat \ {0} /\ dcDrop' <= dcStart'.drop /\ dcOut' = 0
      BY <3>1, <3>3
    <3> QED BY <3>2, <3>3, <3>4 DEF Drops
  <2>7. dcPhase' = "current" => NextOf(dcSource', dcStart') = Lesser(S, P)
    BY <1>6, <1>7, <2>1, <2>4
  <2>8. PlayerFits(dcSource', dcConv', dcPhase', dcStart', dcOut')
    BY <1>1, <1>4, <1>5, <1>7, <2>1, <2>7 DEF PlayerFits, S, L, P
  <2> QED BY <1>1, <1>3, <1>7, <2>5, <2>6, <2>8, InvNext
<1>8. ASSUME dcPhase = "current", dcConv' = [NoConv EXCEPT !.current = frame], dcPhase' = "next"
      PROVE  DecodeInv'
  <2>1. dcOut = 0 /\ frame = Lesser(S, P)
    BY <1>3, <1>4, <1>8 DEF PlayerFits, S, L, P
  <2>2. frame = S /\ S <= L
    BY <1>4, <1>5, <1>6, <2>1 DEF Lesser
  <2>3. dcConv' \in DcConvs
    BY <1>4, <1>8 DEF DcConvs, NoConv
  <2>4. PlayerFits(dcSource', dcConv', dcPhase', dcStart', dcOut')
    BY <1>1, <1>4, <1>5, <1>8, <2>1, <2>2, <2>3 DEF PlayerFits, S, L, P
  <2>5. Drops(dcSource', dcPhase', dcDrop', dcStart', dcOut') /\ dcPhase' \in DcPhases
    BY <1>8 DEF Drops, DcPhases
  <2> QED BY <1>1, <1>3, <1>8, <2>4, <2>5, InvNext
<1>9. ASSUME dcPhase \in {"next", "more"}, Settle([dcConv EXCEPT !.next = frame])
      PROVE  DecodeInv'
  <2> DEFINE conv == [dcConv EXCEPT !.next = frame]
  <2>1. /\ conv \in DcConvs /\ conv.current = c /\ conv.next = frame /\ conv.frac = dcConv.frac
        /\ conv.exhausted = dcConv.exhausted
    BY <1>4, <1>5 DEF DcConvs
  <2> HIDE DEF conv
  <2>2. /\ S <= c /\ frame = c + 1 /\ ~dcConv.exhausted /\ dcConv.frac < From /\ dcConv.frac \in Nat
        /\ (c - S) * To + dcConv.frac = dcOut * From
    <3>1. CASE dcPhase = "next"
      <4>1. dcOut = 0 /\ S <= L /\ dcConv = [NoConv EXCEPT !.current = S] /\ frame = S + 1
        BY <1>3, <1>4, <3>1 DEF PlayerFits, S, L, P
      <4>2. c = S /\ dcConv.frac = 0 /\ ~dcConv.exhausted
        BY <4>1 DEF NoConv
      <4>3. c - S = 0 /\ 0 * To + 0 = 0 /\ 0 * From = 0
        BY <1>5, <1>6, <4>2
      <4>4. (c - S) * To + dcConv.frac = dcOut * From
        BY <4>1, <4>2, <4>3, Zenon
      <4>5. S <= c /\ dcConv.frac < From /\ dcConv.frac \in Nat
        BY <1>5, <1>6, <4>2
      <4> QED BY <4>1, <4>2, <4>4, <4>5, <1>5, <1>6
    <3>2. CASE dcPhase = "more"
      BY <1>3, <1>4, <1>5, <3>2 DEF PlayerFits, Balanced, DcConvs, S, L, P
    <3> QED BY <1>9, <3>1, <3>2
  <2> HIDE DEF S, c, frame
  <2>9. c \in Nat /\ L \in Nat /\ P \in Nat /\ P >= L + 1
        /\ frame = c + 1 /\ frame <= L
    BY <1>4, <1>5, <1>6, <2>2
  <2>3. frame = Lesser(c + 1, L) /\ c # L /\ c <= L
    BY <2>9 DEF Lesser
  <2>4. frame + 1 = Lesser(c + 2, P)
    BY <2>9 DEF Lesser
  <2>5. dcConv.frac < From + To
    BY <1>5, <2>2
  <2> HIDE DEF S, c, frame
  <2>6. Settling(dcSource', conv, dcStart, dcOut)
    BY <1>1, <1>4, <1>5, <2>1, <2>2, <2>3, <2>4, <2>5 DEF Settling, Balanced, S, L, P
  <2>7. Settling(dcSource', conv, dcStart', dcOut') /\ Keeps(dcKept') /\ dcPhase # "refused"
    BY <1>1, <1>3, <2>6
  <2>8. Settle(conv)
    BY <1>9 DEF conv, frame
  <2> QED BY <1>1, <2>7, <2>8, SettleGoesOn
<1> QED BY <1>2, <1>7, <1>8, <1>9

\* There is no frame to read.
LEMMA PullNothingFits == ASSUME DecodeInv, PullNothing PROVE DecodeInv'
<1> DEFINE S == Begin(dcStart)
           F == FirstFrame(dcStart)
           L == LastFrame(dcStart)
           P == PastTheEnd(dcStart)
           c == dcConv.current
<1>1. /\ dcPhase \in {"drop", "current", "next", "more"} /\ ~(dcSource.from <= dcSource.to)
      /\ dcSource.remaining = 0 \/ (dcSource.packet \in DOMAIN dcFile.packets => dcFile.packets[dcSource.packet].kind = "fault")
      /\ UNCHANGED <<dcFile, dcRate>>
  BY DEF PullNothing, Reading, Buffered, AtEnd
<1>2. \/ /\ dcPhase = "drop" /\ dcPhase' = "current"
         /\ UNCHANGED <<dcSource, dcConv, dcStart, dcOut, dcKept>>
      \/ /\ dcPhase = "current" /\ dcKept # <<>>
         /\ dcSource' = dcKept[1] /\ dcConv' = dcKept[2] /\ dcPhase' = dcKept[3]
         /\ dcStart' = dcKept[4] /\ dcOut' = dcKept[5] /\ dcKept' = <<>>
      \/ dcPhase' = "refused"
      \/ /\ dcPhase \in {"next", "more"}
         /\ Settle([dcConv EXCEPT !.next = dcConv.current, !.exhausted = TRUE])
         /\ UNCHANGED <<dcSource, dcDrop, dcStart, dcOut, dcKept>>
  BY DEF PullNothing
<1>3. /\ FileNumbers /\ Scannable(dcFile) /\ dcRate \in DcRates /\ Keeps(dcKept) /\ SourceFits(dcSource, dcStart)
      /\ Drops(dcSource, dcPhase, dcDrop, dcStart, dcOut)
      /\ PlayerFits(dcSource, dcConv, dcPhase, dcStart, dcOut)
  BY <1>1, PlayerIs
<1>4. NextOf(dcSource, dcStart) = P
  BY <1>1, <1>3, EndedFits
<1>5. /\ dcStart.drop \in Nat /\ dcOut \in Nat /\ dcConv \in DcConvs
      /\ F \in Nat \ {0} /\ L \in Nat /\ P = Greater(F, L + 1) /\ S = F + dcStart.drop
      /\ From \in Nat \ {0} /\ To \in Nat \ {0}
  BY <1>3, RatesAre, StartIs DEF PlayerFits, StartNumbers, SourceFits, Begin
<1> HIDE DEF S, F, L, P
<1>6. S \in Nat /\ c \in Nat /\ P \in Nat /\ P >= L + 1
  BY <1>5 DEF DcConvs, Greater
<1>7. ASSUME dcPhase = "drop", dcPhase' = "current", UNCHANGED <<dcSource, dcConv, dcStart, dcOut, dcKept>>
      PROVE  DecodeInv'
  <2>1. dcDrop \in Nat \ {0} /\ dcOut = 0 /\ P = Lesser(S - dcDrop, P)
    BY <1>3, <1>4, <1>7, Zenon DEF Drops, S, L, P
  <2>2. P = Lesser(S, P)
    BY <1>6, <2>1 DEF Lesser
  <2>3. PlayerFits(dcSource', dcConv', dcPhase', dcStart', dcOut')
    BY <1>3, <1>4, <1>5, <1>7, <2>1, <2>2 DEF PlayerFits, S, L, P
  <2>4. Drops(dcSource', dcPhase', dcDrop', dcStart', dcOut') /\ dcPhase' \in DcPhases
    BY <1>7 DEF Drops, DcPhases
  <2> QED BY <1>1, <1>3, <1>7, <2>3, <2>4, InvNext
<1>8. ASSUME dcPhase = "current", dcKept # <<>>,
             dcSource' = dcKept[1], dcConv' = dcKept[2], dcPhase' = dcKept[3],
             dcStart' = dcKept[4], dcOut' = dcKept[5], dcKept' = <<>>
      PROVE  DecodeInv'
  <2>1. dcPhase' \in {"emit", "done"} /\ PlayerFits(dcSource', dcConv', dcPhase', dcStart', dcOut')
    BY <1>3, <1>8 DEF Keeps
  <2>2. Keeps(dcKept')
    BY <1>8 DEF Keeps
  <2>3. Drops(dcSource', dcPhase', dcDrop', dcStart', dcOut') /\ dcPhase' \in DcPhases
    BY <2>1 DEF Drops, DcPhases
  <2> QED BY <1>1, <1>8, <2>1, <2>2, <2>3, InvNext
<1>9. ASSUME dcPhase' = "refused" PROVE DecodeInv'
  BY <1>1, <1>9, InvNext DEF DcPhases
<1>10. ASSUME dcPhase \in {"next", "more"}, UNCHANGED <<dcSource, dcStart, dcOut, dcKept>>,
              Settle([dcConv EXCEPT !.next = dcConv.current, !.exhausted = TRUE])
       PROVE  DecodeInv'
  <2> DEFINE conv == [dcConv EXCEPT !.next = dcConv.current, !.exhausted = TRUE]
  <2>1. /\ conv \in DcConvs /\ conv.current = c /\ conv.next = c /\ conv.frac = dcConv.frac
        /\ conv.exhausted
    BY <1>5 DEF DcConvs
  <2> HIDE DEF conv
  <2>2. /\ S <= c /\ c <= L /\ P = c + 1 /\ dcConv.frac < From /\ dcConv.frac \in Nat
        /\ (c - S) * To + dcConv.frac = dcOut * From
    <3>1. CASE dcPhase = "next"
      <4>1. dcOut = 0 /\ S <= L /\ dcConv = [NoConv EXCEPT !.current = S] /\ P = S + 1
        BY <1>3, <1>4, <3>1 DEF PlayerFits, S, L, P
      <4>2. c = S /\ dcConv.frac = 0
        BY <4>1 DEF NoConv
      <4>3. c - S = 0 /\ 0 * To + 0 = 0 /\ 0 * From = 0
        BY <1>5, <1>6, <4>2
      <4>4. (c - S) * To + dcConv.frac = dcOut * From
        BY <4>1, <4>2, <4>3, Zenon
      <4>5. S <= c /\ dcConv.frac < From /\ dcConv.frac \in Nat
        BY <1>5, <1>6, <4>2
      <4> QED BY <4>1, <4>2, <4>4, <4>5, <1>5, <1>6
    <3>2. CASE dcPhase = "more"
      BY <1>3, <1>4, <1>5, <3>2 DEF PlayerFits, Balanced, DcConvs, S, L, P
    <3> QED BY <1>10, <3>1, <3>2
  <2> HIDE DEF S, c
  <2>9. c \in Nat /\ L \in Nat /\ P = c + 1 /\ P >= L + 1 /\ c <= L
    BY <1>5, <1>6, <2>2
  <2>3. c = L /\ c = Lesser(c + 1, L)
    BY <2>9 DEF Lesser
  <2>4. P = Lesser(c + 2, P)
    BY <2>9 DEF Lesser
  <2>5. dcConv.frac < From + To
    BY <1>5, <2>2
  <2> HIDE DEF S, c
  <2>6. Settling(dcSource, conv, dcStart, dcOut)
    BY <1>3, <1>4, <1>5, <2>1, <2>2, <2>3, <2>4, <2>5 DEF Settling, Balanced, S, L, P
  <2>7. Settling(dcSource', conv, dcStart', dcOut') /\ Keeps(dcKept') /\ dcPhase # "refused"
    BY <1>1, <1>3, <1>10, <2>6
  <2>8. Settle(conv)
    BY <1>10 DEF conv
  <2> QED BY <1>1, <2>7, <2>8, SettleGoesOn
<1> QED BY <1>2, <1>7, <1>8, <1>9, <1>10

\* What a file that is opened gives is bounded by what its last page states.
Playable == IF dcFile.kind = "ogg" THEN dcFile.granule - dcFile.skip ELSE DcPackets * DcFrames
LEMMA OpenedIs ==
  /\ Opened(dcFile) = Reader(1, dcFile.skip, Playable)
  /\ \A i, skip : [Opened(dcFile) EXCEPT !.packet = i, !.skip = skip] = Reader(i, skip, Playable)
<1>1. Opened(dcFile) = Reader(1, dcFile.skip, Playable)
  BY DEF Opened, Playable
<1> HIDE DEF Playable
<1>2. ASSUME NEW i, NEW skip
      PROVE  [Reader(1, dcFile.skip, Playable) EXCEPT !.packet = i, !.skip = skip] = Reader(i, skip, Playable)
  <2> DEFINE r == Reader(1, dcFile.skip, Playable)
             s == [r EXCEPT !.packet = i]
  <2>1. r = [packet |-> 1, skip |-> dcFile.skip, remaining |-> Playable, from |-> 1, to |-> 0]
    BY DEF Reader
  <2>2. s = [packet |-> i, skip |-> dcFile.skip, remaining |-> Playable, from |-> 1, to |-> 0]
    BY <2>1
  <2> HIDE DEF s
  <2>3. [s EXCEPT !.skip = skip] = [packet |-> i, skip |-> skip, remaining |-> Playable, from |-> 1, to |-> 0]
    BY <2>2
  <2> QED BY <2>3, Zenon DEF Reader, r, s
<1> QED BY <1>1, <1>2

\* Wherever a reader starts, the next frame is the first one that is heard from there.
LEMMA OpenedFits ==
  ASSUME FileNumbers, Scannable(dcFile), NEW start \in DcStarts, NEW skip, NEW source,
         source = Reader(start.packet, skip, Playable),
         skip = IF start.cuts THEN dcFile.skip ELSE 0,
         dcFile.kind = "ogg" => start.packet = 1 /\ start.cuts
  PROVE  SourceFits(source, start) /\ NextOf(source, start) = FirstFrame(start)
<1> DEFINE n == Len(dcFile.packets)
           bound == DcPackets * DcFrames
           p == start.packet
           b == Before(p)
           F == FirstFrame(start)
           L == LastFrame(start)
           rest == Playable
<1>1. /\ n \in Nat /\ bound \in Nat /\ Before(1) = 0 /\ Decoded \in Nat /\ Decoded <= bound
      /\ dcFile.skip \in Nat /\ dcFile.granule \in Nat /\ dcFile.kind \in {"ogg", "container"}
  BY DEF FileNumbers
<1>2. StartNumbers(start)
  BY StartIs
<1>3. p \in 1..n + 1 /\ b \in Nat /\ StopAt(start) \in p..n + 1 /\ CutAt(start) \in p..n + 1
  BY <1>2 DEF StartNumbers, FileNumbers
<1>4. F \in Nat /\ L \in Nat /\ F = b + CutFrom(start) + 1
  BY <1>2 DEF StartNumbers
<1>5. dcFile.kind = "ogg" => dcFile.skip <= dcFile.granule
  BY DelayIsBeforeTheEnd
<1>6. rest \in Nat /\ skip \in Nat
  BY <1>1, <1>5 DEF Playable
<1>7. source = [packet |-> p, skip |-> skip, remaining |-> rest, from |-> 1, to |-> 0]
  BY DEF Reader
<1> HIDE DEF bound, rest
<1>8. /\ source.packet = p /\ source.skip = skip /\ source.remaining = rest /\ source.from = 1 /\ source.to = 0
  BY <1>7
<1>9. source \in DcSources
  BY <1>3, <1>6, <1>7 DEF DcSources
<1>10. ASSUME dcFile.kind = "ogg" PROVE OggFits(source, start)
  <2>1. p = 1 /\ skip = dcFile.skip /\ rest = dcFile.granule - dcFile.skip
    BY <1>10 DEF rest, Playable
  <2>2. skip = Greater(0, dcFile.skip - 0) /\ rest = dcFile.granule - Greater(dcFile.skip, Lesser(0, dcFile.granule))
    BY <1>1, <1>5, <1>10, <2>1 DEF Greater, Lesser
  <2> QED BY <1>1, <1>8, <2>1, <2>2 DEF OggFits
<1>11. ASSUME dcFile.kind = "container" PROVE ContainerFits(source, start)
  <2>1. rest = bound
    BY <1>11 DEF rest, bound, Playable
  <2>2. rest >= Decoded - b
    BY <1>1, <1>3, <2>1
  <2>3. p <= CutAt(start) /\ ~(p > CutAt(start))
    BY <1>1, <1>3
  <2> QED BY <1>8, <2>2, <2>3 DEF ContainerFits
<1>12. p <= StopAt(start) /\ ~(1 <= 0)
  BY <1>1, <1>3
<1>13. SourceFits(source, start)
  BY <1>3, <1>8, <1>9, <1>10, <1>11, <1>12 DEF SourceFits
<1>14. NextOf(source, start) = Greater(F, Lesser(b, L) + 1)
  BY <1>8, <1>12 DEF NextOf
<1>15. CutFrom(start) \in Int /\ F >= b + 1
  <2>1. CutFrom(start) \in Nat
    <3>1. CutAt(start) <= n => Before(CutAt(start) + 1) - Before(CutAt(start)) \in Nat
      <4> SUFFICES ASSUME CutAt(start) <= n PROVE Before(CutAt(start) + 1) - Before(CutAt(start)) \in Nat
        OBVIOUS
      <4> DEFINE cut == CutAt(start)
      <4>1. cut \in 1..n + 1 /\ cut + 1 \in 1..n + 1 /\ cut <= cut + 1
        BY <1>1, <1>3
      <4> HIDE DEF cut
      <4>2. Before(cut) \in Nat /\ Before(cut + 1) \in Nat /\ Before(cut) <= Before(cut + 1)
        BY <4>1 DEF FileNumbers
      <4>3. Before(cut + 1) - Before(cut) \in Nat
        BY <4>2
      <4> QED BY <4>3 DEF cut
    <3>2. dcFile.kind = "ogg" => CutFrom(start) = dcFile.skip
      BY <1>2 DEF StartNumbers
    <3>3. dcFile.kind = "container" =>
            CutFrom(start) = IF start.cuts /\ CutAt(start) <= n
                             THEN Lesser(dcFile.skip, Before(CutAt(start) + 1) - Before(CutAt(start))) ELSE 0
      BY <1>2 DEF StartNumbers
    <3> QED BY <1>1, <3>1, <3>2, <3>3 DEF Lesser
  <2> HIDE DEF F, b
  <2> QED BY <1>3, <1>4, <2>1
<1> HIDE DEF F, L, b
<1>16. Greater(F, Lesser(b, L) + 1) = F
  BY <1>3, <1>4, <1>15 DEF Greater, Lesser
<1> QED BY <1>13, <1>14, <1>16 DEF F

\* The first frame is the one where a player begins that has nothing to drop.
LEMMA BeginsFits ==
  ASSUME FileNumbers, NEW start \in DcStarts, start.drop = 0
  PROVE  FirstFrame(start) = Lesser(Begin(start), PastTheEnd(start))
<1>1. /\ FirstFrame(start) \in Nat \ {0} /\ LastFrame(start) \in Nat
      /\ PastTheEnd(start) = Greater(FirstFrame(start), LastFrame(start) + 1)
  BY StartIs DEF StartNumbers
<1> QED BY <1>1 DEF Begin, Greater, Lesser

\* A seek.
LEMMA SeekFits == ASSUME DecodeInv, DcSeek PROVE DecodeInv'
<1> DEFINE start == dcStart'
<1>1. /\ dcPhase \in {"emit", "done"} /\ dcKept' = dcPlayer /\ UNCHANGED <<dcFile, dcRate>>
      /\ dcConv' = NoConv /\ dcOut' = 0
  BY DEF DcSeek
<1>2. /\ FileNumbers /\ Scannable(dcFile)
      /\ PlayerFits(dcSource, dcConv, dcPhase, dcStart, dcOut)
  BY <1>1, PlayerIs
<1>3. Len(dcFile.packets) \in Nat /\ DOMAIN dcFile.packets = 1..Len(dcFile.packets)
  BY <1>2 DEF FileNumbers
<1>4. PICK frame \in 0..Decoded :
        \/ /\ dcFile.kind = "ogg"
           /\ dcSource' = Opened(dcFile)
           /\ start = ReadFrom(1, TRUE, frame) /\ dcDrop' = frame
           /\ dcPhase' = IF frame = 0 THEN "current" ELSE "drop"
        \/ /\ dcFile.kind = "container"
           /\ \E i \in Landings(frame), toStart \in BOOLEAN :
                /\ dcSource' = [Opened(dcFile) EXCEPT !.packet = i, !.skip = ResetSkip(toStart)]
                /\ start = ReadFrom(i, toStart, 0)
           /\ dcDrop' = 0 /\ dcPhase' = "current"
  BY DEF DcSeek
<1> HIDE DEF start
<1>5. Keeps(dcKept')
  BY <1>1, <1>2 DEF Keeps, dcPlayer
<1>6. NoConv \in DcConvs /\ frame \in Nat
  BY <1>2 DEF NoConv, DcConvs, FileNumbers
<1>7. ASSUME dcFile.kind = "ogg", dcSource' = Opened(dcFile), start = ReadFrom(1, TRUE, frame), dcDrop' = frame,
             dcPhase' = IF frame = 0 THEN "current" ELSE "drop"
      PROVE  DecodeInv'
  <2>1. start \in DcStarts /\ start.packet = 1 /\ start.cuts = TRUE /\ start.drop = frame
    <3>1. 1 \in 1..Len(dcFile.packets) + 1
      BY <1>3
    <3> QED BY <1>6, <1>7, <3>1 DEF ReadFrom, DcStarts
  <2>2. dcSource' = Reader(start.packet, dcFile.skip, Playable)
    BY <1>7, <2>1, OpenedIs
  <2>3. SourceFits(dcSource', start) /\ NextOf(dcSource', start) = FirstFrame(start)
    BY <1>2, <2>1, <2>2, OpenedFits
  <2> DEFINE F == FirstFrame(start)
             P == PastTheEnd(start)
  <2>4. F \in Nat \ {0} /\ P = Greater(F, LastFrame(start) + 1) /\ LastFrame(start) \in Nat
    BY <1>2, <2>1, StartIs DEF StartNumbers
  <2>5. Begin(start) = F + frame
    BY <2>1 DEF Begin
  <2> HIDE DEF F, P
  <2>6. F = Lesser((F + frame) - frame, P)
    <3>1. F <= P
      BY <2>4 DEF Greater
    <3> QED BY <1>6, <2>4, <3>1 DEF Lesser, Greater
  <2>7. dcPhase' = "current" => F = Lesser(F + frame, P)
    <3>1. dcPhase' = "current" => frame = 0
      BY <1>7
    <3>2. F + 0 = F /\ (F + 0) - 0 = F
      BY <2>4
    <3> QED BY <2>6, <3>1, <3>2
  <2>8. PlayerFits(dcSource', dcConv', dcPhase', start, dcOut')
    BY <1>1, <1>6, <1>7, <2>3, <2>5, <2>7 DEF PlayerFits, F, P
  <2>9. dcPhase' = "drop" => frame \in Nat \ {0} /\ frame <= frame
    BY <1>6, <1>7
  <2>10. Drops(dcSource', dcPhase', dcDrop', start, dcOut')
    BY <1>1, <1>7, <2>1, <2>3, <2>5, <2>6, <2>9 DEF Drops, F, P
  <2>11. dcPhase' \in DcPhases
    BY <1>7 DEF DcPhases
  <2> QED BY <1>1, <1>5, <2>8, <2>10, <2>11, InvNext DEF start
<1>8. ASSUME dcFile.kind = "container", NEW i \in Landings(frame), NEW toStart \in BOOLEAN,
             dcSource' = [Opened(dcFile) EXCEPT !.packet = i, !.skip = ResetSkip(toStart)],
             start = ReadFrom(i, toStart, 0), dcDrop' = 0, dcPhase' = "current"
      PROVE  DecodeInv'
  <2>1. start \in DcStarts /\ start.packet = i /\ start.cuts = toStart /\ start.drop = 0
    <3>1. i \in 1..Len(dcFile.packets) + 1
      BY <1>3 DEF Landings
    <3> QED BY <1>8, <3>1 DEF ReadFrom, DcStarts
  <2>2. PICK skip : skip = ResetSkip(toStart)
    OBVIOUS
  <2>3. skip = IF start.cuts THEN dcFile.skip ELSE 0
    BY <2>1, <2>2 DEF ResetSkip
  <2>4. dcSource' = Reader(start.packet, skip, Playable)
    BY <1>8, <2>1, <2>2, OpenedIs
  <2>5. SourceFits(dcSource', start) /\ NextOf(dcSource', start) = FirstFrame(start)
    BY <1>2, <1>8, <2>1, <2>3, <2>4, OpenedFits
  <2>6. NextOf(dcSource', start) = Lesser(Begin(start), PastTheEnd(start))
    BY <1>2, <2>1, <2>5, BeginsFits
  <2>7. PlayerFits(dcSource', dcConv', dcPhase', start, dcOut')
    BY <1>1, <1>6, <1>8, <2>5, <2>6 DEF PlayerFits
  <2>8. Drops(dcSource', dcPhase', dcDrop', start, dcOut') /\ dcPhase' \in DcPhases
    BY <1>8 DEF Drops, DcPhases
  <2> QED BY <1>1, <1>5, <2>7, <2>8, InvNext DEF start
<1> QED BY <1>4, <1>7, <1>8

\* The invariant holds of a file that was opened.
LEMMA DecodeStart == DcInit => DecodeInv
<1> SUFFICES ASSUME DcInit PROVE DecodeInv
  OBVIOUS
<1>1. /\ dcFile \in Files /\ dcRate \in DcRates /\ dcConv = NoConv /\ dcStart = ReadFrom(1, TRUE, 0)
      /\ dcOut = 0 /\ dcKept = <<>>
      /\ dcPhase = "refused" \/ (Scannable(dcFile) /\ dcSource = Opened(dcFile) /\ dcPhase = "current")
  BY DEF DcInit
<1>2. CASE dcPhase = "refused"
  BY <1>1, <1>2 DEF DecodeInv, DcPhases
<1>3. CASE Scannable(dcFile) /\ dcSource = Opened(dcFile) /\ dcPhase = "current"
  <2>1. FileNumbers
    BY <1>1, FileIs
  <2>2. dcStart \in DcStarts /\ dcStart.packet = 1 /\ dcStart.cuts = TRUE /\ dcStart.drop = 0
    <3>1. 1 \in 1..Len(dcFile.packets) + 1
      BY <2>1 DEF FileNumbers
    <3> QED BY <1>1, <3>1 DEF ReadFrom, DcStarts
  <2>3. dcSource = Reader(dcStart.packet, dcFile.skip, Playable)
    BY <1>3, <2>2, OpenedIs
  <2>4. SourceFits(dcSource, dcStart) /\ NextOf(dcSource, dcStart) = FirstFrame(dcStart)
    BY <1>3, <2>1, <2>2, <2>3, OpenedFits
  <2>5. NextOf(dcSource, dcStart) = Lesser(Begin(dcStart), PastTheEnd(dcStart))
    BY <2>1, <2>2, <2>4, BeginsFits
  <2>6. NoConv \in DcConvs
    BY DEF NoConv, DcConvs
  <2>7. PlayerFits(dcSource, dcConv, dcPhase, dcStart, dcOut)
    BY <1>1, <1>3, <2>4, <2>5, <2>6 DEF PlayerFits
  <2>8. Drops(dcSource, dcPhase, dcDrop, dcStart, dcOut) /\ Keeps(dcKept) /\ dcPhase \in DcPhases
    BY <1>1, <1>3 DEF Drops, Keeps, DcPhases
  <2> QED BY <1>1, <1>3, <2>7, <2>8 DEF DecodeInv
<1> QED BY <1>1, <1>2, <1>3

\* Every step keeps it.
LEMMA DecodeStep == DecodeInv /\ [DcNext]_dcVars => DecodeInv'
<1> SUFFICES ASSUME DecodeInv, [DcNext]_dcVars PROVE DecodeInv'
  OBVIOUS
<1>1. CASE UNCHANGED dcVars
  <2>1. /\ UNCHANGED <<dcFile, dcRate, dcSource, dcConv, dcPhase, dcStart, dcOut, dcDrop, dcKept>>
    BY <1>1 DEF dcVars, dcPlayer
  <2>2. CASE dcPhase = "refused"
    BY <2>1, <2>2 DEF DecodeInv
  <2>3. CASE dcPhase # "refused"
    BY <2>1, <2>3, InvNext DEF DecodeInv
  <2> QED BY <2>2, <2>3
<1> QED BY <1>1, DecodeFits, PullFits, PullNothingFits, EmitFits, SeekFits DEF DcNext

\* A player that fits gives exact frames.
LEMMA FitIsExact == DecodeInv => FramesAreExact
<1> SUFFICES ASSUME DecodeInv, dcPhase # "refused" PROVE FramesAreExact
  BY DEF FramesAreExact
<1>1. FileNumbers /\ dcRate \in DcRates /\ PlayerFits(dcSource, dcConv, dcPhase, dcStart, dcOut)
  BY PlayerIs
<1>2. dcPhase = "done" => dcOut = ((LastFrame(dcStart) - FirstFrame(dcStart) + 1 - dcStart.drop) * To + From - 1) \div From
  BY <1>1 DEF PlayerFits
<1>3. ASSUME dcPhase = "emit"
      PROVE  LET at == FirstFrame(dcStart) + dcStart.drop + (dcOut * From) \div To
             IN dcConv = [current |-> at, next |-> Lesser(at + 1, LastFrame(dcStart)), frac |-> (dcOut * From) % To,
                          exhausted |-> at = LastFrame(dcStart)]
  <2> DEFINE S == Begin(dcStart)
             L == LastFrame(dcStart)
             c == dcConv.current
             q == c - S
             a == dcOut * From
  <2>1. /\ dcConv \in DcConvs /\ SourceFits(dcSource, dcStart) /\ dcOut \in Nat
        /\ S <= c /\ dcConv.next = Lesser(c + 1, L)
        /\ (dcConv.exhausted <=> c = L) /\ dcConv.frac < To /\ q * To + dcConv.frac = a
    BY <1>1, <1>3 DEF PlayerFits, Balanced
  <2>2. From \in Nat \ {0} /\ To \in Nat \ {0} /\ S \in Nat /\ c \in Nat /\ dcConv.frac \in 0 .. To - 1
    <3>1. StartNumbers(dcStart)
      BY <1>1, <2>1, StartIs DEF SourceFits
    <3>2. S \in Nat
      BY <3>1 DEF StartNumbers, Begin
    <3> QED BY <1>1, <2>1, <3>2, RatesAre DEF DcConvs
  <2>3. q \in Nat /\ S \in Nat /\ a \in Nat /\ S + q = c
    BY <2>1, <2>2
  <2> HIDE DEF q, a
  <2>4. a \div To = q /\ a % To = dcConv.frac
    BY <2>1, <2>2, <2>3, DivisionIs
  <2>5. dcConv = [current |-> c, next |-> Lesser(c + 1, L), frac |-> dcConv.frac, exhausted |-> c = L]
    <3>1. dcConv = [current |-> dcConv.current, next |-> dcConv.next, frac |-> dcConv.frac, exhausted |-> dcConv.exhausted]
      BY <2>1 DEF DcConvs
    <3>2. dcConv.exhausted = (c = L)
      BY <2>1 DEF DcConvs
    <3> QED BY <2>1, <3>1, <3>2
  <2>6. FirstFrame(dcStart) + dcStart.drop + (dcOut * From) \div To = c
    BY <2>3, <2>4 DEF a, Begin
  <2>7. (dcOut * From) % To = dcConv.frac
    BY <2>4 DEF a
  <2> QED BY <2>5, <2>6, <2>7, Zenon
<1> QED BY <1>2, <1>3 DEF FramesAreExact

\* For files of any number of packets and frames, any two rates and any number of
\* seeks: every output lies where the rates put it between the first and the last
\* frame that are heard from where reading began, and the sound ends with that last
\* one. What is heard starts behind the delay that the code cuts (CutFrom), and ends
\* at an error that the code does not pass over (LastFrame).
THEOREM EveryFrameIsExact == DcSpec => []FramesAreExact
<1> QED BY DecodeStart, DecodeStep, FitIsExact, PTL DEF DcSpec
=============================================================================
