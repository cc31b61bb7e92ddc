---------------------------- MODULE CaptureRouting ----------------------------
(***************************************************************************)
(* Microphone passthrough in the PipeWire engine: which source its capture *)
(* stream is connected to while microphones come and go, the session       *)
(* manager links, streams fail, and the user changes the settings.         *)
(*                                                                         *)
(* The engine sees the graph through registry events, which arrive in      *)
(* order, one call of the loop each; a timer runs the watchdog.  Between   *)
(* an event and its arrival the engine's tables are behind the graph.      *)
(* Sources have distinct names: no node appears under the name of another  *)
(* that is still there.                                                    *)
(***************************************************************************)
EXTENDS Naturals, Sequences

CONSTANTS
  CrNames,    \* node names of the sources that can be selected
  CrRank,     \* their order in auto_detect_rank, 0 if not eligible
  CrAuto,     \* model value: the user selected no source
  CrNobody,   \* model value: no capture stream, no target
  CrMaxIds,   \* bound: objects that ever appear in the graph
  CrMaxEdits, \* bound: settings changed by the user
  CrMaxFaults,\* bound: streams that cannot be created, or fail, and links removed
  CrMaxBehind \* bound: events under way when the graph changes by itself

CrStreams == [node : Nat, failed : BOOLEAN]

ASSUME CaptureAssumption ==
  /\ CrRank \in [CrNames -> Nat]
  /\ \A m, n \in CrNames : CrRank[m] = CrRank[n] /\ CrRank[m] > 0 => m = n
  /\ {CrAuto, CrNobody} \cap CrNames = {} /\ CrNobody \notin CrStreams
  /\ {CrMaxIds, CrMaxEdits, CrMaxFaults, CrMaxBehind} \subseteq Nat

VARIABLES
  crGraph,   \* the graph: sources, capture nodes, and links between them
  crEvents,  \* registry events on their way to the engine
  crOn,      \* runtime.mic_passthrough
  crSource,  \* runtime.mic_source
  crStream,  \* backend.capture_stream: its node, and whether it has failed
  crTarget,  \* active_capture_target
  crNode,    \* capture_node_id, 0 if none
  crSources, \* sources
  crLinks,   \* links
  crMiss,    \* capture_health_miss_ticks
  crLate,    \* history: ticks in a row that left the wanted microphone uncaptured
  crIds, crEdits, crFaults

crSettings == <<crOn, crSource>>
crCapture == <<crStream, crTarget, crNode>>
crTables == <<crSources, crLinks>>
crVars == <<crGraph, crEvents, crSettings, crCapture, crTables, crMiss, crLate, crIds, crEdits, crFaults>>

Threshold == 2 \* CAPTURE_RECREATE_MISS_THRESHOLD

CrInit ==
  /\ crGraph = {} /\ crEvents = <<>>
  /\ crOn \in BOOLEAN /\ crSource = CrAuto
  /\ crStream = CrNobody /\ crTarget = CrNobody /\ crNode = 0
  /\ crSources = {} /\ crLinks = {}
  /\ crMiss = 0 /\ crLate = 0
  /\ crIds = 0 /\ crEdits = 0 /\ crFaults = 0

(***************************************************************************)
(* The graph.  A node that goes takes its links with it, which go first.   *)
(***************************************************************************)

Node(kind, id, name) == [kind |-> kind, id |-> id, name |-> name]
Link(from, to) == [kind |-> "link", from |-> from, to |-> to]

Objects(objects, kind) == {o \in objects : o.kind = kind}
LinksOf(node) == {l \in Objects(crGraph, "link") : node.id \in {l.from, l.to}}

Event(op, object) == [op |-> op, object |-> object]
\* At most one link joins a source and the capture node.
Removal(node) ==
  IF LinksOf(node) = {} THEN <<Event("remove", node)>>
  ELSE <<Event("remove", CHOOSE l \in LinksOf(node) : TRUE), Event("remove", node)>>
NextId == crIds + 1

(***************************************************************************)
(* The stream.                                                             *)
(***************************************************************************)

Named(sources, name) == {s \in sources : s.name = name}
\* best_upstream_mic_source_name
Best(sources) ==
  LET eligible == {s \in sources : CrRank[s.name] > 0}
  IN IF eligible = {} THEN CrNobody
     ELSE (CHOOSE s \in eligible : \A t \in eligible : CrRank[t.name] <= CrRank[s.name]).name
\* Faulty variant: without the selected source, the best one is taken.
ResolveOrBest(sources, source) ==
  IF Named(sources, source) # {} THEN source ELSE Best(sources)
\* resolve_capture_target; an eligible default is never better than the best.
Resolve(sources, source) ==
  IF source = CrAuto THEN Best(sources)
  ELSE IF Named(sources, source) # {} THEN source ELSE CrNobody

\* recreate_capture_stream, with the events that have not arrived.
Recreate(events, sources, on, source) ==
  LET old == {n \in Objects(crGraph, "capture") : crStream # CrNobody /\ n.id = crStream.node}
      gone == old \cup UNION {LinksOf(n) : n \in old}
      left == IF old = {} THEN events ELSE events \o Removal(CHOOSE n \in old : TRUE)
      target == Resolve(sources, source)
      new == Node("capture", NextId, target)
      wanted == on /\ target # CrNobody
  IN /\ crMiss' = 0 /\ crNode' = 0
     /\ \/ /\ wanted /\ crIds < CrMaxIds
           /\ crIds' = NextId
           /\ crStream' = [node |-> new.id, failed |-> FALSE] /\ crTarget' = target
           /\ crGraph' = (crGraph \ gone) \cup {new}
           /\ crEvents' = Append(left, Event("add", new))
           /\ UNCHANGED crFaults
        \/ /\ ~wanted \/ crFaults < CrMaxFaults
           /\ crFaults' = IF wanted THEN crFaults + 1 ELSE crFaults
           /\ crStream' = CrNobody /\ crTarget' = CrNobody
           /\ crGraph' = crGraph \ gone
           /\ crEvents' = left
           /\ UNCHANGED crIds

Keep(events, miss) ==
  /\ crEvents' = events /\ crMiss' = miss
  /\ UNCHANGED <<crGraph, crCapture, crIds, crFaults>>

\* pipewire_capture_link_healthy; it looks at any source of the name.
StreamHeard(sources, links) ==
  /\ crStream # CrNobody /\ ~crStream.failed
  /\ Named(sources, crTarget) # {}
  /\ LET node == IF crNode # 0 THEN crNode ELSE crStream.node
     IN \A s \in Named(sources, crTarget) : Link(s.id, node) \in links

\* active_capture_target_if_available
Expected(sources) ==
  LET target == Resolve(sources, crSource)
  IN IF target = CrNobody /\ Named(sources, crTarget) # {} THEN crTarget ELSE target

\* Faulty variant: only a stream that failed is replaced.
UnfitOnlyFailed(sources) == crStream.failed
\* A stream on the wrong source, or one that failed.
Unfit(sources) == crTarget # Expected(sources) \/ crStream.failed

\* ensure_capture_stream_present
EnsureCapture(events, sources, links) ==
  LET expected == Expected(sources)
  IN \/ ~crOn /\ Keep(events, 0)
     \/ /\ crOn /\ crStream = CrNobody
        /\ IF expected # CrNobody THEN Recreate(events, sources, crOn, crSource) ELSE Keep(events, crMiss)
     \/ /\ crOn /\ crStream # CrNobody
        /\ IF crTarget = expected /\ StreamHeard(sources, links) THEN Keep(events, 0)
           ELSE IF ~Unfit(sources) THEN Keep(events, crMiss)
           ELSE IF crMiss + 1 < Threshold THEN Keep(events, crMiss + 1)
           ELSE Recreate(events, sources, crOn, crSource)

(***************************************************************************)
(* The engine's loop.                                                      *)
(***************************************************************************)

\* Is the wanted microphone there and the stream not on it?  (primed: after
\* the step)
Late(sources, on, source, stream, target) ==
  LET wanted == Resolve(sources, source)
  IN on /\ wanted # CrNobody /\ (stream = CrNobody \/ target # wanted \/ stream.failed)
Counts(ticks) ==
  crLate' = IF crFaults' # crFaults \/ ~Late(crSources', crOn', crSource', crStream', crTarget')
            THEN 0 ELSE crLate + ticks

\* handle_registry_global and handle_registry_remove; a source's removal
\* replaces the stream only if it is the stream's.
Arrives(op, object, events) ==
  \/ /\ op = "add" /\ object.kind = "source"
     /\ crSources' = crSources \cup {object}
     /\ EnsureCapture(events, crSources', crLinks)
     /\ UNCHANGED crLinks
  \/ /\ op = "remove" /\ object.kind = "source"
     /\ crSources' = crSources \ {object}
     /\ IF crOn /\ object.name = crTarget THEN Recreate(events, crSources', crOn, crSource)
        ELSE Keep(events, crMiss)
     /\ UNCHANGED crLinks
  \/ /\ object.kind = "capture"
     /\ crNode' = IF op = "add" THEN object.id ELSE IF crNode = object.id THEN 0 ELSE crNode
     /\ crEvents' = events
     /\ UNCHANGED <<crGraph, crStream, crTarget, crMiss, crTables, crIds, crFaults>>
  \/ /\ object.kind = "link"
     /\ crLinks' = IF op = "add" THEN crLinks \cup {object} ELSE crLinks \ {object}
     /\ Keep(events, crMiss)
     /\ UNCHANGED crSources

Receive ==
  /\ crEvents # <<>>
  /\ UNCHANGED <<crSettings, crEdits>>
  /\ Arrives(Head(crEvents).op, Head(crEvents).object, Tail(crEvents))
  /\ Counts(0)

\* graph_watchdog_timer
WatchdogTick ==
  /\ UNCHANGED <<crSettings, crTables, crEdits>>
  /\ EnsureCapture(crEvents, crSources, crLinks)
  /\ Counts(1)

\* SetMicPassthrough, SetMicSource and SetMicLatencyProfile.
Command ==
  /\ crEdits < CrMaxEdits /\ crEdits' = crEdits + 1
  /\ \/ crOn' \in BOOLEAN /\ UNCHANGED crSource
     \/ crSource' \in CrNames \cup {CrAuto} /\ UNCHANGED crOn
  /\ UNCHANGED crTables
  /\ Recreate(crEvents, crSources, crOn', crSource')
  /\ Counts(0)

(***************************************************************************)
(* PipeWire and the session manager.                                       *)
(***************************************************************************)

GraphActs ==
  /\ Len(crEvents) < CrMaxBehind
  /\ UNCHANGED <<crSettings, crTables, crTarget, crNode, crMiss, crEdits>>
  /\ Counts(0)

SourceAppears ==
  /\ crIds < CrMaxIds /\ crIds' = NextId
  /\ \E name \in CrNames :
       LET source == Node("source", NextId, name)
       IN /\ Named(Objects(crGraph, "source"), name) = {}
          /\ crGraph' = crGraph \cup {source}
          /\ crEvents' = Append(crEvents, Event("add", source))
  /\ UNCHANGED <<crStream, crFaults>> /\ GraphActs

SourceVanishes ==
  /\ \E source \in Objects(crGraph, "source") :
       /\ crGraph' = crGraph \ ({source} \cup LinksOf(source))
       /\ crEvents' = crEvents \o Removal(source)
  /\ UNCHANGED <<crStream, crIds, crFaults>> /\ GraphActs

\* The session manager joins the capture node and its target.
Links ==
  /\ \E node \in Objects(crGraph, "capture") : \E source \in Named(Objects(crGraph, "source"), node.name) :
       LET link == Link(source.id, node.id)
       IN /\ link \notin crGraph
          /\ crGraph' = crGraph \cup {link}
          /\ crEvents' = Append(crEvents, Event("add", link))
  /\ UNCHANGED <<crStream, crIds, crFaults>> /\ GraphActs

\* Someone removes a link.
Unlinks ==
  /\ crFaults < CrMaxFaults /\ crFaults' = crFaults + 1
  /\ \E link \in Objects(crGraph, "link") :
       crGraph' = crGraph \ {link} /\ crEvents' = Append(crEvents, Event("remove", link))
  /\ UNCHANGED <<crStream, crIds>> /\ GraphActs

\* state_changed tells the engine at once.
StreamFails ==
  /\ crFaults < CrMaxFaults /\ crFaults' = crFaults + 1
  /\ crStream # CrNobody /\ crStream' = [crStream EXCEPT !.failed = TRUE]
  /\ UNCHANGED <<crGraph, crEvents, crIds>> /\ GraphActs

CrNext ==
  \/ Receive \/ WatchdogTick \/ Command
  \/ SourceAppears \/ SourceVanishes \/ Links \/ Unlinks \/ StreamFails

CrSpec == CrInit /\ [][CrNext]_crVars

(***************************************************************************)
(* Properties.                                                             *)
(***************************************************************************)

CrObjects ==
  [kind : {"source", "capture"}, id : 1..CrMaxIds, name : CrNames]
    \cup [kind : {"link"}, from : 1..CrMaxIds, to : 1..CrMaxIds]

CaptureTypeOK ==
  /\ crGraph \subseteq CrObjects
  /\ crEvents \in Seq([op : {"add", "remove"}, object : CrObjects])
  /\ crOn \in BOOLEAN /\ crSource \in CrNames \cup {CrAuto}
  /\ crStream \in [node : 1..CrMaxIds, failed : BOOLEAN] \cup {CrNobody}
  /\ crTarget \in CrNames \cup {CrNobody} /\ crNode \in 0..CrMaxIds
  /\ crSources \subseteq CrObjects /\ crLinks \subseteq CrObjects
  /\ crMiss \in 0..1 /\ crLate \in Nat
  /\ crIds \in 0..CrMaxIds /\ crEdits \in 0..CrMaxEdits /\ crFaults \in 0..CrMaxFaults

\* A microphone the user did not select is not captured in place of the selected
\* one, however the sources, the stream and the settings change: "Do not silently
\* bypass the requested processor".
SelectedMicIsNotBypassed ==
  /\ crStream = CrNobody <=> crTarget = CrNobody
  /\ crStream # CrNobody => crOn /\ crSource \in {CrAuto, crTarget}

\* Once the engine has heard of everything, it takes the passthrough to be active
\* exactly if the stream is joined to its microphone: mix_tick only then passes
\* the microphone on.
SettledGraphIsHeard ==
  crEvents = <<>> /\ crStream # CrNobody /\ ~crStream.failed =>
    (StreamHeard(crSources, crLinks) <=> \E l \in Objects(crGraph, "link") : l.to = crStream.node)

\* A microphone that is wanted and known to the engine is left alone by one tick
\* of the watchdog at most, unless no stream could be created; and what is
\* captured is heard.
WantedMicIsCaptured == crLate <= 1 /\ SettledGraphIsHeard
===============================================================================
