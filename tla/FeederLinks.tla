------------------------------ MODULE FeederLinks ------------------------------
(***************************************************************************)
(* How the engine keeps its virtual microphone fed: a null sink that       *)
(* pactl loads is the microphone, a playback stream of the engine is the   *)
(* feeder, and the engine itself links their ports, channel by channel.    *)
(*                                                                         *)
(* The sink outlives an engine that is killed and may be unloaded by       *)
(* others.  Registry events arrive in order, one call of the loop each;    *)
(* what pactl lists is the graph as it is.  Whether the repair's delay and *)
(* cooldown have passed is left open.  A call of pactl that lists or       *)
(* unloads succeeds, and nobody else loads a sink of this name.            *)
(***************************************************************************)
EXTENDS Naturals, Sequences

CONSTANTS
  FlMaxIds,   \* bound: nodes that ever appear
  FlMaxFaults \* bound: sinks unloaded by others, links and loads that fail, engines killed

ASSUME FeederAssumption == {FlMaxIds, FlMaxFaults} \subseteq Nat

VARIABLES
  flMics,     \* null sinks of our name in the graph
  flFeeder,   \* the feeder's node in the graph, 0 if none
  flAlive,    \* links in the graph, by channel
  flEvents,   \* registry events on their way to the engine
  flRuns,     \* is there an engine?
  flModule,   \* _virtual_mic_module, 0 if none
  flFeederId, \* feeder_node_id
  flOut,      \* feeder_output_ports: the channels
  flMicId,    \* virtual_mic_node_id
  flIn,       \* virtual_mic_input_ports: the channels
  flLinks,    \* feeder_links: the channels
  flKnown,    \* sources: sinks of our name
  flMissing,  \* virtual_mic_missing_since
  flRefused,  \* history: channels whose link was refused when it was last tried
  flIds, flFaults

flEnds == <<flFeederId, flOut, flMicId, flIn>>
flMade == <<flLinks, flAlive, flRefused>>
flMic == <<flModule, flKnown, flMissing>>
flVars == <<flMics, flFeeder, flEvents, flRuns, flEnds, flMade, flMic, flIds, flFaults>>

Channels == {"left", "right"}

FlInit ==
  /\ flMics = {} /\ flFeeder = 0 /\ flAlive = {} /\ flEvents = <<>>
  /\ flRuns = FALSE /\ flModule = 0
  /\ flFeederId = 0 /\ flOut = {} /\ flMicId = 0 /\ flIn = {}
  /\ flLinks = {} /\ flKnown = {} /\ flMissing = FALSE /\ flRefused = {}
  /\ flIds = 0 /\ flFaults = 0

FlFault == flFaults < FlMaxFaults /\ flFaults' = flFaults + 1

(***************************************************************************)
(* Registry events: a node is announced before its ports; whether it goes  *)
(* before them is up to PipeWire.                                          *)
(***************************************************************************)

Notice(op, role, id, what) == <<[op |-> op, role |-> role, id |-> id, what |-> what]>>
Ports(op, role, id) == Notice(op, role, id, "left") \o Notice(op, role, id, "right")
Announced(role, id) == Notice("add", role, id, "node") \o Ports("add", role, id)
Withdrawn(role, id, nodeFirst) ==
  IF nodeFirst THEN Notice("remove", role, id, "node") \o Ports("remove", role, id)
  ELSE Ports("remove", role, id) \o Notice("remove", role, id, "node")
\* At most one sink at a time.
WithdrawnMics(nodeFirst) ==
  IF flMics = {} THEN <<>> ELSE Withdrawn("mic", CHOOSE m \in flMics : TRUE, nodeFirst)

(***************************************************************************)
(* Linking.                                                                *)
(***************************************************************************)

\* try_link_feeder_to_virtual_mic, with what the engine knows after the step.
TryLink(links, alive) ==
  LET due == IF flFeederId' = 0 \/ flMicId' = 0 THEN {} ELSE (flOut' \cap flIn') \ links
  IN \E refused \in SUBSET due :
       /\ IF refused = {} THEN UNCHANGED flFaults ELSE FlFault
       /\ flLinks' = links \cup (due \ refused)
       /\ flAlive' = IF flMicId' \in flMics /\ flFeeder # 0 THEN alive \cup (due \ refused) ELSE alive
       /\ flRefused' = (flRefused \ due) \cup refused

\* drop_feeder_links, and the links of one channel: the proxies destroy them.
Unlinked(channels) == /\ flLinks' = flLinks \ channels /\ flAlive' = flAlive \ channels
                      /\ UNCHANGED <<flRefused, flFaults>>
LinksKept == UNCHANGED <<flMade, flFaults>>

NodeAdded(e) ==
  /\ e.op = "add" /\ e.what = "node"
  /\ IF e.role = "feeder" THEN flFeederId' = e.id /\ UNCHANGED <<flMicId, flKnown, flMissing>>
     ELSE /\ flMicId' = e.id /\ flKnown' = flKnown \cup {e.id} /\ flMissing' = FALSE
          /\ UNCHANGED flFeederId
  /\ UNCHANGED <<flOut, flIn>>
  /\ TryLink(flLinks, flAlive)

\* Faulty variant: the feeder's ports are taken to be there first.
PortAddedToMic(e) ==
  /\ e.op = "add" /\ e.what \in Channels
  /\ flOut' = IF e.role = "feeder" /\ e.id = flFeederId THEN flOut \cup {e.what} ELSE flOut
  /\ flIn' = IF e.role = "mic" /\ e.id = flMicId THEN flIn \cup {e.what} ELSE flIn
  /\ UNCHANGED <<flFeederId, flMicId, flKnown, flMissing>>
  /\ IF flIn' # flIn THEN TryLink(flLinks, flAlive) ELSE LinksKept
PortAdded(e) ==
  /\ e.op = "add" /\ e.what \in Channels
  /\ flOut' = IF e.role = "feeder" /\ e.id = flFeederId THEN flOut \cup {e.what} ELSE flOut
  /\ flIn' = IF e.role = "mic" /\ e.id = flMicId THEN flIn \cup {e.what} ELSE flIn
  /\ UNCHANGED <<flFeederId, flMicId, flKnown, flMissing>>
  /\ IF <<flOut, flIn>>' # <<flOut, flIn>> THEN TryLink(flLinks, flAlive) ELSE LinksKept

NodeRemoved(e) ==
  /\ e.op = "remove" /\ e.what = "node"
  /\ flKnown' = flKnown \ {e.id}
  /\ IF e.role = "mic" /\ e.id = flMicId
     THEN flMicId' = 0 /\ flIn' = {} /\ Unlinked(Channels)
     ELSE UNCHANGED <<flMicId, flIn>> /\ LinksKept
  /\ UNCHANGED <<flFeederId, flOut, flMissing>>

\* Ports of a node that was replaced are unknown.
PortRemoved(e) ==
  /\ e.op = "remove" /\ e.what \in Channels
  /\ IF e.id = flMicId /\ e.what \in flIn THEN flIn' = flIn \ {e.what} /\ Unlinked({e.what})
     ELSE UNCHANGED flIn /\ LinksKept
  /\ UNCHANGED <<flFeederId, flOut, flMicId, flKnown, flMissing>>

FlReceive ==
  /\ flEvents # <<>> /\ flEvents' = Tail(flEvents)
  /\ LET e == Head(flEvents) IN NodeAdded(e) \/ PortAdded(e) \/ NodeRemoved(e) \/ PortRemoved(e)
  /\ UNCHANGED <<flMics, flFeeder, flRuns, flModule, flIds>>

(***************************************************************************)
(* Loading the sink.                                                       *)
(***************************************************************************)

\* Once the sinks but those that are kept have been unloaded.
LoadSink(kept, events) ==
  \/ /\ flIds < FlMaxIds /\ flIds' = flIds + 1
     /\ flModule' = flIds' /\ flMics' = kept \cup {flIds'}
     /\ flEvents' = events \o Announced("mic", flIds')
     /\ UNCHANGED flFaults
  \/ FlFault /\ flModule' = 0 /\ flMics' = kept /\ flEvents' = events /\ UNCHANGED flIds

\* NullSinkModule::load_or_attach, with the events before the load. It never
\* attaches: it unloads every sink of the name that pactl lists and loads a new
\* one. Where a list or an unload fails it goes on as if there were none
\* (virtual_mic_module.rs:28-38, 235-239); here they succeed.
LoadOrAttach(events) == LoadSink({}, events)

\* create_pipewire_backend: a sink that an engine left is or is not seen before it goes.
StartEngine ==
  /\ ~flRuns /\ flRuns' = TRUE
  /\ \E seen, nodeFirst \in BOOLEAN :
       LoadOrAttach(IF seen /\ flMics # {}
                    THEN Announced("mic", CHOOSE m \in flMics : TRUE) \o WithdrawnMics(nodeFirst)
                    ELSE <<>>)
  /\ flFeeder' = 0
  /\ UNCHANGED <<flEnds, flMade, flKnown, flMissing>>

\* The feeder stream is created next.
CreateFeeder ==
  /\ flRuns /\ flFeeder = 0 /\ flFeederId = 0
  /\ flIds < FlMaxIds /\ flIds' = flIds + 1
  /\ flFeeder' = flIds' /\ flEvents' = flEvents \o Announced("feeder", flIds')
  /\ UNCHANGED <<flMics, flRuns, flEnds, flMade, flMic, flFaults>>

Visible == flMicId # 0 \/ flKnown # {}
\* is_loaded and virtual_source_exists
PulseHasIt == flModule \in flMics

\* ensure_virtual_mic_present with reset_virtual_mic_graph_state, then nothing to link.
Repair ==
  /\ flRuns /\ ~Visible /\ flMissing /\ ~PulseHasIt
  /\ flMicId' = 0 /\ flIn' = {} /\ flKnown' = {}
  /\ flLinks' = {} /\ flAlive' = {}
  /\ \E nodeFirst \in BOOLEAN : LoadOrAttach(flEvents \o WithdrawnMics(nodeFirst))
  /\ UNCHANGED <<flFeeder, flRuns, flFeederId, flOut, flMissing, flRefused>>

\* graph_watchdog_timer, otherwise.
FlTick ==
  /\ flRuns
  /\ flMissing' = ~Visible
  /\ UNCHANGED <<flMics, flFeeder, flEvents, flRuns, flEnds, flModule, flKnown, flIds>>
  /\ TryLink(flLinks, flAlive)

EngineGone ==
  /\ flRuns /\ flRuns' = FALSE
  /\ flFeeder' = 0 /\ flAlive' = {} /\ flEvents' = <<>>
  /\ flFeederId' = 0 /\ flOut' = {} /\ flMicId' = 0 /\ flIn' = {} /\ flLinks' = {}
  /\ flModule' = 0 /\ flKnown' = {} /\ flMissing' = FALSE /\ flRefused' = {}
  /\ UNCHANGED flIds
\* AudioCommand::Shutdown and the module's drop.
ShutDown == EngineGone /\ flMics' = flMics \ {flModule} /\ UNCHANGED flFaults
EngineKilled == EngineGone /\ FlFault /\ UNCHANGED flMics

\* Someone unloads the sink, or pipewire-pulse restarts.
SinkUnloaded ==
  /\ flMics # {} /\ flMics' = {} /\ FlFault
  /\ flAlive' = {}
  /\ \E nodeFirst \in BOOLEAN :
       flEvents' = IF flRuns THEN flEvents \o WithdrawnMics(nodeFirst) ELSE flEvents
  /\ UNCHANGED <<flFeeder, flRuns, flEnds, flLinks, flRefused, flMic, flIds>>

FlNext ==
  \/ StartEngine \/ CreateFeeder \/ FlReceive \/ FlTick \/ Repair
  \/ ShutDown \/ EngineKilled \/ SinkUnloaded

FlSpec == FlInit /\ [][FlNext]_flVars

(***************************************************************************)
(* Properties.                                                             *)
(***************************************************************************)

FeederTypeOK ==
  /\ flMics \subseteq 1..FlMaxIds /\ flFeeder \in 0..FlMaxIds
  /\ flAlive \subseteq Channels /\ flRuns \in BOOLEAN
  /\ flEvents \in Seq([op : {"add", "remove"}, role : {"mic", "feeder"}, id : 1..FlMaxIds,
                       what : {"node"} \cup Channels])
  /\ {flModule, flFeederId, flMicId} \subseteq 0..FlMaxIds
  /\ flOut \subseteq Channels /\ flIn \subseteq Channels /\ flLinks \subseteq Channels
  /\ flKnown \subseteq 1..FlMaxIds /\ flMissing \in BOOLEAN /\ flRefused \subseteq Channels
  /\ flIds \in 0..FlMaxIds /\ flFaults \in 0..FlMaxFaults

\* An engine never adds its microphone beside one that an earlier engine left.
OneVirtualMic == flMics = {} \/ \E m \in flMics : flMics = {m}

\* Once the engine has heard of everything, a microphone and a feeder that exist
\* are linked on every channel whose link was not refused, whatever came and went
\* before: a link the engine still holds is never a dead one. And the microphone
\* is the only one of its name, also after an engine that was killed, as long as
\* the calls of pactl that list and unload succeed.
SettledMicIsFed ==
  /\ OneVirtualMic
  /\ flRuns /\ flEvents = <<>> /\ flMics # {} /\ flFeeder # 0 => Channels \ flRefused \subseteq flAlive
===============================================================================
