# Formal model of Linux Soundboard

TLA+ modules that model the concurrent core of Linux Soundboard (the Rust
program under `src/`), TLC configurations that check them on small instances,
and theorems about them that TLAPS checks for every value of the constants.
Paths below are relative to `src/src/app/` unless they start with `docs/`.

    tlc -workers 2 -config DefaultSource.cfg DefaultSource.tla
    tlc -workers 2 -config RootScan.cfg MCRootScan.tla
    tlapm WindowProofs.tla

`PROJECT.json` lists the components, the runs, the lines each definition
translates, the hazards and the theorems.

## 1. The system

Linux Soundboard plays sounds into a virtual microphone. It is a GTK program
with a library of sounds in SQLite, global hotkeys through an external daemon or
X11, and an audio engine that runs inside the program or as a process of its own.

| thread | runs | talks to |
| --- | --- | --- |
| GTK main loop | windows, the transport bar, answers of commands, snapshots | dispatches commands to UI workers |
| 4 UI workers | one command each (`commands/`), blocking on store and engine | library store, engine, hotkey projection |
| library worker | one SQLite connection, one request at a time (`library_store.rs`) | answers on a channel per request |
| engine loop | PipeWire events, commands, mixing (`audio/player/`) | spawns one `wpctl`/`pactl` thread at a time |
| snapshot poller | reads the engine every 100 ms (`audio/player/mod.rs`) when the engine is another process | queues snapshots for the GTK loop |
| analysis threads | one loudness analysis per coordinator | library store |

### Components: state, operations, what is hard, what makes them correct

**Default source ownership** (`audio/player/default_source.rs`,
`source_routing.rs`, `virtual_mic_module.rs`). State: the cached default name, the
claim, the source to give back, the in-flight flag of the command thread, the
bound metadata object. Operations: metadata and registry events, claim, reclaim,
mode change, restore, shutdown. Hard: WirePlumber may restart and replace the
metadata object; commands fail; the command thread runs beside the loop; a
shutdown races with a claim. Correct when one thread at most changes the default,
a claim that the engine relies on is real, and a shutdown gives the user's source
back.

**Hotkey projection** (`hotkeys/projection.rs`). State: counters of requested and
completed projections, the leader flag, the last error. Operation: `reconcile`.
Hard: a request that arrives while a projection runs. Correct when projections do
not overlap, every caller's answer covers its own edit and nobody waits forever.

**Transport and Continue mode** (`ui/transport/`, `ui_event_bridge.rs`,
`commands/playback/mod.rs`, `commands/shared.rs`; `Play` and `StopAll` in
`audio/player/command_handlers.rs`). State: the shown track, the cursor, the
suppressed play, two pending flags, the debounce; the engine's active playback;
queues in both directions. Operations: click, Next/Previous, Stop All, play mode,
snapshot, answer. Hard: snapshots are old when they are handled, a play is two
engine commands, plays fail, time out and arrive late. Correct when a playback is
continued at most once, Stop All stays stopped, a click wins, and Continue goes on.

**Library store: folder refresh** (`library_store.rs`, `commands/library.rs`,
`audio/scanner.rs`). State: roots with their active generation, the open scan of a
root, locations of sounds by generation, hotkey bindings; in the command, its
generations, its walk and its batch. Operations: begin, stage a batch, finish,
cancel, add and remove a folder. Hard: a refresh is many store requests; another
refresh, the user, a full queue or a crash come between any two. Correct when a
root lists one whole walk and a hotkey is lost only with its file.

**Folder tree and tabs** (`library_store.rs`, `commands/tabs.rs`,
`ui/tabs_sidebar.rs`). State: folder rows with an order of their own, preferences
(hidden, position), overrides (a sound included in or excluded from a folder),
manual tabs, tabs that an old version generated. Operations: hide, move, reorder,
combine, customise, and everything a published scan does to these rows. Hard: the
sidebar decides on what it shows while a refresh rewrites the rows; a scan deletes
what it did not find. Correct when a hidden folder stays hidden, one drop moves
one folder, combining moves all sounds or none, and no listed sound is lost.

**Library store: request lanes** (`library_store.rs` 555-680). Three bounded
queues in order of priority, searches that replace older ones. Hard: a full lane,
a superseded request whose caller waits, starvation of the last lane. Correct when
every accepted request is answered or superseded.

**Paged list model** (`ui/sound_list/paged_model.rs`). Pages asked for by
generation, deferred, evicted and answered out of order. Correct when the cache
keeps its limits, a row never shows a page of an older search, and a page on
screen is loading, loaded or failed.

**Hotkey commands and backends** (`commands/hotkeys.rs`, `hotkeys/`). A lookup, a
conflict check and a commit, three store requests, then a projection that reads
the bindings page by page, stages and commits them in the backend. Hard: two
commands between check and commit, an edit between two pages, a backend that
fails. Correct when a control's key is its own and the backend answers to the live
bindings and no others.

**Startup, migration and restore** (`bootstrap.rs`, `legacy_migration.rs`,
`config/persistence.rs`). Files on disk that move from one phase to the next:
backup, candidate database, published database, rewritten configuration; the
dialogs between them. Hard: a kill between any two, the old version saving
meanwhile, a restore cut short. Correct when nothing the user had is deleted, and
settings and library belong together.

**Loudness jobs** (`audio/analysis_worker.rs`, `commands/playback/loudness.rs`).
Backfill and refinement, each with a single-flight flag, a cancel flag and a
cursor over pages. Hard: a cancel beside a start, sounds that cannot be analysed,
a row changed meanwhile. Correct when a stopped run stops and a run ends.

**Engine lifecycle** (`audio/engine_server.rs`, `engine_ipc.rs`, `bootstrap.rs`).
The socket path, processes that test, remove and bind it, the systemd service, a
window that connects, replaces an incompatible engine or plays by itself. Hard: two
engines start at once; a killed one leaves its socket. Correct when an engine that
serves keeps its socket.

**Settings of the engine** (`commands/settings.rs`, `commands/shared.rs`,
`audio/player/runtime_config.rs`). Three copies: the window's configuration, the
file, the engine's runtime. Hard: a debounce, failed saves and requests, an engine
that starts again and reads the file. Correct when the copies agree again.

**Capture routing** (`audio/player/source_routing.rs`, `capture_watchdog.rs`).
State: the sources and links the engine has heard of, the capture stream with its
target, the watchdog's misses. Operations: registry events, the timer, the user's
switch and choice. Hard: events lag behind the graph; a microphone comes back
under a new id; a stream fails. Correct when a microphone the user did not select
is never captured for the selected one, and a wanted one does not stay uncaptured.

**Virtual microphone and feeder** (`audio/player/virtual_mic_module.rs`,
`explicit_links.rs`, `registry_handlers.rs`). State: the null sink that `pactl`
loads, the feeder's node, the ports the engine has heard of, the links it holds.
Operations: start, repair, ports in any order, shutdown. Hard: the sink outlives a
killed engine and others may unload it; a link object may be dead. Correct when
there is one sink of the name, and what exists is linked.

**Mixing loop** (`audio/player/mixing.rs`, `command_handlers.rs`). State: the
active playback and three sample queues shared with PipeWire's realtime threads.
Operations: the tick (trim, fill, starve, end), play, stop, seek, pause, the
callbacks. Hard: nobody waits for the lock; every queue has a capacity. Correct
when the queue gives the sound in its order, without a gap, and nothing of an
earlier one.

**Decoding** (`audio/player/decode.rs`). State: the reader, the frames
to skip and those that remain, the converter's two frames and its fraction.
Operations: decode a packet, give a frame, seek. Hard: the encoder delay, which both
Opus readers cut by themselves, padding, broken packets, a reset, an error that ends
the sound, a seek into the middle, the last frame. Correct when every output frame
lies where the sampling rates put it.

**Calls of the engine** (`audio/engine_ipc.rs`, `engine_server.rs`,
`audio/player/mod.rs`). A connection and a thread for each request, one channel to
the audio loop, time-outs on both sides, a snapshot that the loop publishes.
Hard: a request that was given up lands later; the engine stops while requests
wait. Correct when an answer "ok" is true and a thread's requests land in order.

**Hotkey presses and groups** (`hotkeys/x11_backend.rs`, `hotkeys/group.rs`,
`hotkeys/manager_runtime.rs`, `commands/playback/mod.rs`). From the key to the
sound: held modifiers, a bounded queue, the tab that shows, the sounds that share
the key, the cursor of their group. Hard: X events are read late, two workers
choose for one key, the tab changes meanwhile. Correct when only held modifiers
count and the sounds of a key take turns.

**swhkd** (`hotkeys/swhkd_config.rs`, `swhkd_process.rs`, `swhkd_backend.rs`). State: the
configuration file, the last one that was good, the daemon processes. Operations:
stage, preserve, rename, start, signal, verify, restore. Hard: the daemon dies of a
file it cannot parse and outlives a window that crashes. Correct when a projection
that was answered as done is what the one daemon serves.

**The sidebar** (`ui/tabs_sidebar.rs`). The folder tree is loaded by pages of
siblings when rows come near the screen and dropped far from it; tabs are
reloaded after every change. State: pagers, requests, generations, rows,
selection. Hard: answers of an older reload, rows collapsed with a request under
way, a tab deleted while it is selected. Correct when, once all is quiet, the
rows are the library's, in order, and what is selected is what is shown.

**Database schema** (`library_store.rs`). Six versions, five migrations,
each a transaction of its own; version, flavor and tables. Hard: two sessions open
an old file, a kill between two migrations. Correct when an opened database has
the latest schema and no hotkey was lost.

**Dialogs** (`ui/dialogs.rs`). One set of widgets for every question, and answers
of worker threads that open dialogs whenever they come. Hard: a dialog replaced
while it is answered. Correct when a hotkey is set that the user saved in a dialog
about its owner.

**Commands on single sounds** (`commands/library.rs`, `ui/dnd_import.rs`,
`ui/sound_list/interaction.rs`). Import, rename, relocate, analyse, remove: each
several store requests beside a refresh. Hard: unlisted rows with the same path,
rows read and written later. Correct when the answer is true and a sound's
loudness is of its file.

**Next, Previous and Continue in the list** (`commands/playback/mod.rs`,
`library_store.rs`). The place of the active sound and the sound beside it are two
requests. Correct when the list is gone through without skipping or repeating.

Not candidates for a model: sample values, gain, limiters and loudness numbers
(floating point on buffers), widgets, tray, MPRIS and diagnostics (presentation),
the PulseAudio fallback's calls.

## 2. The modules

Common conventions: variables carry the names of the code's fields; an action is
one critical section, one handler run by its thread, or one request served by
its worker, and names the function in its comment; bounds are constants that
appear in guards; definitions introduced as "a faulty variant" are never used by
the specification: each is a plausible slip in the definition that follows it,
and shows that the properties notice it.

### DefaultSource

The system's side: `graph` (nodes), `configured` and `runtimeDefault` (the two
metadata keys), `live` and `subscribed` (the metadata object and whether the
engine's listener hangs on it). On the way: `inbox`, the events of one PipeWire
connection, in order. The engine's side: `mode`, `sources`, `bound`, `cached`,
`previous`, `claimed` (fields of `LoopState`), `inFlight` and `workers` (the
thread of `spawn_default_source_claim`), `phase` and `restoring` (the steps of a
shutdown).

| action | code |
| --- | --- |
| `DefaultChanged`, `DefaultCleared` | `handle_default_source_metadata_change`, with the claim it ends in |
| `MetadataBound`, `MetadataLost` | `bind_default_metadata`, `handle_registry_remove` |
| `SourceAdded`, `SourceRemoved` | `handle_registry_global`, `handle_registry_remove` |
| `Claim`, `Spawn`, `Remember`, `AlreadyHolds` | `claim_default_source_if_enabled` and its helpers |
| `SetDefaultSourceMode`, `Restore` | `apply_default_source_mode`, `restore_default_source` |
| `RepairVirtualMic` | `ensure_virtual_mic_present` |
| `Shutdown`, `ShutdownWaited`, `ShutdownCommand` | `restore_default_source_for_transient_shutdown` |
| `WorkerCommand`, `WorkerDone` | the thread: `wpctl`, `pactl`, clearing the flag |
| `UserPicks`, `NodeAppears`, `NodeVanishes`, `MetadataAppears`, `MetadataGone` | outside the program |

`RestoreTargets` keeps what the search for a restore target depends on (which
sources are eligible) and lets it choose any of them.

### ProjectionGate

One variable per field of `ProjectionGateState`, `pc` for the place of each
thread in `reconcile`, and `version`, the number of edits: it stands for the
bindings a projection has read. `Enter` and `Wake` are the entry and the loop of
a waiter, `Project` the unlocked read of the bindings, `Publish` the critical
section after it: store the outcome, then run again for newer requests, or stop
leading and wake every waiter.
The condition variable is a set of notified waiters; spurious wake-ups change
nothing, because a waiter checks its condition again.

### Transport

`active` is the engine's playback, `commands` its queue, `jobs` the plays that UI
workers carry out, `snapshots` the queue to the GTK loop; the rest are the flags of
`TransportInner` and of `ui_event_bridge.rs`. A play is named by its job.

| action | code |
| --- | --- |
| `ExplicitPlay`, `DebouncedPlay` | row activation, `dispatch_play_sound_async` |
| `PlayAdjacent`, `StopAllPlayback`, `SetPlayMode` | the functions of these names |
| `HandleEmpty`, `HandleActive` | `handle_snapshot` of an empty and of an active snapshot |
| `JobStops`, `JobPlays`, `JobFails`, `JobTimesOut`, `HandleAnswer` | `play_resolved_sound` and the answer dispatched to the GTK loop |
| `LoopStopAll`, `LoopPlay`, `Finish`, `Poll`, `Snapshot` | the engine's loop, the end of a sound, the poller |

Loop mode is a play that does not finish, so it needs no case of its own.
Seeking, pausing and names do not enter these decisions and are left out.

### RootScan and MCRootScan

Persistent state is the tables (`roots`, `active`, `scanning`, `located`,
`binding`) and `disk`; everything else belongs to a running command and is lost in
a `Crash`. A store request is one atomic step because one worker serves them. Each
step of the command is one request or one file reached by the walk:
`Start`, `BeginRoot`, `Visit`, `Flush`, `WalkEnds`, `Abandon`, `CancelRoot`,
`FinishRoot`, `Return`. Around it: `AddFolder`, `RemoveFolder`, `Bind`,
`DiskChanges`, `Crash`. Roots and files are served in any order, which includes
the code's. The list of roots is read in one step; the code reads it by pages,
which makes a difference only with more roots than a page holds.
`found` and `published` are history variables: what the command's walk has read,
and what the walk had read that was published last.

MCRootScan gives the nesting of the folders (`Nested`) for TLC. What a published
scan does to folder rows, preferences, tabs and imported sounds is FolderTree's.

### PagedList

`list` is the record of the fields of `PagedSoundModel`; the methods are operators
that transform it, so that a callback that calls five of them is one step, as it is
on the GTK thread. `visible`, `maintenance` and `newest` are the store's lanes,
`answers` the bag of callbacks on their way. Actions: `Reload`, `LoadPosition`,
`LoadDeferred`, `Retry`, `ReplaceRow`, the callbacks (`FirstPage` and the others),
`Send` (a request of the running callback is pushed: the worker may already
serve the one before), `Serve`, and requests of others in both lanes.

### HotkeyBindings

The commands `set_hotkey`, `set_control_hotkey`, `set_tab_hotkey` of several
threads: `HkBegin`, `HkLookup`, `HkCheck`, `HkCommit`, then `reconcile`:
`HkEnter`, `HkReadPage`, `HkCommitStaged`, `HkPublish`, `HkWake`, `HkReturn`.
`table` is `hotkey_bindings`, `registered` what the backend answers to. `Gate` is
an instance of ProjectionGate under a refinement mapping: its single step
`Project` is the first page read here, and everything proved of ProjectionGate
for any number of threads is a statement about these commands.

### Startup

`config`, `library`, `backup` and `archived` are the files; a content is a
number, so that "the backup of this very configuration" can be said. `pc` is the
place in `start_application`, the migration, the restore or the open application.
Each action changes one file, `Killed` may come between any two, `OldVersionSaves`
and `Lose` are the world. The three dialogs are choices.

### FolderTree

One root with its tree: `ftRows` (`folders`), `ftPrefs`, `ftOverrides`, `ftTabs`,
`ftLegacy`, the scan (`ftActive`, `ftOpen`, `ftStaged`, `ftPresent`, `ftLocated`).
`FtBegin`, `FtStage`, `FtFinish`, `FtCancel` are the store requests of a refresh;
hiding, moving, dropping and tabs are requests of the sidebar. `DropBetween` and
`DropInto` remember what the sidebar saw, `ReorderFolder` and `CombineFolders` are
the requests that arrive later.

### LoudnessJobs

`ljInFlight` and `ljCancelled` are the coordinators, `ljAsked` a thread inside the
trigger functions (`Claim` and `Spawn` are the two halves of `try_start`), `ljRun`
the run of each job: cursor, page, sounds being analysed, updates not yet written.

### EngineLifecycle

Engine processes at the steps of `run()`, whose socket is at the path
(`elPath`), the service's main process, and `initialize_player` of a window. Every
process may `Die` at every step. An engine is of the window's version or of
another; of these an older one stops when the window asks and a newer one refuses
(`StopIncompatible`, both outcomes). `elEarly` is a history variable.

### EngineSettings

`esMemory`, `esFile`, `esEngine` are the copies of volume, mute and microphone
passthrough; `esTimers`, `esWorker`, `esHotkey` what is under way. `esLost`
records which copies a fault may have left behind.

### CaptureRouting

`crGraph` is PipeWire's graph, `crEvents` the registry events on their way,
`crSources` and `crLinks` what the engine has heard of; `crStream`, `crTarget`,
`crNode` and `crMiss` are its fields. `Receive` is one event with everything its
handler does, `WatchdogTick` the timer (`EnsureCapture` is the common decision),
`Command` the user's switch and choice. `SourceAppears`, `SourceVanishes`, `Links`,
`Unlinks` and `StreamFails` are the world.

### FeederLinks

The graph (`flMics`, `flFeeder`, `flAlive`), the events, and the engine's tables:
ports by channel, links, the sinks it knows of. `StartEngine` unloads the sinks
that are there and loads a new one (`LoadOrAttach`; despite its name it never
attaches), `CreateFeeder`, `FlReceive`, `FlTick` and `Repair`
are the loop, `ShutDown` and `EngineKilled` the two ways an engine ends; the sink of
a killed one stays.

### MixQueues

The unit is the chunk the loop mixes. A tick is `TickBegins` (trim), any number of
`MixBatch`, `TickEnds` or, when the lock is refused, `TickGivesUp`; the realtime
threads (`LocalPlays`, `VirtualPlays`, `Captures`) come between any two. `mxHeard`
and `mxCut` are history: the last chunk played, and the plays that lost one.

### Decoding

A file is a list of packets: with sound, passed over because it cannot be decoded or
is of another stream, one that asks for a reset of the decoder, or one at which an
error ends the sound. It is an Ogg file (`OggOpusSource`) with its delay and granule,
or a container (`SymphoniaSource`), whose seeks may land early, with the pre-skip of
`ContainerOpusDecoder` (0 for the other codecs). The two cut their delay in different
ways: the Ogg reader from as many packets as it lasts, and again after every seek
(`Taken`); the container decoder from the first packet it decodes and no further
(`SkipLeft`), not at all after a reset, and after a seek only if that asked for 0 ms
(`ResetSkip`). `Decode` is one packet; `Pull`, `PullNothing` and `Emit` are the steps
of the converter, `DcSeek` a seek with the frames it has to drop. Frames are
numbered, so that the property can say which ones are heard: `FirstFrame` and
`LastFrame` tell it of the packet where reading began (`dcStart`, a history variable)
from the list of packets alone.

### EngineCalls

`ecCalls` holds each request with the place of its connection and its answer; the
connection's thread (`Accept`, `Handle`, `HandleReplacement`, `Respond`) and the
channel `ecQueue` are between it and the loop (`HandleCommand`, `Publishes`).
`GiveUp` is a time-out of the window, `EngineStopping`, `LoopQuits` and
`EngineEnded` the end of the process. `ecLanded` is the order in which commands were handled.

### HotkeyDaemon

One projection goes through `hdStep`: read the bindings, start, spawn, stage,
preserve the old file, rename, signal, verify, restore. `hdFile` and `hdGood` are the
two files, `hdDaemons` all processes so far, also those of a window that crashed.
Which configuration swhkd refuses is a constant (`HdRejected`).

### SidebarTree and SidebarTabs

SidebarTree has one root: `stPagers` are its pagers with the request each has
under way, `stRows` the rows GTK holds. `BindRow` is a row that comes on screen, with
the prefetch and the eviction that follow; `Collapse`, `Expand`, `ReloadTree`,
`PageArrives`, `PageFails` are the handlers. SidebarTabs has the command on its
worker (`tbTask`), the answers and the reloads that wait (`tbAnswers`, `tbOwed`), the
requests of reloads with their generations (`tbLoads`), the rows and what is
selected, active and shown.

### HotkeyPress

`Strike` and `Modifier` are keys, `Listen` one turn of the X11 listener: what the
socket holds goes to Xlib's queue, one event is taken out. `DaemonWrites` and
`ReadLine` are swhkd's pipe, `PostPress` and `HandleHotkey` the hotkey queue and the
main loop, `LoadGroup`, `PickSound`, `NotePick` and `PlayPick` the steps of the
worker. `Eligible` and `Picks` are the pure functions of `group.rs`.

### StoreSchema

The file is its version, flavor, tables, indexes and hotkeys; a migration is a
function of the file that may be refused. An opener reads the version, then the
flavor of each migration, then begins the transaction: three steps, with the other
opener's and a kill between any two.

### Dialogs

`dgHost` is the record of the host's widgets and cells; `Prepared` is what every
dialog does to it, `AfterAnswer` what an answer leaves. The other variables are the
questions under way: hotkeys being read, clashes being looked up, commands and
installers. `dgSaved`, `dgAgreed` and `dgDone` are history.

### SoundImport

`imJob` are the commands under way, each at its step; a step is one request to the
store with the decisions after it. `DropFiles`, `DragEnters`, `DragLeaves`,
`RejectDrop` and `HideZone` are the callbacks of the drop zone, `StageSound`,
`PlaceSounds`, `FileVanishes` and `DeleteImportTab` what a refresh, the disk and the
sidebar do meanwhile.

### AdjacentPlay

`apIn` and `apPlace` are the scope and its stored positions, `apShown` and `apCached`
what the list knows of them. A press or a continuation is a job of the steps
position, count, adjacent, boundary; `FindPosition`, `CountSounds`, `FindAdjacent`
and `FindBoundary` are the four store requests.

### MCApplication

The twenty modules from PagedList to AdjacentPlay share no variable. MCApplication
extends all of them and adds `part`, the component whose steps are explored while
the others stay in their first state: the state space is the sum of theirs and not
the product. `VIEW McView` tells TLC that only the explored component's variables
tell states apart. That loses nothing: no action of one component reads a
variable of another, every invariant speaks of one component's variables, and the
others' first state satisfies it.

### Composition

The modules share actors and not variables, and are checked separately, but for
HotkeyBindings, which implements ProjectionGate, and PagedList, which contains
the store's lanes. DefaultSource, Transport, MixQueues, CaptureRouting and
FeederLinks are all driven by the engine's loop; they write different fields of it.
RootScan's `Return` is where ProjectionGate's `Enter` happens. AdjacentPlay decides
which sound Transport's `PlayAdjacent` dispatches; EngineCalls is how a command of
Transport reaches an engine that is a process of its own; HotkeyDaemon is what
HotkeyBindings' commit does with swhkd, and HotkeyPress what happens afterwards
when a key is struck.

## 3. The runs

| run | module, cfg | instance | distinct states | shows |
| --- | --- | --- | --- | --- |
| default_source | DefaultSource | one hardware microphone, one monitor, the virtual one (removable), 2 changes from outside, failing commands | 1.35 M | 2 invariants and a liveness property |
| manual_never_changes | ManualNeverChanges | 2 microphones, nothing fails | violation | a transient shutdown changes the default in Manual mode |
| selected_device | SelectedDevice | one microphone, nothing fails, 1 change | violation | a selection that meets the end of the command thread is not reclaimed |
| projection_gate | ProjectionGate | 3 threads, 4 edits | 0.48 M | answers cover the edit, and waiters return |
| transport | Transport | 3 plays, failures, repeated clicks, quick ends | 3.8 M | continued once, stopped stays stopped |
| transport_progress | TransportProgress | 3 plays without these faults, 2 snapshots queued | 0.40 M | Continue never stalls |
| continue_stalls | ContinueStalls | 2 plays, quick ends | violation | a play shorter than a poll stalls Continue |
| click_overtaken | ClickOvertaken | 3 plays, no faults | violation | an old snapshot exposes a click to Continue |
| root_scan | MCRootScan, RootScan | 2 nested folders, 2 files, one refresh at a time, 3 refreshes, 3 changes, failing requests | 0.82 M | atomic, invisible, no hotkey lost |
| overlapping_refreshes | MCRootScan, OverlappingRefreshes | 2 refreshes at once, 3 in all, no faults | violation | two refreshes share a generation |
| application | MCApplication, Application | the twenty modules above, bounds below | 0.92 M | 24 invariants (one of types), 4 action or temporal properties (one the refinement of ProjectionGate) |
| imported_sounds | MCApplication, ImportedSounds | FolderTree's part | violation | a stopped first scan takes imported sounds off the list |

Every property that passes has a faulty variant of a definition that breaks it
(`mutants`), and the passing runs together take every action and disjunct.

What each property of `application` says, by component:

| component | property |
| --- | --- |
| PagedList | `MissingPagesCome`: the cache keeps its limits, rows answer the newest query, and a page on screen is loading, loaded or failed |
| HotkeyBindings | `ControlKeysAreTheirOwn`, `BackendFollowsTheTable`; `ImplementsGate`, the refinement of ProjectionGate's next-state relation |
| Startup | `NothingIsDeleted`, `SettingsMatchTheLibrary`, `BackupIsOffered` |
| FolderTree | `HiddenFoldersStayHidden`, `OneFolderMovesAtATime` |
| LoudnessJobs | `RunsComeToAnEnd`: a stopped run takes no more sounds, and no run takes a sound twice |
| EngineLifecycle | `ServingEnginesKeepTheirSocket` |
| EngineSettings | `CopiesAgree` |
| CaptureRouting | `SelectedMicIsNotBypassed`; `WantedMicIsCaptured`: one tick of the watchdog at most leaves a wanted microphone alone, and what is captured is heard |
| FeederLinks | `SettledMicIsFed`: once every event has come, what exists is linked, and there is one microphone of the name |
| MixQueues | `LocalOutputIsTheSound`: what was heard, what is queued and what comes next follow each other |
| Decoding | `FramesAreExact`: each output is between the right two frames, the end comes with the last |
| EngineCalls | `AnswersAreTrue`: in order, not twice, "ok" means landed, snapshots do not go back |
| HotkeyDaemon | `DoneIsServed`: after an answer "done" only this window's daemon lives, with that table |
| SidebarTree | `SiblingsComeInOrder`: rows are the library's folders at their index, and the missing ones are asked for |
| SidebarTabs | `TabsShowTheLibrary`: when all is quiet, rows, menu, selection and sound list agree with the library |
| HotkeyPress | `OnlyHeldModifiersCount`; `PressesTakeTurns`: every sound of a group once before one comes again, out of the tab that showed |
| StoreSchema | `MigrationsLoseNothing`: who opened has the latest schema, and every hotkey as the user set it |
| Dialogs | `HotkeysAreAgreedTo`: a hotkey that is set was saved, and shared, in dialogs about its owner |
| SoundImport | `SoundCommandsAreTrue`: an import's Ok is true, a loudness belongs to its file |
| AdjacentPlay | `AdjacentFollowsTheList`: the next sound is the next of the list |

Why these bounds are enough. Two changes from outside are what a hazard of
DefaultSource needs: the metadata object goes and comes back, or a selection and a
loss. A third thread in ProjectionGate is a request that arrives during a second
round for a first joiner, and four edits let one thread come back. Three plays are
a playback, the click or continuation that follows it, and a late or failed one
that meets both; longer command and snapshot queues repeat the same order
(`MaxCommands` bounds only when Stop All is pressed, the queue itself grows with
the jobs). When no play number is left, a dispatch is refused, which is how the
error path of `continue_to_next_sound` is taken. In RootScan three refreshes are an
old publication, a failed or crashed attempt and the one that must not see its
remains; three changes are a folder added, a file moved and a folder removed.

The instance of `application`:

- PagedList: pages of 2 rows, 2 cached, a payload limit of 3 and loaded pages of 1 or
  2, one pending load, lanes of 2 and 1, a query of 0 or 5 rows (three pages: more
  than the cache holds), 2 queries, 2 events, 1 row bound again.
- HotkeyBindings: 2 threads, a sound, a control and a tab, 2 keys, pages of one
  binding, 2 edits: two commands between check and commit, or a command and an edit
  between its pages.
- Startup: 3 contents, 4 starts, 1 loss: a migration, its interruption, a restore of
  what it left and a last start.
- FolderTree: three siblings and a nested folder, 3 sounds of which 2 were imported,
  2 scans, 2 edits: a scan to publish, one to change it, an edit before and one during.
- LoudnessJobs: 2 sounds, pages, runs and flushes of 1, so that every run has a
  second page. EngineLifecycle: 2 processes at a time, 4 in all, one window.
  EngineSettings: two volumes, 3 changes, 2 faults.
- CaptureRouting: an effects source and a microphone, 4 objects (both, one that comes
  back, a capture node made again), a settings change, a fault, 3 events under way
  when the graph changes by itself: a source that is removed and added before the
  engine has heard of either. FeederLinks: 6 nodes, 3 faults: a kill, a sink unloaded
  and a link refused. Both channels are modelled.
- MixQueues: a target of 2 chunks in a queue of 4, so that it can overflow; ultra
  latency of 1 and low of 2; a sound of 2 chunks, so that a loop comes round; 2
  commands (a sound and the next), one lock refused or file gone.
- Decoding: every file of 2 packets of up to 2 frames, broken and foreign ones,
  resets and errors included, with every delay (also one longer than the first packet)
  and granule; rates 3:2 and 1:2; one seek.
- EngineCalls: a thread and the poller, 3 requests, one of which may be given up: a
  request that lands late, the one after it and a snapshot. HotkeyDaemon: an empty,
  a good and a rejected table, 2 edits, 2 daemons, 2 faults.
- SidebarTree: pages of 2, 2 loaded at a time, 5 folders (three pages: one is
  evicted), at most 4 rows kept over a collapse, 3 rows bound, one change, one
  collapse, one failure. SidebarTabs: 2 tabs by pages of one; 2 events of any kind.
- HotkeyPress: three bindings of which two share a key, two tabs, a queue of 1, 2
  workers, 3 keys, lines or edits. StoreSchema: every schema from none to a newer
  one, 2 openers, 3 hotkeys of which two are one key, 4 kills, starts or edits.
- Dialogs: a sound, one other subject, 2 keys, 3 events: a dialog that is replaced
  twice. SoundImport: 2 files dropped of which the library may have one, batches of
  one sound, so that the second can fail; one tab, 2 commands at once, one step of
  others. AdjacentPlay: 3 sounds at 2 places, so that two share one; 2 presses, one
  change.

No symmetry is declared in this run. `CHECK_DEADLOCK FALSE` everywhere: each system
stops when its bound is used up, and DefaultSource and RootScan also end by design
(after a shutdown; with no folder configured). That nobody waits forever is stated
by the liveness properties, and for PagedList and SidebarTree by the parts of their
invariants that say that what is missing has been asked for.

### Fairness

- DefaultSource: weak fairness of the loop's events, of the steps of a shutdown
  and of the command thread. The loop drains its connection, `wpctl` and
  `pactl` end. Nothing is assumed of the user, the system or mode changes.
- ProjectionGate: a thread inside `reconcile` is scheduled and a projection
  ends. Nobody has to edit.
- Transport: the GTK loop, the engine's loop, the poller and each job make
  progress. Nobody has to click, and no sound has to end.
- RootScan states safety only, without fairness.

## 4. Where the code differs from what is said of it

Five runs, each checking a sentence of the repository:

1. `docs/FEATURE_REFERENCE.md:611`, Manual: "the soundboard never changes the
   system default". A transient shutdown restores a source whatever the mode
   (`source_routing.rs:170`).
2. `docs/CHANGELOG.md:153`, reclaims "not only when another device is selected". A
   claim skipped because the flag is set is not tried again
   (`default_source.rs:176`).
3. `docs/FEATURE_REFERENCE.md:175`, Continue starts the next sound when one
   finishes. The pending flags are cleared by snapshots of unfinished plays only
   (`ui/transport/scrub.rs:98`), so a play that ends between two polls stalls it.
   With such plays excluded (transport_progress) it never stalls.
4. `docs/CHANGELOG.md:242`, a click is not overtaken by Continue. Any active
   snapshot clears the flag (`ui/transport/scrub.rs:122`), also an older play's.
5. `docs/FEATURE_REFERENCE.md:455`, stopping a scan: "Sounds already imported are
   kept". Staging a sound clears `sounds.standalone` (`library_store.rs:2330`) and
   cancelling does not set it again, so sounds imported from the old version that
   the stopped first scan had reached are no longer listed (imported_sounds).

And a sixth against a test's name, "switches visibility atomically"
(`library_store_tests.rs:1069`): a generation number is unique only once rows were
staged under the last one (`library_store.rs:2198`), so two refreshes that overlap
may publish part of a walk. With one refresh at a time it is atomic: root_scan
checks it and a theorem proves it.

What the properties have to leave out. These are behaviours of the code that a
reader of the properties should know; each is an exception written in the
property, or a disjunct of the model.

- PagedList, `MissingPagesCome`: pages that were deferred while every pending load
  then ends in a refused prefetch or a failed first page are not asked for again
  until the next scroll (`forgotten`).
- HotkeyBindings: a command that commits between the check and the commit of
  another one, or a folder shown again, can give a control's key to a sound
  (`overlooked`). The hotkeys of a folder shown again are registered by the next
  projection only. X11's `stage_many` stops at the first binding of a page that is
  refused, swhkd skips only that one.
- Startup: a kill after a restore has archived both files lets the next start
  make an empty library although there is a backup (`broken`); a kill between the
  creation of the database and its ready mark in a first start makes every later
  start refuse with nothing to offer; what the old version saves after the last
  checksum is overwritten (`unseen`); a Cancel after the database is published
  leaves the next start to finish the migration unasked.
- FolderTree: if the folder of an old generated tab is gone, the first publication
  fails on a unique key while the tab exists; a first scan brings back a deleted
  generated tab; `move_folder` writes the positions of two siblings only; a drop
  counts the visible siblings, the store all of them; a hidden folder that
  disappears from disk becomes a visible tab.
- LoudnessJobs: a cancel between the two halves of `try_start` is lost (the
  property speaks of runs that exist); a stopped backfill still asks for a
  refinement, whose start clears the cancel; a stopped refinement raises the
  confidence of the sound it was at, so that it is not refined unasked again;
  an analysis of one sound and a run may overwrite each other.
- EngineLifecycle: an engine that exits removes the path whoever's socket it is
  (`elEarly`); one that is slow to load does not answer a ping and is taken for
  stale; a window that plays by itself names its own version when it stops the
  engine, so an older engine goes on beside it; an engine newer than the window
  refuses to stop for it (`engine_server.rs:301`), and the window fails to start.
- EngineSettings: an engine that starts again reads the file and is not told what
  the window holds; a mute whose save fails is not sent; a failed save of the
  passthrough is ignored; the button's and the hotkey's commands may overlap.
- MixQueues: the local queue is never trimmed to its target and can grow to its
  capacity (`mxCut`), against the comment "A later trim clears a contended queue";
  a chunk rendered before `try_lock` is refused is lost; the fallback from ultra
  latency changes the runtime only; a seek that fails has still faded the sound.
- Decoding: a seek to the exact end fails and the sound goes on; a coarse seek of a
  container may land before the wanted frame, while `position_ms` shows the one asked
  for. For Opus in a container the encoder delay is heard where a seek past 0 ms lands
  in it (`decode.rs:618`, 761), as far as it lasts longer than the first packet that is
  decoded (`decode.rs:652-656`), and when the decoder is reset before that packet
  (`decode.rs:781`, 812). An error of reading or decoding other than `DecodeError`
  ends the sound where it is met (`decode.rs:315`, 786, 816); in an Ogg file any error
  of reading does, and one met by the scan makes the file unplayable. What the model
  assumes: an error that ended the sound is met again by the next read of that reader.
- FeederLinks, `SettledMicIsFed`: `pactl` that cannot list or unload is taken for one
  that found nothing (`virtual_mic_module.rs:28-38`, 235-239), and a second sink of
  the name may follow. Here these calls succeed, and nobody else loads such a sink;
  the half of the property that says the microphone is the only one rests on that.
- EngineCalls: an answer precedes `publish_snapshot`, so the next snapshot may be
  older than what was answered; a microphone setting that is answered with an error
  has still been applied; `IPC_TIMEOUT` (3 s) is below the engine's own limit for a
  Play (10 s), so a slow Play is reported as failed and lands (`abandoned`); a
  replacement is two commands that publish one by one.
- HotkeyDaemon: `SIGHUP` to a child that has died succeeds until it is reaped; what
  `HdRestore` puts back is read by no daemon of that session; the first commit makes
  the file of the session before the last good one; a commit whose sync of the
  directory fails has replaced the file and signals nobody, and so has a restore;
  the last good file may be newer than a projection that failed; while the backend is
  deferred, a daemon left by a crash goes on with its keys.
- SidebarTree: after a later page has failed, or rows were dropped with a request
  under way, a second pager works on rows it does not know (`stTorn`).
- SidebarTabs: a reload with a failed request lists what came before (`tbPartial`); a
  row clicked while a reload runs is undone; a rename of a tab that was deleted
  meanwhile inserts it again; a second command while one runs is refused with a log
  line only; the place of a new tab is the number of tabs, which need not be the last.
- HotkeyPress: the listener has one bit for both keys of a modifier, so that
  releasing one of two held keys clears it (the property is one-way); it takes one
  event for each wake-up of the socket, so that queued ones lag; two presses that
  overlap may pick the same sound (such picks are not in `hpTurns`); the cursor is
  kept under the group's first binding and starts again when that one changes.
- StoreSchema: a file of version 0 with a foreign application id is adopted; the
  flavor is read outside the transaction, and only a clash of names stops the second
  of two migrations from doing its part again.
- Dialogs: a command or an installer that ends replaces whatever dialog shows;
  AltGr is not recorded; Escape is taken before the branch that would say
  "Cancelled. Click to try again".
- SoundImport: a row that is not listed but has the path (a hidden folder, a scan under
  way) makes a whole batch fail, the batches before stay; rename, relocate and analyse
  write the row they have read (`imStale`); `update_sound` of a deleted row answers
  Ok; of two imports the first to end hides the zone for both.
- AdjacentPlay: Next and Previous know the place of the active sound only while its
  page is cached, and start from an end otherwise; before the snapshot of the last
  start they go on from the sound before it; Continue stops when its sound has left
  the list.

## 5. What is proved

Theorems hold for every value of the constants that satisfies the named
assumptions of each module (disjoint names, natural bounds): any number of
microphones, threads, plays, folders, files. DefaultSource, ProjectionGate and RootScan
have a proof module each; the others share one per subsystem, which EXTENDS the
modules it is about: WindowProofs (Transport, SidebarTabs, SidebarTree, AdjacentPlay,
PagedList),
HotkeyProofs (Dialogs, HotkeyBindings, HotkeyDaemon, HotkeyPress), EngineProofs
(EngineLifecycle, EngineSettings, EngineCalls), AudioProofs (CaptureRouting,
FeederLinks, MixQueues, Decoding) and LibraryProofs (Startup, LoudnessJobs,
SoundImport, FolderTree, StoreSchema).

| module | theorem | property | the argument |
| --- | --- | --- | --- |
| DefaultSourceProofs | `TypeInvariant` | `TypeOK` | inductive, one step per action |
| | `OneWorker` | `OneCommandWorker` | `WorkerInv`: at most one job, and the flag is set exactly then |
| | `ClaimsOnlyInDefault`, `RestoresForeign` | `ClaimOnlyInDefault`, `RestoreTargetIsForeign` | `BeliefInv`; a restore target is eligible or remembered, and only foreign names are remembered |
| | `BelievesTheTruth` | `BeliefIsTrue` | `TruthInv`: what the engine will believe when it has read its inbox (the last object announced, the last value reported after it) is what holds now |
| | `ShutdownRestores` | `ShutdownGivesBack` | `ShutdownInv`: from the moment the shutdown has waited there is no worker, and a command that took set a foreign name |
| ProjectionGateProofs | `TypeInvariant` | `TypeOK` | inductive with the types of the locals |
| | `ProjectionsAreExclusive`, `WakeupsAreNotLost` | `OneProjection`, `NoLostWakeup` | parts of `IInv` |
| | `AnswersCoverTheEdit` | `ReturnIsCovered` | `IInv`: the leader has read every edit whose request is at most its target, and the last outcome covers every completed request |
| WindowProofs | `TypeInvariant` | `TypeOK` | inductive; the cursor always equals the shown track |
| | `StopSuppressesContinue` | `StoppedIsNotContinued` | `SuppressedInv`: while stopped, the shown track is the suppressed one; an advance needs that none is suppressed |
| | `ContinuesOnce` | `OneContinuationPerPlay` | `ContinueInv`: a command is in one queue at most, only plays that were sent are shown, the queued snapshots tell of plays in the order in which they were current, and a continued play is over |
| | `TabsShowWhatThereIs` | `TabsShowTheLibrary` | `TabsInv`: of the reload that is current, the pages before its own are listed as the library has them, unless the list still has news to hear of; without one, the rows and the selection are settled |
| | `SiblingsAreInOrder` | `SiblingsComeInOrder` | `SiblingsInv`: only the pager of the root has work; its next page begins where the rows end, what it awaits or keeps for later lies within the rows or is that page, and a row is blank just if its page is not loaded |
| | `FollowsTheList` | `AdjacentFollowsTheList` | `AdjacentInv`: while the list is the one the command began with, the position a command works with is the place of the active sound in it, or a press did not know it |
| | `PagesCome` | `MissingPagesCome` | `ListInv`: every page under way has a request of the shown query with the GTK thread, in a lane or answered; a reload's two requests are made once, and until one of them is answered nothing is known and no other page asked for; answers agree with the library unless it has changed since; every page in the cache is in the order, once |
| RootScanProofs | `TypeInvariant` | `TypeOK` | with `TablesOK`: an open generation is above the listed one |
| | `StagingStaysInvisible` | `StagingIsInvisible` | rows of an open generation are not listed, by `TablesOK`; for any number of refreshes at once |
| | `OneRefreshIsAtomic` | `RefreshIsAtomic` | `StagedIsSent`: the open generation of a command that has not given up holds exactly what its walk has sent; assumes one member of `Refreshes` at most |
| | `OneRefreshKeepsHotkeys` | `FoundSoundsKeepHotkeys` | `PublishedIsFound`: a folder that a standing scan has published lists what that scan found; with `StagedIsSent`, one that is still open has it staged |
| | `OneRefreshReconciles` | `ReconciledHotkeysAreListed` | `FinishOK`: in the finishing phase a sound with an active hotkey is listed, or staged in a folder that is still to be finished |
| HotkeyProofs | `AgreedHotkeysOnly` | `HotkeysAreAgreedTo` | `DialogInv`: the widgets have one owner, and a question to share, like a lookup under way, is about a hotkey that was saved |
| | `ControlsKeepTheirKeys` | `ControlKeysAreTheirOwn` | `BindInv`: what a command has checked is still free of other owners when it commits, or a commit has overtaken a check before (`overlooked`) |
| | `BindingsImplementTheGate` | `ImplementsGate` | one lemma per step: beginning and committing an edit, entering, reading a page, waking and publishing are ProjectionGate's, the others leave the mapped variables alone |
| | `CommandsHaveTheGate` | | the invariant of the gate, carried over by the mapping: one command at a time stages pages, an answer covers the caller's commit, a waiter has a leader |
| | `ProjectedKeysAreServed` | `DoneIsServed` | `DaemonInv`: where the projection stands decides which daemons may live, what is on disk, and what each has read or been signalled to read |
| | `ChordsAreHeld` | `OnlyHeldModifiersCount` | `PressInv`: events on their way through thread, pipe and queue, read as one sequence, bring the listener to each strike, and to their end, with what was held there |
| | `BackendFollows` | `BackendFollowsTheTable` | `FollowInv`: of a projection that none follows, the candidate tells after each page the wanted bindings up to the last id read, and staged, then registered, all of them; the gate's theorems say that the last answer covers every edit |
| | `TurnsAreTaken` | `PressesTakeTurns` | `TurnsInv`: the picks noted for a binding go round the list they were made from, and a pick not yet noted goes on from the last that was |
| EngineProofs | `EngineTypeInvariant` | | inductive; the service's process runs |
| | `ServingEnginesKeepIt` | `ServingEnginesKeepTheirSocket` | `LatecomersOnlyTest`: beside an engine that serves, who started later is at its test, which an answered ping ends |
| | `SettingsTypeInvariant` | | inductive |
| | `CopiesAlwaysAgree` | `CopiesAgree` | `Agreement`: during a command the engine is ahead of the memory by it, a timer holds the volume shown, a closed window has neither |
| | `AnswersHoldTrue` | `AnswersAreTrue` | `CallsInv`: what has been handled and what is in the channel, read as one row, has the calls of a thread in their order, each as often as it was sent |
| AudioProofs | `SelectionIsKept` | `SelectedMicIsNotBypassed` | inductive with the types: the target is chosen with the source that is set |
| | `WantedMicIsHeard` | `WantedMicIsCaptured` | `MissesCover`: a late tick is counted as a miss, and the second miss repairs. `HearingInv`: of each node, port and link the last event in the queue, or with none the engine's tables, tells the state of the graph |
| | `VirtualMicIsFed` | `SettledMicIsFed` | `FeederInv`: in the queue a microphone that has gone is withdrawn before another one is announced, and ports come behind their node; so a link that is held is alive or ends with a withdrawal under way |
| | `LocalOutputStaysInOrder` | `LocalOutputIsTheSound` | `MixInv`: what was heard, is queued and comes next, read as one row: sounds never go back, and two chunks with only silence between follow each other or their sound was cut |
| | `EveryFrameIsExact` | `FramesAreExact` | `DecodeInv`: the next frame a reader gives is told by the packet where reading began: the delay it has still to cut, and the playable frames it has still to give, are what its packets held so far leave; the outputs times the one rate are the converter's steps times the other, and a fraction; so it is of the player that a seek has kept |
| LibraryProofs | `NothingIsEverDeleted`, `OpensWithItsOwnLibrary`, `BackupIsAlwaysOffered` | `NothingIsDeleted`, `SettingsMatchTheLibrary`, `BackupIsOffered` | `StartupInv`: for every point of a start, which files may be under which names and which of them belong together |
| | `NothingIsLost` | `MigrationsLoseNothing` | `SchemaInv`: the file is exactly the schema of its version, with the user's hotkeys; an opener that still migrates is not ahead of the file, one that is done has the latest; a migration that comes late meets a table or an index that is there already |
| | `JobsComeToAnEnd` | `RunsComeToAnEnd` | `JobsInv`: what a run has taken lies behind its cursor, and the cursor only grows |
| | `SingleSoundCommandsAreTrue` | `SoundCommandsAreTrue` | `ImportInv`: each row a batch has added is its own and a member of the tab, an open zone has a job, and a loudness on its way is that of the file it was read for |
| | `HiddenStaysHidden` | `HiddenFoldersStayHidden` | `HiddenInv`: each row of preferences says whether its folder is hidden, and those of the folders the user has hidden say that they are; whatever writes a row keeps that |
| | `DropsMoveOneFolder` | `OneFolderMovesAtATime` | `TreeInv`: no two rows have one id and every position is a number, so that the order shown is total and a place given to one folder leaves the others' as they were |

Why a strengthening is needed: each property alone is not inductive. That an
answer covers the caller's edit, say, depends on what the leader will publish,
which depends on when it read; `IInv` carries this over the unlocked part. That a
publication is a whole walk depends on what was staged since the scan began,
which `StagedIsSent` records. It is exactly what overlapping refreshes break: two
commands own one open generation and neither knows what the other has sent. And
wherever an actor believes what messages told it (`TruthInv`, `PressInv`,
`HearingInv`, `FeederInv`, `ContinueInv`, `CallsInv`, `TabsInv`), the invariant is about the messages under way: the
property speaks only of states in which none are left.

What the proofs changed in the models. StartupInv needs room for at least one legacy
configuration (`MaxContents` >= 1), which the module had left unsaid; HotkeyDaemon and
HotkeyPress name the assumptions on their bounds and names; a page of LoudnessJobs is
any set of sounds ahead of the cursor instead of one written with a maximum; and the
steps of HotkeyBindings change a call by one operator (`Step`). Overrides of functions
by `@@` and `:>` and sets over tuple patterns are written as functions and as sets over
one variable. FolderTree names what it takes of its
constants: the folders are finitely many, "above" is an order of them, and the folders
of a sound are one branch. In SidebarTabs
the stand-ins for the open folder and for no tab are negative: as numbers above the
tabs' they could have become ids of tabs. There, too, a new tab is inserted behind as
many as come before it, and a deleted one is removed by its index, where both had been
filters of a sequence. In SidebarTree a change of the folders needs a folder. What a fold,
a sort or a filter of a sequence gives is beyond the provers, so some data is told in
another way: AdjacentPlay lists its sounds, and HotkeyPress the sounds of a key, by rank;
MixQueues reads what was heard, is queued and comes next as one indexed row; a
transaction of StoreSchema is composed of its statements, and the files that earlier
versions left are one row; a page of HotkeyBindings is a set; and a packet of Decoding
is told by the number of its last frame, where the frames before it had been a sum. In
PagedList the turns of waiting pages, and what a lane keeps, are recursive functions, the
payload of the cache is a number of units, and pages are evicted from an order all at
once; the query may have any of its sizes at the start. None of these takes away a
behaviour of the instances checked.

What a proof changed in a property. `MissingPagesCome` had said that while pages wait for
their turn the timer runs or one of the pages under way (`pending`) has its request. The
proof did not go through: an edited row may grow until the cache gives up the pages that
are under way (`replace_at` calls `touch_page`), and then pages wait while none is
pending. TLC confirms it on a larger instance (four pages of one row, three
of them cached, one under way at once, three scrolls and edits). They do get their turn, from the answer to a request whose page has gone.
So the property now asks for any request of the shown query that is not answered yet.

Where a proof needs the first of several (the first command sent, the first import
that asks for a file) it takes it from the least element of a nonempty set of numbers
(`LeastExists`, by the library's well-founded order of the naturals), and not by
induction.

Proved and no longer run: `TypeOK` of the modules above, `OneCommandWorker`,
`ClaimOnlyInDefault`, `RestoreTargetIsForeign`, `OneProjection` and `NoLostWakeup`. The
theorem says more than a run of a small instance would.

Only model-checked:

- `ClearedIsReclaimed`, `WaitersReturn`, `ContinueNeverStalls`: liveness under fairness
  is beyond the prover;
- `ApplicationTypeOK`, which joins the types of twenty modules; where a proof needs
  them, its invariant holds the part it needs.

## 6. What is not modelled

See `components` in `PROJECT.json` for each part's reason. Inside the modelled
parts:

- the contents of sounds and metadata, names and texts; sample values, gain, limiters
  and the loudness measurement, which are floating point on buffers;
- the PulseAudio fallback of the engine, command line parsing of `pactl` and `wpctl`
  output, stream properties, and the table of ranks behind the automatic microphone;
- key names and their spellings (`hotkeys/parsing.rs`): tables, which its own unit
  tests enumerate; installing swhkd, systemd units and desktop files;
- widgets, menus, icons, themes, tray and MPRIS: they show what the state says and
  call the commands modelled elsewhere; tests and test support;
- search terms, sorting by columns, and durations in the list.

SQLite is taken to commit whole transactions and to keep them over a crash.
PipeWire's connection is taken to deliver in order. The map covers about three
tenths of the implementation's lines: the rest is the list above, the plain reads and
writes of `library_store.rs`, and construction of widgets.

## 7. The plan

Done, the most central first: DefaultSource, ProjectionGate, Transport, RootScan,
then the modules of MCApplication in the order of section 2. What would come next:

1. **RootScan, second step**: an abstract refresh (a root's list is replaced by a
   walk in one step) implemented by RootScan for one refresh at a time; RootScan
   beside HotkeyBindings, for a refresh that ends early and leaves flagged hotkeys
   in the backend (`commands/library.rs:516`).
2. **A window and an engine together**: Transport over EngineCalls instead of over
   queues that lose nothing, so that a request given up is a play that lands late
   by a time-out of the window.
3. **AdjacentPlay under Transport**: the active sound as the transport knows it.
