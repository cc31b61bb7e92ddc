------------------------------ MODULE HotkeyPress ------------------------------
(***************************************************************************)
(* A hotkey from the key to the sound: hotkeys/x11_backend.rs, the pipe of *)
(* hotkeys/swhkd_backend.rs, the lazy start in hotkeys/manager_runtime.rs, *)
(* hotkeys/group.rs and the hotkey part of commands/playback/mod.rs.       *)
(*                                                                         *)
(* The X11 listener keeps the held modifiers itself, one bit for the left  *)
(* and the right key, from the events in the order it reads them; swhkd    *)
(* writes binding ids to a pipe.  An id goes through a bounded queue to    *)
(* the main loop, which notes the tab that shows and hands the press to a  *)
(* worker; the worker asks the library for the sounds that share the key,  *)
(* picks one and asks for it.                                              *)
(*                                                                         *)
(* There is one ordinary key, with and without Ctrl; sound s belongs to    *)
(* binding s. Which bindings a projection leaves in the backend after a    *)
(* failure is the subject of HotkeyBindings.                               *)
(***************************************************************************)
EXTENDS Naturals, Sequences, FiniteSets, SequencesExt

CONSTANTS
  HpTables,     \* what the library may hold at first
  HpScopes,     \* the tabs that can show
  HpNone,       \* no scope, no binding, no sound
  HpQueueSize,  \* the capacity of the hotkey queue (64)
  HpWorkers,    \* UI workers
  HpMaxEvents   \* bound: keys, lines, edits, and selected tabs

Chords == SUBSET {"ctrl"}     \* the modifiers the ordinary key is struck with
Bindings == 1 .. 3

ASSUME HotkeyPressAssumption ==
  /\ HpQueueSize \in Nat \ {0} /\ HpWorkers \in Nat \ {0} /\ HpMaxEvents \in Nat
  /\ HpNone \notin HpScopes
  /\ HpTables \subseteq [Bindings -> [chord : Chords, scope : HpScopes \cup {HpNone}, set : BOOLEAN]]

VARIABLES
  hpTable,     \* hotkey_bindings: binding -> chord and scope, or none
  hpSettings,  \* tab_hotkeys, multi_sound_hotkeys and group_mode
  hpPrefers,   \* session_backend_preference
  hpInstalled, \* the backends that can be started
  hpBackend,   \* HotkeyManager.backend
  hpIndex,     \* what the backend answers to: chord -> binding
  hpDown,      \* modifier keys that are down
  hpSocket,    \* X events the connection holds
  hpRead,      \* X events Xlib has read and not handed out
  hpMods,      \* active_mods
  hpPipe,      \* lines in the pipe
  hpQueue,     \* the queue of the listener
  hpPosted,    \* ids posted to the main loop
  hpCapturing, \* a shortcut is being recorded
  hpShown,     \* the tab that shows
  hpLast,      \* play_dispatch_debounce
  hpJobs,      \* presses that are not done, in the order of their dispatch
  hpCursor,    \* hotkey_group_cursor
  hpTurns,     \* history: the picks in next mode, with what there was to pick from
  hpEvents

hpLibrary == <<hpTable, hpSettings>>
hpManager == <<hpPrefers, hpInstalled, hpBackend, hpIndex>>
hpKeys == <<hpDown, hpSocket, hpRead, hpMods, hpPipe>>
hpLoop == <<hpPosted, hpCapturing, hpShown, hpLast>>
hpWork == <<hpJobs, hpCursor, hpTurns>>
hpVars == <<hpLibrary, hpManager, hpKeys, hpQueue, hpLoop, hpWork, hpEvents>>

CtrlKeys == {"Control_L", "Control_R"}
Unbound == [chord |-> {}, scope |-> HpNone, set |-> FALSE]

HpHappens == hpEvents < HpMaxEvents /\ hpEvents' = hpEvents + 1

\* What the projection hands to the backend: of each chord's bindings the
\* first.
Projected(table) ==
  [c \in {table[b].chord : b \in {a \in Bindings : table[a].set}} |->
     CHOOSE b \in Bindings :
       /\ table[b].set /\ table[b].chord = c
       /\ \A a \in 1 .. b - 1 : ~(table[a].set /\ table[a].chord = c)]

HpInit ==
  /\ hpTable \in HpTables
  /\ hpSettings \in [tabs : BOOLEAN, multi : BOOLEAN, mode : {"same", "next", "random"}]
  /\ hpPrefers \in {"wayland", "x11", "auto"}
  /\ hpInstalled \in SUBSET {"swhkd", "x11"}
  /\ hpBackend = "none" /\ hpIndex = [c \in {} |-> 0]
  /\ hpDown = {} /\ hpSocket = <<>> /\ hpRead = <<>> /\ hpMods = {} /\ hpPipe = <<>>
  /\ hpQueue = <<>> /\ hpPosted = <<>>
  /\ hpCapturing = FALSE
  /\ hpShown \in HpScopes
  /\ hpLast = HpNone
  /\ hpJobs = <<>>
  /\ hpCursor = [b \in Bindings |-> HpNone]
  /\ hpTurns = [b \in Bindings |-> <<>>]
  /\ hpEvents = 0

-----------------------------------------------------------------------------
(* The backend. *)

\* select_backend: which backends are tried, in which order.
BackendOrder ==
  CASE hpPrefers = "wayland" -> <<"swhkd">>
    [] hpPrefers = "x11" -> <<"x11", "swhkd">>
    [] OTHER -> <<"swhkd", "x11">>

\* A projection. The backend is started for the first binding there is, and
\* again tried by the next projection when none could be. The X11 listener
\* starts with no modifier, whatever keys are down.
Project ==
  LET usable == SelectSeq(BackendOrder, LAMBDA b : b \in hpInstalled)
      wanted == Projected(hpTable)
      chosen == CASE hpBackend # "none" -> hpBackend
                  [] wanted = [c \in {} |-> 0] \/ usable = <<>> -> "none"
                  [] OTHER -> Head(usable)
  IN  /\ chosen # "none"
      /\ wanted # hpIndex
      /\ hpBackend' = chosen /\ hpIndex' = wanted
      /\ UNCHANGED <<hpLibrary, hpPrefers, hpInstalled, hpKeys, hpQueue, hpLoop, hpWork, hpEvents>>

\* The user installs swhkd.
InstallSwhkd ==
  /\ "swhkd" \notin hpInstalled /\ HpHappens
  /\ hpInstalled' = hpInstalled \cup {"swhkd"}
  /\ UNCHANGED <<hpLibrary, hpPrefers, hpBackend, hpIndex, hpKeys, hpQueue, hpLoop, hpWork>>

\* A binding gets another key, or its sound is deleted.
EditBinding ==
  /\ HpHappens
  /\ \E b \in Bindings :
       /\ hpTable[b].set
       /\ hpTable' \in {[hpTable EXCEPT ![b] = Unbound],
                        [hpTable EXCEPT ![b].chord = IF @ = {} THEN {"ctrl"} ELSE {}]}
  /\ UNCHANGED <<hpSettings, hpManager, hpKeys, hpQueue, hpLoop, hpWork>>

-----------------------------------------------------------------------------
(* X11. *)

Held == IF hpDown = {} THEN {} ELSE {"ctrl"}
XEvents(event) == hpSocket' = IF hpBackend = "x11" THEN Append(hpSocket, event) ELSE hpSocket

\* A modifier key goes down or comes up.
Modifier ==
  /\ HpHappens
  /\ \E k \in CtrlKeys :
       /\ hpDown' = IF k \in hpDown THEN hpDown \ {k} ELSE hpDown \cup {k}
       /\ XEvents([key |-> k, press |-> k \notin hpDown, held |-> {}])
  /\ UNCHANGED <<hpLibrary, hpManager, hpRead, hpMods, hpPipe, hpQueue, hpLoop, hpWork>>

\* The ordinary key is struck, with what is held now.
Strike ==
  /\ hpBackend = "x11" /\ HpHappens
  /\ XEvents([key |-> "key", press |-> TRUE, held |-> Held])
  /\ UNCHANGED <<hpLibrary, hpManager, hpDown, hpRead, hpMods, hpPipe, hpQueue, hpLoop, hpWork>>

\* try_dispatch_hotkey: what does not fit into the queue is dropped.
Dispatched(press) == IF Len(hpQueue) < HpQueueSize THEN Append(hpQueue, press) ELSE hpQueue

\* Fault: a modifier counts until the other one of its kind is released too.
StickyModified(press) == IF press THEN hpMods \cup {"ctrl"} ELSE hpMods

\* update_modifier.
Modified(press) == IF press THEN hpMods \cup {"ctrl"} ELSE hpMods \ {"ctrl"}

\* The listener polls the connection and takes one event. Xlib reads all the
\* connection holds for it; what it has read waits for the next event to come,
\* since the connection is empty.
Listen ==
  LET event == Head(hpRead \o hpSocket)
      chord == hpMods
  IN  /\ hpSocket # <<>>
      /\ IF hpRead = <<>> THEN hpRead' = Tail(hpSocket) /\ hpSocket' = <<>>
         ELSE hpRead' = Tail(hpRead) /\ UNCHANGED hpSocket
      /\ IF event.key \in CtrlKeys
           THEN hpMods' = Modified(event.press) /\ UNCHANGED hpQueue
           ELSE /\ hpQueue' = IF chord \in DOMAIN hpIndex
                              THEN Dispatched([id |-> hpIndex[chord], chord |-> chord, held |-> event.held])
                              ELSE hpQueue
                /\ UNCHANGED hpMods
      /\ UNCHANGED <<hpLibrary, hpManager, hpDown, hpPipe, hpLoop, hpWork, hpEvents>>

-----------------------------------------------------------------------------
(* swhkd. *)

\* The daemon writes the id of a chord it is configured with, or the pipe
\* gets something that is no id.
DaemonWrites ==
  /\ hpBackend = "swhkd" /\ HpHappens
  /\ \E line \in {[id |-> hpIndex[c], chord |-> c, held |-> c] : c \in DOMAIN hpIndex}
                 \cup {[id |-> HpNone, chord |-> {}, held |-> {}]} :
       hpPipe' = Append(hpPipe, line)
  /\ UNCHANGED <<hpLibrary, hpManager, hpDown, hpSocket, hpRead, hpMods, hpQueue, hpLoop, hpWork>>

\* read_pipe_binding. The pipe is open for writing here too, so it never ends.
ReadLine ==
  /\ hpPipe # <<>>
  /\ hpPipe' = Tail(hpPipe)
  /\ hpQueue' = IF Head(hpPipe).id = HpNone THEN hpQueue ELSE Dispatched(Head(hpPipe))
  /\ UNCHANGED <<hpLibrary, hpManager, hpDown, hpSocket, hpRead, hpMods, hpLoop, hpWork, hpEvents>>

-----------------------------------------------------------------------------
(* The main loop. *)

\* The bridge thread empties the queue into the main loop, which has no bound.
PostPress ==
  /\ hpQueue # <<>>
  /\ hpPosted' = Append(hpPosted, Head(hpQueue))
  /\ hpQueue' = Tail(hpQueue)
  /\ UNCHANGED <<hpLibrary, hpManager, hpKeys, hpCapturing, hpShown, hpLast, hpWork, hpEvents>>

Job(press) == [id |-> press.id, shown |-> hpShown, step |-> "queued", from |-> <<>>, pick |-> HpNone]

\* handle_hotkey and dispatch_play_sound_async: a press is ignored while a
\* shortcut is being recorded, and when the same binding was pressed less than
\* SAME_SOUND_DEBOUNCE_MS ago.
HandleHotkey ==
  LET press == Head(hpPosted)
  IN  /\ hpPosted # <<>>
      /\ hpPosted' = Tail(hpPosted)
      /\ \/ /\ ~hpCapturing
            /\ hpLast' = press.id
            /\ hpJobs' = Append(hpJobs, Job(press))
         \/ /\ hpCapturing \/ hpLast = press.id
            /\ UNCHANGED <<hpLast, hpJobs>>
      /\ UNCHANGED <<hpLibrary, hpManager, hpKeys, hpQueue, hpCapturing, hpShown, hpCursor, hpTurns, hpEvents>>

\* The user opens or closes the dialog that records a shortcut, or another tab.
ShowOrRecord ==
  /\ HpHappens
  /\ \/ hpCapturing' = ~hpCapturing /\ UNCHANGED hpShown
     \/ hpShown' \in HpScopes \ {hpShown} /\ UNCHANGED hpCapturing
  /\ UNCHANGED <<hpLibrary, hpManager, hpKeys, hpQueue, hpPosted, hpLast, hpWork>>

-----------------------------------------------------------------------------
(* A worker: play_sound_from_library with resolve_hotkey_press. *)

\* load_hotkey_group: who shares the pressed binding's key now, and the order it
\* lists them in.
Group(id) == {b \in Bindings : hpTable[id].set /\ hpTable[b].set /\ hpTable[b].chord = hpTable[id].chord}
InListOrder(group) ==
  [k \in 1 .. Cardinality(group) |-> CHOOSE b \in group : Cardinality({a \in group : a < b}) = k - 1]

\* Fault: whatever tab shows when the library answers.
InScopeNow(b, shown) == hpTable[b].scope \in {HpNone, hpShown}
InScope(b, shown) == hpTable[b].scope \in {HpNone, shown}

\* select_from_group: those a press may pick from; none when none is in scope,
\* when they are of different scopes, or when they are several and may not be.
Eligible(group, shown) ==
  LET some  == {b \in group : hpSettings.tabs => InScope(b, shown)}
      mixed == \E a, b \in some : hpTable[a].scope # hpTable[b].scope
  IN  IF mixed \/ (Cardinality(some) > 1 /\ ~hpSettings.multi) THEN <<>> ELSE InListOrder(some)

Position(some, b) == CHOOSE i \in DOMAIN some : some[i] = b

\* Fault: next takes the one that was played last.
PicksSame(some, last) ==
  {IF last \in ToSet(some) THEN last ELSE some[1]}

\* select_from_group: which of them, by the group mode.
Picks(some, last) ==
  LET at == IF last \in ToSet(some) THEN Position(some, last) ELSE 0
  IN  CASE hpSettings.mode = "random" /\ Len(some) > 1 -> ToSet(some)
        [] hpSettings.mode = "next" /\ Len(some) > 1 -> {some[(at % Len(some)) + 1]}
        [] OTHER -> {IF at = 0 THEN some[1] ELSE last}

Running == {j \in DOMAIN hpJobs : hpJobs[j].step # "queued"}
WithoutJob(j) == [i \in 1 .. Len(hpJobs) - 1 |-> IF i < j THEN hpJobs[i] ELSE hpJobs[i + 1]]

\* A worker takes the oldest press and reads the group.
LoadGroup ==
  \E j \in DOMAIN hpJobs :
    LET some == Eligible(Group(hpJobs[j].id), hpJobs[j].shown)
    IN  /\ hpJobs[j].step = "queued" /\ \A i \in 1 .. j - 1 : i \in Running
        /\ Cardinality(Running) < HpWorkers
        /\ hpJobs' = IF some = <<>> THEN WithoutJob(j)
                     ELSE [hpJobs EXCEPT ![j].step = "pick", ![j].from = some]
        /\ UNCHANGED <<hpLibrary, hpManager, hpKeys, hpQueue, hpLoop, hpCursor, hpTurns, hpEvents>>

\* It reads the cursor and picks.
PickSound ==
  \E j \in DOMAIN hpJobs :
    /\ hpJobs[j].step = "pick"
    /\ \E s \in Picks(hpJobs[j].from, hpCursor[hpJobs[j].id]) :
         hpJobs' = [hpJobs EXCEPT ![j].step = "note", ![j].pick = s]
    /\ UNCHANGED <<hpLibrary, hpManager, hpKeys, hpQueue, hpLoop, hpCursor, hpTurns, hpEvents>>

\* It writes the cursor, which another press may have written meanwhile.
NotePick ==
  \E j \in DOMAIN hpJobs :
    LET job == hpJobs[j]
        overlaps == \E i \in DOMAIN hpJobs \ {j} : hpJobs[i].id = job.id /\ hpJobs[i].step = "note"
    IN  /\ job.step = "note"
        /\ hpCursor' = [hpCursor EXCEPT ![job.id] = job.pick]
        /\ hpTurns' = IF hpSettings.mode # "next" \/ overlaps
                      THEN [hpTurns EXCEPT ![job.id] = <<>>]
                      ELSE [hpTurns EXCEPT ![job.id] = Append(@, [pick |-> job.pick, from |-> job.from])]
        /\ hpJobs' = [hpJobs EXCEPT ![j].step = "play"]
        /\ UNCHANGED <<hpLibrary, hpManager, hpKeys, hpQueue, hpLoop, hpEvents>>

\* It asks for the sound, which may be gone, and plays it.
PlayPick ==
  \E j \in DOMAIN hpJobs :
    /\ hpJobs[j].step = "play"
    /\ hpJobs' = WithoutJob(j)
    /\ UNCHANGED <<hpLibrary, hpManager, hpKeys, hpQueue, hpLoop, hpCursor, hpTurns, hpEvents>>

HpNext ==
  \/ Project \/ InstallSwhkd \/ EditBinding \/ Modifier \/ Strike \/ Listen \/ DaemonWrites \/ ReadLine
  \/ PostPress \/ HandleHotkey \/ ShowOrRecord \/ LoadGroup \/ PickSound \/ NotePick \/ PlayPick

HpSpec == HpInit /\ [][HpNext]_hpVars

-----------------------------------------------------------------------------
(* Properties. *)

Press == [id : Bindings \cup {HpNone}, chord : Chords, held : Chords]
PressJob ==
  [id : Bindings, shown : HpScopes, step : {"queued", "pick", "note", "play"},
   from : Seq(Bindings), pick : Bindings \cup {HpNone}]

PressTypeOK ==
  /\ hpBackend \in {"none", "swhkd", "x11"}
  /\ DOMAIN hpIndex \subseteq Chords
  /\ hpDown \subseteq CtrlKeys /\ hpMods \in Chords
  /\ Len(hpQueue) <= HpQueueSize
  /\ {hpPipe, hpQueue, hpPosted} \subseteq Seq(Press)
  /\ hpJobs \in Seq(PressJob) /\ Cardinality(Running) <= HpWorkers
  /\ hpCursor \in [Bindings -> Bindings \cup {HpNone}]

\* A key with modifiers triggers its binding only when they were all down when
\* the key was struck, however late the listener reads the events and in
\* whichever order the two keys of a modifier come up. (Not the converse: to
\* release one of two held keys clears the modifier.)
OnlyHeldModifiersCount ==
  \A press \in ToSet(hpQueue) \cup ToSet(hpPosted) : press.chord \subseteq press.held

\* A press chooses from the sounds of the tab that showed when the main loop
\* handled it, also when another tab shows by the time the library answers.
PressesKeepTheirTab ==
  hpSettings.tabs =>
    \A j \in DOMAIN hpJobs : \A b \in ToSet(hpJobs[j].from) :
      hpTable[b].set => hpTable[b].scope \in {HpNone, hpJobs[j].shown}

\* And as long as a binding may choose from the same sounds, its presses take all
\* of them in turn before one comes again - unless two presses overlapped.
PressesTakeTurns ==
  /\ PressesKeepTheirTab
  /\ \A b \in Bindings : \A i, j \in DOMAIN hpTurns[b] :
       LET turns == hpTurns[b]
           same  == \A k \in i .. j : turns[k].from = turns[i].from
       IN  i < j /\ j - i < Len(turns[i].from) /\ same => turns[i].pick # turns[j].pick
===============================================================================
