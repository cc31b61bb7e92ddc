----------------------------- MODULE SoundImport -----------------------------
(***************************************************************************)
(* The commands that add, change and remove single sounds: dropped files   *)
(* (ui/dnd_import.rs, ui/sound_list/interaction.rs), and the commands of   *)
(* commands/library.rs and commands/playback/mod.rs that import, rename,   *)
(* relocate, analyse and remove, each on a worker of the pool and in       *)
(* several requests to the store.  A refresh of the scanned folders, the   *)
(* sidebar and the disk go on between the requests.                        *)
(*                                                                         *)
(* A file stands for its path.  A loudness is the file it was measured on. *)
(***************************************************************************)
EXTENDS Naturals, Sequences, SequencesExt, FiniteSets

CONSTANTS
  ImFiles,      \* audio files
  ImTabs,       \* manual tabs
  ImNone,       \* no file, no tab
  ImBatch,      \* sounds per batch of an import: MAX_BATCH_ROWS / 2
  ImDrops,      \* what may be dropped: sequences of files
  ImJobs,       \* bound: commands under way at once, by number
  ImMaxEvents,  \* bound: commands, drags and drops
  ImMaxChanges  \* bound: steps of others, failing requests

ASSUME ImportAssumption ==
  /\ ImBatch \in Nat \ {0} /\ {ImMaxEvents, ImMaxChanges} \subseteq Nat
  /\ ImNone \notin ImFiles \cup ImTabs /\ ImJobs \subseteq Nat

VARIABLES
  imRows,     \* the table of sounds by public id, NoSound once deleted
  imMembers,  \* manual_memberships
  imTabs,     \* manual_tabs
  imDisk,     \* the files that exist
  imJob,      \* the commands under way
  imRemoving, \* SoundListInner.removal_pending
  imZone,     \* what the drop zone of the window shows
  imHover,    \* drag_hover_count
  imTimers,   \* hide_drop_zone_later not yet fired
  imLost,     \* history: files a sound of which went out of the library
  imStale,    \* history: sounds a command wrote from what it had read earlier
  imEvents, imChanges

imVars == <<imRows, imMembers, imTabs, imDisk, imJob, imRemoving, imZone, imHover, imTimers,
            imLost, imStale, imEvents, imChanges>>
uiVars == <<imRemoving, imZone, imHover, imTimers>>

NoSound == [path |-> ImNone, name |-> "file", loud |-> ImNone, standalone |-> FALSE, place |-> "none"]
ImIdle == [kind |-> "none", step |-> "none", todo |-> <<>>, given |-> {}, batch |-> <<>>,
              added |-> {}, tab |-> ImNone, id |-> 0, file |-> ImNone, seen |-> NoSound,
              window |-> FALSE, ok |-> FALSE]

ImIds(rows) == {i \in DOMAIN rows : rows[i] # NoSound}

\* LIVE_SOUND_FILTER
InLibrary(rows, members, i) ==
  rows[i] # NoSound /\ (rows[i].standalone \/ rows[i].place = "live" \/ \E t \in ImTabs : <<t, i>> \in members)
LiveFiles(rows, members) == {rows[i].path : i \in {j \in DOMAIN rows : InLibrary(rows, members, j)}}
StoredPaths(rows) == {rows[i].path : i \in ImIds(rows)}

\* A sound of its own, or found by a scan, of which the rows are not yet shown.
SoundRow(f, own) ==
  [NoSound EXCEPT !.path = f, !.standalone = own, !.place = IF own THEN "none" ELSE "staged"]

ImInit ==
  /\ \E f \in ImFiles : imRows \in {<<SoundRow(f, TRUE)>>, <<[SoundRow(f, FALSE) EXCEPT !.place = "hidden"]>>}
  /\ imMembers = {} /\ imTabs = ImTabs /\ imDisk = ImFiles
  /\ imJob = [j \in ImJobs |-> ImIdle]
  /\ imRemoving = FALSE /\ imZone = "hidden" /\ imHover = 0 /\ imTimers = 0
  /\ imLost = {} /\ imStale = {}
  /\ imEvents = 0 /\ imChanges = 0

\* The library is changed to "rows" and "members".
Store(rows, members) ==
  /\ imRows' = rows /\ imMembers' = members
  /\ imLost' = imLost \cup (LiveFiles(imRows, imMembers) \ LiveFiles(rows, members))
SameStore == UNCHANGED <<imRows, imMembers, imLost, imStale>>
ImEvent == imEvents < ImMaxEvents /\ imEvents' = imEvents + 1 /\ UNCHANGED imChanges
ImChange == imChanges < ImMaxChanges /\ imChanges' = imChanges + 1 /\ UNCHANGED imEvents
ImStep == UNCHANGED <<imEvents, imChanges>>

(***************************************************************************)
(* The window and the list of sounds.                                      *)
(***************************************************************************)

\* dispatch_async_result: a worker of the pool is given the command.
PostCommand(kind, command) ==
  /\ ImEvent
  /\ LET free == {j \in ImJobs : imJob[j] = ImIdle} IN
       /\ free # {}
       /\ LET j == CHOOSE k \in free : \A l \in free : k <= l IN
          imJob' = [imJob EXCEPT ![j] = [command EXCEPT !.kind = kind, !.step = "start"]]
  /\ UNCHANGED <<imTabs, imDisk>> /\ SameStore

\* connect_enter and connect_leave of either drop target of the window.
DragEnters ==
  /\ ImEvent /\ imHover = 0
  /\ imHover' = imHover + 1 /\ imZone' = "ready"
  /\ UNCHANGED <<imTabs, imDisk, imJob, imRemoving, imTimers>> /\ SameStore
DragLeaves ==
  /\ imHover > 0 /\ ImStep
  /\ imHover' = IF imHover <= 1 THEN 0 ELSE imHover - 1
  /\ imZone' = IF imHover <= 1 THEN "hidden" ELSE imZone
  /\ UNCHANGED <<imTabs, imDisk, imJob, imRemoving, imTimers>> /\ SameStore

\* handle_drop_import, of a drop that holds an audio file, and
\* handle_dropped_files of the list: into the tab that is shown.
DropFiles(files, tab, window) ==
  /\ PostCommand("import", [ImIdle EXCEPT !.todo = files, !.tab = tab, !.window = window])
  /\ IF window THEN imHover' = 0 /\ imZone' = "importing" ELSE UNCHANGED <<imHover, imZone>>
  /\ UNCHANGED <<imRemoving, imTimers>>
\* A drop without one.
RejectDrop ==
  /\ ImEvent
  /\ imHover' = 0 /\ imZone' = "rejected" /\ imTimers' = imTimers + 1
  /\ UNCHANGED <<imTabs, imDisk, imJob, imRemoving>> /\ SameStore
HideZone ==
  /\ imTimers > 0 /\ ImStep
  /\ imTimers' = imTimers - 1 /\ imZone' = "hidden"
  /\ UNCHANGED <<imTabs, imDisk, imJob, imRemoving, imHover>> /\ SameStore

RenameSound(i) == PostCommand("rename", [ImIdle EXCEPT !.id = i]) /\ UNCHANGED uiVars
AnalyzeSound(i) == PostCommand("analyze", [ImIdle EXCEPT !.id = i]) /\ UNCHANGED uiVars
\* The dialog of a missing file, once another one is chosen.
LocateSound(i, f) ==
  /\ imRows[i].path \notin imDisk
  /\ PostCommand("locate", [ImIdle EXCEPT !.id = i, !.file = f])
  /\ UNCHANGED uiVars

\* request_sound_removal, confirmed, and remove_sounds_now.
RemoveSounds(ids) ==
  /\ ~imRemoving /\ imRemoving' = TRUE
  /\ PostCommand("remove", [ImIdle EXCEPT !.todo = ids])
  /\ UNCHANGED <<imZone, imHover, imTimers>>

\* The callbacks of the commands.
TakeCommandAnswer(j) ==
  LET c == imJob[j] IN
  /\ c.step = "answer" /\ ImStep
  /\ imJob' = [imJob EXCEPT ![j] = ImIdle]
  /\ imRemoving' = (imRemoving /\ c.kind # "remove")
  /\ imZone' = IF c.kind = "import" /\ c.window THEN "hidden" ELSE imZone
  /\ UNCHANGED <<imTabs, imDisk, imHover, imTimers>> /\ SameStore

(***************************************************************************)
(* The commands, a request to the store at a time.                         *)
(***************************************************************************)

OnJob(j, command) ==
  imJob' = [imJob EXCEPT ![j] = command] /\ UNCHANGED <<imTabs, imDisk, uiVars>>
AnsweredWith(c, ok) == [c EXCEPT !.step = "answer", !.ok = ok]
AtStep(j, kind, step) == imJob[j].kind = kind /\ imJob[j].step = step

\* A request is refused or fails, the projection of the hotkeys among them.
JobFails(j) ==
  /\ imJob[j].step \notin {"none", "answer"} /\ ImChange
  /\ OnJob(j, AnsweredWith(imJob[j], FALSE)) /\ SameStore

\* The sounds in the library, and in the tab, are counted.
BeginImport(j) ==
  /\ AtStep(j, "import", "start") /\ ImStep
  /\ OnJob(j, [imJob[j] EXCEPT !.step = "look"]) /\ SameStore

\* Of the next file: is_audio_file, check_file_exists, accepted_paths and
\* sound_by_path.
LookUpFile(j) ==
  LET c == imJob[j]
      f == Head(c.todo)
      known == f \notin imDisk \/ f \in c.given \/ f \in LiveFiles(imRows, imMembers)
      batch == IF known THEN c.batch ELSE Append(c.batch, f)
  IN
  /\ AtStep(j, "import", "look") /\ c.todo # <<>> /\ ImStep
  /\ OnJob(j, [c EXCEPT !.todo = Tail(@), !.batch = batch, !.given = @ \cup ({f} \cap imDisk),
                       !.step = IF Len(batch) >= ImBatch THEN "flush" ELSE "look"])
  /\ SameStore
LookedUpAll(j) ==
  /\ AtStep(j, "import", "look") /\ imJob[j].todo = <<>> /\ ImStep
  /\ OnJob(j, IF imJob[j].batch = <<>> THEN AnsweredWith(imJob[j], TRUE)
             ELSE [imJob[j] EXCEPT !.step = "flush"])
  /\ SameStore

\* Faulty variant: as insert_scan_sound, ON CONFLICT(path) DO NOTHING.
InsertableOrKept(files) == TRUE
\* insert_sounds: sounds.path is unique, so a row that is not shown, or that has
\* come since, fails the whole batch.
Insertable(files) == ToSet(files) \cap StoredPaths(imRows) = {}
InsertedRows(files) ==
  imRows \o [k \in DOMAIN files |-> IF files[k] \in StoredPaths(imRows) THEN NoSound ELSE SoundRow(files[k], TRUE)]

FlushSounds(j) ==
  LET c == imJob[j]
      new == {Len(imRows) + k : k \in DOMAIN c.batch}
  IN
  /\ AtStep(j, "import", "flush") /\ ImStep
  /\ IF Insertable(c.batch)
     THEN /\ Store(InsertedRows(c.batch), imMembers)
          /\ OnJob(j, [c EXCEPT !.added = @ \cup new,
                               !.batch = IF c.tab = ImNone THEN <<>> ELSE @,
                               !.step = IF c.tab = ImNone THEN "look" ELSE "members"])
     ELSE OnJob(j, AnsweredWith(c, FALSE)) /\ UNCHANGED <<imRows, imMembers, imLost>>
  /\ UNCHANGED imStale

\* insert_manual_memberships: each must name a tab and a sound that exist.
FlushMembers(j) ==
  LET c == imJob[j]
      ids == {i \in c.added : ~ \E t \in ImTabs : <<t, i>> \in imMembers}
  IN
  /\ AtStep(j, "import", "members") /\ ImStep
  /\ IF c.tab \in imTabs /\ ids \subseteq ImIds(imRows)
     THEN /\ Store(imRows, imMembers \cup ({c.tab} \X ids))
          /\ OnJob(j, [c EXCEPT !.batch = <<>>, !.step = "look"])
     ELSE OnJob(j, AnsweredWith(c, FALSE)) /\ UNCHANGED <<imRows, imMembers, imLost>>
  /\ UNCHANGED imStale

\* sound_by_id of the rename, the relocation and the analysis, of which the
\* second looks for its file first and the third reads the file.
ReadSound(j) ==
  LET c == imJob[j]
      live == c.id \in DOMAIN imRows /\ InLibrary(imRows, imMembers, c.id)
      readable == CASE c.kind = "locate" -> c.file \in imDisk
                    [] c.kind = "analyze" -> live => imRows[c.id].path \in imDisk
                    [] OTHER -> TRUE
  IN
  /\ c.kind \in {"rename", "locate", "analyze"} /\ c.step = "start" /\ ImStep
  /\ OnJob(j, IF live /\ readable THEN [c EXCEPT !.step = "write", !.seen = imRows[c.id]]
             ELSE AnsweredWith(c, FALSE))
  /\ SameStore

\* The columns that update_sound writes, all of them as they were read but for
\* those the command is about.
Renamed(row) == [row EXCEPT !.name = "chosen"]
Located(row, f) == [row EXCEPT !.path = f, !.loud = ImNone]
WrittenRow(c) ==
  LET to == IF c.kind = "rename" THEN Renamed(c.seen) ELSE Located(c.seen, c.file)
  IN [imRows[c.id] EXCEPT !.path = to.path, !.name = to.name, !.loud = to.loud]

\* update_sound: of a row that is gone it changes nothing, which is no failure.
UpdateSound(j) ==
  LET c == imJob[j]
      to == WrittenRow(c)
      taken == \E i \in ImIds(imRows) \ {c.id} : imRows[i].path = to.path
  IN
  /\ c.kind \in {"rename", "locate"} /\ c.step = "write" /\ ImStep
  /\ IF imRows[c.id] = NoSound \/ taken
     THEN OnJob(j, AnsweredWith(c, ~taken \/ imRows[c.id] = NoSound)) /\ SameStore
     ELSE /\ Store([imRows EXCEPT ![c.id] = to], imMembers)
          /\ imStale' = IF imRows[c.id].path # c.seen.path THEN imStale \cup {c.id} ELSE imStale
          /\ OnJob(j, AnsweredWith(c, TRUE))

\* apply_loudness_updates: the loudness of the file that was read, or that it
\* has none.
WriteLoudness(j) ==
  LET c == imJob[j] IN
  /\ AtStep(j, "analyze", "write") /\ ImStep
  /\ \E loud \in {c.seen.path, ImNone} :
       Store(IF imRows[c.id] = NoSound THEN imRows ELSE [imRows EXCEPT ![c.id].loud = loud], imMembers)
  /\ imStale' = IF imRows[c.id] # NoSound /\ imRows[c.id].path # c.seen.path
                THEN imStale \cup {c.id} ELSE imStale
  /\ OnJob(j, AnsweredWith(c, TRUE))

\* delete_sound of one after the other, then the projection.
DeleteSound(j) ==
  LET c == imJob[j]
      i == Head(c.todo)
  IN
  /\ AtStep(j, "remove", "start") /\ c.todo # <<>> /\ ImStep
  /\ Store([imRows EXCEPT ![i] = NoSound], {m \in imMembers : m[2] # i})
  /\ OnJob(j, [c EXCEPT !.todo = Tail(@)])
  /\ UNCHANGED imStale
DeletedAll(j) ==
  /\ AtStep(j, "remove", "start") /\ imJob[j].todo = <<>> /\ ImStep
  /\ OnJob(j, AnsweredWith(imJob[j], TRUE)) /\ SameStore

(***************************************************************************)
(* A refresh of the folders, the sidebar, and the disk.                    *)
(***************************************************************************)

\* insert_scan_sound: a row that is there is taken for a scanned one.
StageSound(f) ==
  /\ ImChange
  /\ Store(IF f \in StoredPaths(imRows)
           THEN [i \in DOMAIN imRows |->
                   IF imRows[i].path # f THEN imRows[i]
                   ELSE [imRows[i] EXCEPT !.standalone = FALSE, !.place = IF @ = "none" THEN "staged" ELSE @]]
           ELSE Append(imRows, SoundRow(f, FALSE)),
           imMembers)
  /\ UNCHANGED <<imTabs, imDisk, imJob, uiVars, imStale>>

\* The scan is published; a folder is hidden, or shown again.
Moved(from, to) ==
  [i \in DOMAIN imRows |-> IF imRows[i].place = from THEN [imRows[i] EXCEPT !.place = to] ELSE imRows[i]]
PlaceSounds ==
  /\ ImChange
  /\ \E move \in {<<"staged", "live">>, <<"live", "hidden">>, <<"hidden", "live">>} :
       /\ \E i \in DOMAIN imRows : imRows[i].place = move[1]
       /\ Store(Moved(move[1], move[2]), imMembers)
  /\ UNCHANGED <<imTabs, imDisk, imJob, uiVars, imStale>>

DeleteImportTab(t) ==
  /\ t \in imTabs /\ ImChange
  /\ imTabs' = imTabs \ {t}
  /\ Store(imRows, {m \in imMembers : m[1] # t})
  /\ UNCHANGED <<imDisk, imJob, uiVars, imStale>>
FileVanishes(f) ==
  /\ f \in imDisk /\ ImChange
  /\ imDisk' = imDisk \ {f}
  /\ UNCHANGED <<imTabs, imJob, uiVars>> /\ SameStore

ImNext ==
  \/ \E files \in ImDrops, tab \in imTabs \cup {ImNone}, window \in BOOLEAN : DropFiles(files, tab, window)
  \/ DragEnters \/ DragLeaves \/ RejectDrop \/ HideZone
  \/ \E i \in ImIds(imRows) : RenameSound(i) \/ AnalyzeSound(i) \/ RemoveSounds(<<i>>)
  \/ \E i \in ImIds(imRows), f \in ImFiles : LocateSound(i, f)
  \/ RemoveSounds(SetToSeq(ImIds(imRows)))
  \/ \E j \in ImJobs :
       \/ TakeCommandAnswer(j) \/ JobFails(j)
       \/ BeginImport(j) \/ LookUpFile(j) \/ LookedUpAll(j) \/ FlushSounds(j) \/ FlushMembers(j)
       \/ ReadSound(j) \/ UpdateSound(j) \/ WriteLoudness(j)
       \/ DeleteSound(j) \/ DeletedAll(j)
  \/ \E f \in ImFiles : StageSound(f) \/ FileVanishes(f)
  \/ PlaceSounds
  \/ \E t \in ImTabs : DeleteImportTab(t)

ImSpec == ImInit /\ [][ImNext]_imVars

-------------------------------------------------------------------------------

ImportTypeOK ==
  /\ \A i \in DOMAIN imRows : imRows[i] \in
       [path : ImFiles \cup {ImNone}, name : {"file", "chosen"}, loud : ImFiles \cup {ImNone},
        standalone : BOOLEAN, place : {"none", "staged", "live", "hidden"}]
  /\ imMembers \subseteq ImTabs \X DOMAIN imRows
  /\ imTabs \subseteq ImTabs /\ imDisk \subseteq ImFiles
  /\ \A j \in ImJobs : imJob[j].kind \in {"none", "import", "rename", "locate", "analyze", "remove"}
  /\ imZone \in {"hidden", "ready", "importing", "rejected"}
  /\ imRemoving = (\E j \in ImJobs : imJob[j].kind = "remove")

\* What an import tells the user is true: after Ok each file that was dropped
\* and exists is in the library, unless a sound of it has left it meanwhile,
\* and each sound it added to a tab is there as long as both last.  While the
\* window shows that files are imported, a drop on it is.
ImportsAnswerTruly ==
  /\ \A j \in ImJobs :
       imJob[j].kind = "import" /\ imJob[j].step = "answer" /\ imJob[j].ok =>
         /\ imJob[j].given \subseteq LiveFiles(imRows, imMembers) \cup imLost
         /\ imJob[j].tab \in imTabs =>
              {imJob[j].tab} \X (imJob[j].added \cap ImIds(imRows)) \subseteq imMembers
  /\ imZone = "importing" => \E j \in ImJobs : imJob[j].kind = "import" /\ imJob[j].window

\* A sound has the loudness of its own file or none, unless a command that had
\* read it before its file was changed has written it since.
LoudnessIsOfItsFile ==
  \A i \in ImIds(imRows) : imRows[i].loud \in {ImNone, imRows[i].path} \/ i \in imStale

\* What the commands on single sounds say, of their outcome and in the library.
SoundCommandsAreTrue == ImportsAnswerTruly /\ LoudnessIsOfItsFile
===============================================================================
