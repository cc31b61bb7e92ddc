------------------------------ MODULE FolderTree ------------------------------
(***************************************************************************)
(* The folder tree of the sidebar: what library_store.rs keeps of a        *)
(* scanned root's folders, and what the user changes of it in              *)
(* ui/tabs_sidebar.rs while a refresh may be running.                      *)
(*                                                                         *)
(* A refresh stages folders and sounds under a new generation and then     *)
(* makes it the active one; the first one of a migrated library also turns *)
(* the folder tabs of the old version into folder preferences.  The user   *)
(* hides, orders and combines folders, and keeps sounds in custom tabs.    *)
(*                                                                         *)
(* There is one root and one refresh at a time: RootScan has several of    *)
(* each and failing requests.  A sound is a path, so its folder is fixed.  *)
(***************************************************************************)
EXTENDS Integers, FiniteSets, FiniteSetsExt, Functions

CONSTANTS
  FtFolders,    \* folders that may exist below the root
  FtAbove,      \* [FtFolders -> the folder and the folders above it]
  FtSounds,     \* files that may exist below the root
  FtFolderOf,   \* [FtSounds -> the folders a file is in, at any depth]
  FtImported,   \* sounds of a library imported from the old version
  FtFolderTab,  \* the folder of its folder tab
  FtMaxScans,   \* bound: refreshes
  FtMaxEdits    \* bound: edits by the user, files added or removed

ASSUME FolderTreeAssumption ==
  /\ FtAbove \in [FtFolders -> SUBSET FtFolders]
  /\ IsFiniteSet(FtFolders)
  /\ \A f \in FtFolders : f \in FtAbove[f]
  /\ \A f, g \in FtFolders : f \in FtAbove[g] => FtAbove[f] \subseteq FtAbove[g]
  /\ \A f, g \in FtFolders : f \in FtAbove[g] /\ g \in FtAbove[f] => f = g
  /\ FtFolderOf \in [FtSounds -> SUBSET FtFolders]
  /\ \A s \in FtSounds : \A f \in FtFolderOf[s] : FtAbove[f] \subseteq FtFolderOf[s]
  /\ \A s \in FtSounds : \A f, g \in FtFolderOf[s] : f \in FtAbove[g] \/ g \in FtAbove[f]
  /\ FtImported \subseteq FtSounds
  /\ FtFolderTab \in FtFolders
  /\ {FtMaxScans, FtMaxEdits} \subseteq Nat

VARIABLES
  ftDisk,       \* the files that exist
  ftRoot,       \* is there a row in table roots?
  ftActive,     \* roots.active_generation
  ftHighest,    \* the highest generation that has rows
  ftOpen,       \* generation of meta row "active_scan", 0 when there is none
  ftCommand,    \* the refresh command
  ftRows,       \* table folders: id of each folder that has a row
  ftPresent,    \* folder_presence and
  ftLocated,    \*   sound_locations of the active generation
  ftStaged,     \* the same of the generation being staged
  ftPrefs,      \* folder_prefs: of each folder that has a row there
  ftOverrides,  \* folder_overrides: action of each folder and sound
  ftKnown,      \* table sounds
  ftStandalone, \* sounds.standalone
  ftTabs,       \* manual_tabs and manual_memberships: the sounds of each tab
  ftLegacy,     \* legacy_generated_tabs: folder and sounds of each tab
  ftAsked,      \* a drop that the store or the user has still to answer
  ftHidden,     \* history: folders the user has hidden, while scans find them
  ftScans, ftEdits

ftTree == <<ftPrefs, ftOverrides>>
ftLibrary == <<ftKnown, ftStandalone, ftTabs, ftLegacy>>
ftScan == <<ftActive, ftHighest, ftOpen, ftCommand, ftPresent, ftLocated, ftStaged, ftRows>>
ftVars == <<ftTree, ftLibrary, ftScan, ftDisk, ftRoot, ftAsked, ftHidden, ftScans, ftEdits>>

NothingStaged == [folders |-> {}, sounds |-> {}]
NotAsked == [kind |-> "nothing"]
NoPrefs == [hidden |-> FALSE, position |-> 0]
NoRows == [x \in {} |-> x]

\* public_id of the folder tab, of the user's own tab, and of the tab that a
\* folder with this row is turned into by the scan of generation g.
FolderTab == <<0, 0>>
OwnTab == <<0, 1>>
ConvertedTab(f, g) == <<ftRows[f], g>>

(***************************************************************************)
(* What the tables say.                                                    *)
(***************************************************************************)

\* INSERT ... ON CONFLICT DO UPDATE of some columns.
Upsert(rows, changed) ==
  [k \in DOMAIN rows \cup DOMAIN changed |-> IF k \in DOMAIN changed THEN changed[k] ELSE rows[k]]
PrefOf(f) == IF f \in DOMAIN ftPrefs THEN ftPrefs[f] ELSE NoPrefs

IsHidden(f) == f \in DOMAIN ftPrefs /\ ftPrefs[f].hidden
\* load_folder_children: the folders that the sidebar shows.
Shown(f) == f \in ftPresent /\ \A g \in FtAbove[f] : ~IsHidden(g)

Siblings(f) == {g \in ftPresent : FtAbove[g] \ {g} = FtAbove[f] \ {f}}
PositionOf(f) == IF f \in DOMAIN ftPrefs THEN ftPrefs[f].position ELSE 0
\* ORDER BY COALESCE(sibling_position, position), id; a scan gives position 0.
ShownBefore(f, g) ==
  PositionOf(f) < PositionOf(g) \/ (PositionOf(f) = PositionOf(g) /\ ftRows[f] < ftRows[g])
PlaceAmong(f, folders) == Cardinality({g \in folders : ShownBefore(g, f)})

\* LIVE_SOUND_FILTER.
LiveSound(s) ==
  \/ s \in ftStandalone
  \/ \E t \in DOMAIN ftTabs : s \in ftTabs[t]
  \/ s \in ftLocated /\ \A f \in FtFolderOf[s] : ~IsHidden(f)

WithAction(f, action) ==
  {s \in FtSounds : <<f, s>> \in DOMAIN ftOverrides /\ ftOverrides[<<f, s>>] = action}
\* The list of a folder (LibraryScope::Folder).
InFolder(f) ==
  IF f \notin ftPresent THEN {}
  ELSE ({s \in ftLocated : f \in FtFolderOf[s]} \cup WithAction(f, "include"))
         \ WithAction(f, "exclude")

FtInit ==
  /\ ftDisk \in SUBSET FtSounds
  /\ ftRoot = TRUE /\ ftCommand = "idle"
  /\ ftActive = 0 /\ ftHighest = 0 /\ ftOpen = 0
  /\ ftRows = NoRows /\ ftPresent = {} /\ ftLocated = {} /\ ftStaged = NothingStaged
  /\ ftPrefs = NoRows /\ ftOverrides = NoRows
  /\ \/ /\ ftKnown = {}
        /\ ftTabs = NoRows
        /\ ftLegacy = NoRows
     \/ /\ ftKnown = FtImported
        /\ ftTabs = [t \in {FolderTab} |-> {s \in FtImported : FtFolderTab \in FtFolderOf[s]}]
        /\ ftLegacy = [t \in {FolderTab} |-> [folder |-> FtFolderTab, sounds |-> ftTabs[t]]]
  /\ ftStandalone = ftKnown
  /\ ftAsked = NotAsked
  /\ ftHidden = {}
  /\ ftScans = 0 /\ ftEdits = 0

(***************************************************************************)
(* The refresh.                                                            *)
(***************************************************************************)

\* begin_root_scan writes the root's row again if it is gone.
FtBegin ==
  /\ ftCommand = "idle" /\ ftScans < FtMaxScans
  /\ ftScans' = ftScans + 1
  /\ ftCommand' = "scanning"
  /\ ftRoot' = TRUE
  /\ ftOpen' = ftHighest + 1
  /\ ftStaged' = NothingStaged
  /\ UNCHANGED <<ftTree, ftLibrary, ftActive, ftHighest, ftRows, ftPresent, ftLocated, ftDisk,
                 ftAsked, ftHidden, ftEdits>>

\* ensure_scan_folder: rows for a folder and the ones above it, outermost first.
FoldersEnsured(folders) ==
  LET new == folders \ DOMAIN ftRows
      last == IF ftRows = NoRows THEN 0 ELSE Max(Range(ftRows))
      after(f) == {g \in new : Cardinality(FtAbove[g]) <= Cardinality(FtAbove[f])}
  IN [f \in DOMAIN ftRows \cup new |->
        IF f \in new THEN last + Cardinality(after(f)) ELSE ftRows[f]]

KeepPrefs(folders) == ftPrefs
\* Faulty variant: INSERT OR REPLACE, which deletes the row and what refers to it.
ReplacePrefs(folders) == Restrict(ftPrefs, DOMAIN ftPrefs \ folders)
PrefsAfterScan(folders) == KeepPrefs(folders)

\* apply_root_scan_batch for one sound; refused once the root is removed.
FtStage ==
  /\ ftCommand = "scanning" /\ ftOpen # 0
  /\ \E s \in ftDisk \ ftStaged.sounds :
       /\ ftRows' = FoldersEnsured(FtFolderOf[s])
       /\ ftPrefs' = PrefsAfterScan(FtFolderOf[s])
       /\ ftStaged' = [folders |-> ftStaged.folders \cup FtFolderOf[s],
                       sounds |-> ftStaged.sounds \cup {s}]
       /\ ftKnown' = ftKnown \cup {s}
       /\ ftStandalone' = ftStandalone \ {s}
  /\ ftHighest' = ftOpen
  /\ UNCHANGED <<ftOverrides, ftTabs, ftLegacy, ftActive, ftOpen, ftCommand, ftPresent, ftLocated,
                 ftDisk, ftRoot, ftAsked, ftHidden, ftScans, ftEdits>>

\* cancel_root_scan; the folder rows stay until the next scan is published.
FtCancel ==
  /\ ftCommand = "scanning"
  /\ ftCommand' = "idle"
  /\ ftOpen' = 0
  /\ ftStaged' = NothingStaged
  /\ ftHighest' = IF ftOpen = 0 THEN ftHighest ELSE ftActive
  /\ UNCHANGED <<ftTree, ftLibrary, ftActive, ftRows, ftPresent, ftLocated, ftDisk, ftRoot, ftAsked,
                 ftHidden, ftScans, ftEdits>>

\* convert_disappeared_custom_folders: the folders that become tabs.
Disappeared ==
  {f \in ftPresent \ ftStaged.folders :
     f \in DOMAIN ftPrefs \/ \E s \in FtSounds : <<f, s>> \in DOMAIN ftOverrides}

\* Both kinds of new tabs are inserted without ON CONFLICT.
FinishRefused ==
  \/ \E t \in DOMAIN ftLegacy : ftLegacy[t].folder \notin ftStaged.folders /\ t \in DOMAIN ftTabs
  \/ \E f \in Disappeared : ConvertedTab(f, ftOpen) \in DOMAIN ftTabs

\* reconcile_legacy_generated_tabs.
Reconciled == {t \in DOMAIN ftLegacy : ftLegacy[t].folder \in ftStaged.folders}
LegacyPrefs ==
  Upsert(ftPrefs, [f \in {ftLegacy[t].folder : t \in Reconciled} |-> [PrefOf(f) EXCEPT !.position = 1]])
LegacyOverrides ==
  LET physical(t) == {s \in ftStaged.sounds : ftLegacy[t].folder \in FtFolderOf[s]}
      differs == {d \in Reconciled \X FtSounds :
                    (d[2] \in ftLegacy[d[1]].sounds) # (d[2] \in physical(d[1]))}
      action(f, s) == IF \E t \in Reconciled : ftLegacy[t].folder = f /\ s \in ftLegacy[t].sounds
                      THEN "include" ELSE "exclude"
  IN Upsert(ftOverrides,
            [k \in {<<ftLegacy[d[1]].folder, d[2]>> : d \in differs} |-> action(k[1], k[2])])
TabsAfterScan ==
  LET converted == {ConvertedTab(f, ftOpen) : f \in Disappeared}
      asTab(t) == CHOOSE f \in Disappeared : ConvertedTab(f, ftOpen) = t
      known(t) == IF t \in DOMAIN ftTabs THEN ftTabs[t] ELSE {}
      restored == {t \in DOMAIN ftLegacy : t \in DOMAIN ftTabs \/ t \notin Reconciled}
  IN [t \in DOMAIN ftTabs \cup restored \cup converted |->
        IF t \in converted THEN InFolder(asTab(t))
        ELSE IF t \in restored THEN known(t) \cup ftLegacy[t].sounds
        ELSE known(t)]

\* finish_root_scan; a verified scan whose new tabs clash is rolled back, and
\* the command returns the error without cancelling.
FtFinish ==
  /\ ftCommand = "scanning" /\ ftDisk \subseteq ftStaged.sounds
  /\ ftCommand' = "idle"
  /\ IF ftOpen = 0 \/ FinishRefused
     THEN UNCHANGED <<ftTree, ftTabs, ftLegacy, ftActive, ftHighest, ftOpen, ftPresent, ftLocated,
                      ftStaged, ftRows, ftHidden>>
     ELSE /\ ftPrefs' = Restrict(LegacyPrefs, DOMAIN LegacyPrefs \cap ftStaged.folders)
          /\ ftOverrides' = Restrict(LegacyOverrides,
                              {k \in DOMAIN LegacyOverrides : k[1] \in ftStaged.folders})
          /\ ftTabs' = TabsAfterScan
          /\ ftLegacy' = NoRows
          /\ ftRows' = Restrict(ftRows, DOMAIN ftRows \cap ftStaged.folders)
          /\ ftPresent' = ftStaged.folders
          /\ ftLocated' = ftStaged.sounds
          /\ ftActive' = ftOpen
          /\ ftHighest' = ftOpen
          /\ ftOpen' = 0
          /\ ftStaged' = NothingStaged
          /\ ftHidden' = ftHidden \cap ftStaged.folders
  /\ UNCHANGED <<ftKnown, ftStandalone, ftDisk, ftRoot, ftAsked, ftScans, ftEdits>>

DiskChanges ==
  /\ ftEdits < FtMaxEdits
  /\ ftEdits' = ftEdits + 1
  /\ \E s \in FtSounds : ftDisk' = IF s \in ftDisk THEN ftDisk \ {s} ELSE ftDisk \cup {s}
  /\ UNCHANGED <<ftTree, ftLibrary, ftScan, ftRoot, ftAsked, ftHidden, ftScans>>

(***************************************************************************)
(* The user's edits: one store request each.                               *)
(***************************************************************************)

FtEdit ==
  /\ ftEdits < FtMaxEdits
  /\ ftEdits' = ftEdits + 1
  /\ UNCHANGED <<ftDisk, ftScans>>

EditsTree == FtEdit /\ UNCHANGED <<ftLibrary, ftScan, ftRoot>>

SetHidden(f, hidden) ==
  ftPrefs' = Upsert(ftPrefs, [g \in {f} |-> [PrefOf(g) EXCEPT !.hidden = hidden]])

\* "Remove Folder" in the sidebar, confirmed.
HideFolder ==
  /\ EditsTree
  /\ \E f \in FtFolders : Shown(f) /\ SetHidden(f, TRUE) /\ ftHidden' = ftHidden \cup {f}
  /\ UNCHANGED <<ftOverrides, ftAsked>>

\* "Removed Folders" in the settings (load_hidden_folders).
UnhideFolder ==
  /\ EditsTree
  /\ \E f \in FtFolders : IsHidden(f) /\ SetHidden(f, FALSE) /\ ftHidden' = ftHidden \ {f}
  /\ UNCHANGED <<ftOverrides, ftAsked>>

\* A folder is expanded or renamed: a row in folder_prefs and nothing else here.
CustomiseFolder ==
  /\ EditsTree
  /\ \E f \in FtFolders :
       Shown(f) /\ ftPrefs' = Upsert(ftPrefs, [g \in {f} |-> PrefOf(g)])
  /\ UNCHANGED <<ftOverrides, ftAsked, ftHidden>>

Placed(place) ==
  ftPrefs' = Upsert(ftPrefs, [f \in DOMAIN place |-> [PrefOf(f) EXCEPT !.position = place[f]]])

\* move_folder: writes the row numbers of the two folders that change places.
MoveFolder ==
  /\ EditsTree
  /\ \E f \in FtFolders, direction \in {-1, 1} :
       LET place(g) == PlaceAmong(g, Siblings(f)) IN
       /\ Shown(f)
       /\ \E g \in Siblings(f) :
            /\ place(g) = place(f) + direction
            /\ Placed([h \in {f, g} |-> IF h = f THEN place(g) ELSE place(f)])
  /\ UNCHANGED <<ftOverrides, ftAsked, ftHidden>>

\* handle_folder_drop between two rows: the places it reads are those among the
\* folders shown; the request waits in the store's lane.
DropBetween ==
  /\ EditsTree /\ ftAsked = NotAsked
  /\ \E f, g \in FtFolders, after \in BOOLEAN :
       LET place(h) == PlaceAmong(h, {k \in Siblings(f) : Shown(k)})
           raw == IF after THEN place(g) + 1 ELSE place(g)
       IN /\ f # g /\ Shown(f) /\ Shown(g) /\ g \in Siblings(f)
          /\ ftAsked' = [kind |-> "reorder", folder |-> f,
                         place |-> IF place(f) < raw THEN raw - 1 ELSE raw]
  /\ UNCHANGED <<ftTree, ftHidden>>

\* Faulty variant: as move_folder does, only the folder in the way changes too.
PlacesSwapped(f, to) ==
  LET place(g) == PlaceAmong(g, Siblings(f)) IN
  Placed([g \in {h \in Siblings(f) : h = f \/ place(h) = to} |-> IF g = f THEN to ELSE place(f)])

\* reorder_folder writes the position of every sibling.
PlacesShifted(f, to) ==
  LET others(g) == PlaceAmong(g, Siblings(f) \ {f})
      last == Cardinality(Siblings(f)) - 1
      target == IF to < last THEN to ELSE last
  IN Placed([g \in Siblings(f) |-> IF g = f THEN target
                                    ELSE IF others(g) < target THEN others(g) ELSE others(g) + 1])

ReorderFolder ==
  /\ ftAsked.kind = "reorder"
  /\ ftAsked' = NotAsked
  /\ IF ftAsked.folder \in ftPresent /\ PlaceAmong(ftAsked.folder, Siblings(ftAsked.folder)) # ftAsked.place
     THEN PlacesShifted(ftAsked.folder, ftAsked.place)
     ELSE UNCHANGED ftPrefs
  /\ UNCHANGED <<ftOverrides, ftLibrary, ftScan, ftDisk, ftRoot, ftHidden, ftScans, ftEdits>>

\* A folder dropped on another one: its list is read and the user is asked.
DropInto ==
  /\ EditsTree /\ ftAsked = NotAsked
  /\ \E f, g \in FtFolders :
       /\ Shown(f) /\ Shown(g) /\ f \notin FtAbove[g]
       /\ InFolder(f) # {}
       /\ ftAsked' = [kind |-> "combine", source |-> f, target |-> g, sounds |-> InFolder(f)]
  /\ UNCHANGED <<ftTree, ftHidden>>

\* insert_folder_overrides: one transaction, refused if any row finds no folder
\* or no sound.
BatchAccepted(folders, sounds) == folders \subseteq DOMAIN ftRows /\ sounds \subseteq ftKnown

\* folder_drop_overrides, confirmed by the user.
CombineFolders ==
  /\ ftAsked.kind = "combine"
  /\ ftAsked' = NotAsked
  /\ IF BatchAccepted({ftAsked.source, ftAsked.target}, ftAsked.sounds)
     THEN ftOverrides' = Upsert(ftOverrides,
            [k \in ({ftAsked.source, ftAsked.target} \cap DOMAIN ftRows) \X (ftAsked.sounds \cap ftKnown) |->
               IF k[1] = ftAsked.target THEN "include" ELSE "exclude"])
     ELSE UNCHANGED ftOverrides
  /\ UNCHANGED <<ftPrefs, ftLibrary, ftScan, ftDisk, ftRoot, ftHidden, ftScans, ftEdits>>

Dismiss ==
  /\ ftAsked.kind = "combine"
  /\ ftAsked' = NotAsked
  /\ UNCHANGED <<ftTree, ftLibrary, ftScan, ftDisk, ftRoot, ftHidden, ftScans, ftEdits>>

EditsTabs(tabs) ==
  /\ FtEdit
  /\ ftTabs' = tabs
  /\ UNCHANGED <<ftTree, ftKnown, ftStandalone, ftLegacy, ftScan, ftRoot, ftAsked, ftHidden>>

\* To the user's tab, which is created first.
AddToTab ==
  LET members == IF OwnTab \in DOMAIN ftTabs THEN ftTabs[OwnTab] ELSE {}
  IN \E s \in FtSounds : LiveSound(s) /\ EditsTabs(Upsert(ftTabs, [t \in {OwnTab} |-> members \cup {s}]))
RemoveFromTab ==
  \E t \in DOMAIN ftTabs : \E s \in ftTabs[t] : EditsTabs([ftTabs EXCEPT ![t] = @ \ {s}])
DeleteTab == \E t \in DOMAIN ftTabs : EditsTabs(Restrict(ftTabs, DOMAIN ftTabs \ {t}))

\* Faulty variant: a sound outlives its root only if it was imported alone.
KeptStandalone == ftStandalone
\* The sounds that outlive their root.
KeptWithoutRoot == ftStandalone \cup UNION Range(ftTabs)

\* remove_root, and what the deleted rows take with them.
RemoveRoot ==
  /\ FtEdit /\ ftRoot
  /\ ftRoot' = FALSE
  /\ ftActive' = 0 /\ ftHighest' = 0 /\ ftOpen' = 0
  /\ ftRows' = NoRows /\ ftPresent' = {} /\ ftLocated' = {} /\ ftStaged' = NothingStaged
  /\ ftPrefs' = NoRows /\ ftOverrides' = NoRows
  /\ ftKnown' = KeptWithoutRoot
  /\ ftLegacy' = [t \in DOMAIN ftLegacy |-> [ftLegacy[t] EXCEPT !.sounds = @ \cap KeptWithoutRoot]]
  /\ ftHidden' = {}
  /\ UNCHANGED <<ftCommand, ftStandalone, ftTabs, ftAsked>>

FtNext ==
  \/ FtBegin \/ FtStage \/ FtCancel \/ FtFinish \/ DiskChanges
  \/ HideFolder \/ UnhideFolder \/ CustomiseFolder \/ MoveFolder
  \/ DropBetween \/ ReorderFolder \/ DropInto \/ CombineFolders \/ Dismiss
  \/ AddToTab \/ RemoveFromTab \/ DeleteTab \/ RemoveRoot

FtSpec == FtInit /\ [][FtNext]_ftVars

(***************************************************************************)
(* Properties.                                                             *)
(***************************************************************************)

FolderTreeTypeOK ==
  /\ {ftDisk, ftKnown, ftStandalone, ftLocated, ftStaged.sounds} \subseteq SUBSET FtSounds
  /\ {DOMAIN ftRows, DOMAIN ftPrefs, ftPresent, ftStaged.folders} \subseteq SUBSET FtFolders
  /\ ftRows \in [DOMAIN ftRows -> Nat \ {0}]
  /\ \A f \in DOMAIN ftPrefs : ftPrefs[f].hidden \in BOOLEAN /\ ftPrefs[f].position \in Nat
  /\ DOMAIN ftOverrides \subseteq (DOMAIN ftRows) \X ftKnown
  /\ \A t \in DOMAIN ftTabs : ftTabs[t] \subseteq ftKnown
  /\ ftStandalone \subseteq ftKnown
  /\ ftPresent \cup ftStaged.folders \cup DOMAIN ftPrefs \subseteq DOMAIN ftRows
  /\ ftActive <= ftHighest
  /\ ftCommand \in {"idle", "scanning"}

\* "A rescan does not bring the folder back": as long as every scan published
\* since the user hid a folder has found it, it stays out of the sidebar and
\* its sounds out of General, unless they are listed for another reason.
HiddenFoldersStayHidden ==
  \A f \in ftHidden :
    /\ ~Shown(f)
    /\ \A s \in FtSounds :
         f \in FtFolderOf[s] /\ LiveSound(s) =>
           s \in ftStandalone \/ \E t \in DOMAIN ftTabs : s \in ftTabs[t]

\* A drop moves the dropped folder and nothing else, and a refresh moves no
\* folder: in every step all siblings but one keep their order.  (Not so the
\* menu's Move Up and Move Down, nor the first scan of a migrated library.)
OneFolderMovesAtATime ==
  [][<<ftPrefs, ftRows>>' # <<ftPrefs, ftRows>> =>
       \/ \E moved \in FtFolders :
            \A f, g \in (ftPresent \cap ftPresent') \ {moved} :
              g \in Siblings(f) => (ShownBefore(f, g) <=> ShownBefore(f, g)')
       \/ DOMAIN ftLegacy # {}
       \/ MoveFolder]_ftVars

\* "Sounds already imported are kept" when a scan is stopped: as long as no scan
\* of the root has been published, and none is running, the sounds imported from
\* the old version are listed as before.  (Violated: staging a sound clears
\* sounds.standalone, and cancelling the scan does not set it again.)
ImportedSoundsAreKept ==
  ftCommand = "idle" /\ ftRoot /\ ftActive = 0 => \A s \in ftKnown \cap FtImported : LiveSound(s)
===============================================================================
