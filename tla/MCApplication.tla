---------------------------- MODULE MCApplication ----------------------------
(***************************************************************************)
(* Small instances of the components that share no state with one another, *)
(* checked in one run: "part" names the component whose behaviour is       *)
(* explored, the others keep their first state.                            *)
(***************************************************************************)
EXTENDS PagedList, HotkeyBindings, Startup, FolderTree, LoudnessJobs, EngineLifecycle, EngineSettings,
  CaptureRouting, FeederLinks, MixQueues, Decoding, EngineCalls, HotkeyDaemon, SidebarTree, SidebarTabs, HotkeyPress, StoreSchema, Dialogs, SoundImport, AdjacentPlay

CONSTANTS folderA, folderB, folderC, folderD, s1, s2, s3, micEffects, micRaw, tabA, tabB, fileA, fileB

VARIABLE part

\* Folders a, b and c below the root and d below a, with a file in d, b and c;
\* the last two were imported, and b had a folder tab.
McFolders == {folderA, folderB, folderC, folderD}
McSounds == {s1, s2, s3}
McAbove == [f \in McFolders |-> IF f = folderD THEN {folderA, folderD} ELSE {f}]
McFolderOf == [s \in McSounds |-> IF s = s1 THEN {folderA, folderD} ELSE IF s = s2 THEN {folderB} ELSE {folderC}]
McImported == {s2, s3}

\* An effects source is preferred to a hardware microphone.
McMics == {micEffects, micRaw}
McMicRank == [n \in McMics |-> IF n = micEffects THEN 2 ELSE 1]

\* Down from, and up to, the sampling rate of the output.
McRates == {<<3, 2>>, <<1, 2>>}
McEmptyFile == [kind |-> "container", packets |-> <<>>, skip |-> 0, granule |-> 0, ended |-> TRUE]

\* Two sounds share a key: anywhere, or each in a tab of its own.
McTabs == {tabA, tabB}
McBound(chord, scope) == [chord |-> chord, scope |-> scope, set |-> TRUE]
McHpTables ==
  {<<McBound({}, HpNone), McBound({}, HpNone), McBound({"ctrl"}, HpNone)>>,
   <<McBound({"ctrl"}, tabA), McBound({"ctrl"}, tabB), McBound({}, HpNone)>>}

\* Two of the hotkeys of the first schema are the same key.
McKeyOf == [s \in McSounds |-> IF s = s3 THEN 2 ELSE 1]
McVersions == 0 .. 7

\* Of two dropped files the library may have the second.
McFiles == {fileA, fileB}
McDrops == {<<fileB, fileA>>}

\* Of each component's initial states, those the run starts from.
McInit ==
  /\ part \in {"list", "hotkeys", "startup", "folders", "loudness", "engines", "settings", "capture", "feeder", "mix",
              "decoding", "calls", "daemon", "tree", "tabs", "press", "schema", "dialogs", "import", "adjacent"}
  /\ ListInit /\ HkInit /\ StartupInit /\ FtInit /\ LjInit /\ ElInit /\ EsInit
  /\ CrInit /\ FlInit
  /\ part # "startup" => latest = 0
  /\ ftDisk = FtSounds /\ ftKnown = FtImported
  /\ ljAutoGain
  /\ ljLoudness = <<"pending", "pending">> \/ (part = "loudness" /\ ljLoudness = <<"pending", "absent">>)
  /\ part # "engines" => ~elWanted
  /\ esMemory = [volume |-> 1, mute |-> FALSE, mic |-> FALSE]
  /\ part # "capture" => ~crOn
  /\ mxRuntime = [target |-> MxUltra, looping |-> FALSE, passthrough |-> TRUE]
  /\ part # "decoding" => dcFile = McEmptyFile /\ dcRate = <<1, 2>>
  /\ hpTable \in McHpTables /\ (part # "press" => hpTable[1].scope = HpNone)
  /\ hpPrefers = "auto" /\ hpInstalled = {"x11"} /\ hpShown = tabA
  /\ hpSettings = [tabs |-> hpTable[1].scope # HpNone, multi |-> TRUE, mode |-> "next"]
  /\ ssFile \in (IF part = "schema" THEN StoredFiles ELSE {Empty})
  /\ dgSharing \in (IF part = "dialogs" THEN BOOLEAN ELSE {TRUE})
  /\ imRows \in {<<SoundRow(fileA, TRUE)>>, <<[SoundRow(fileA, FALSE) EXCEPT !.place = "hidden"]>>}
  /\ part # "import" => imRows[1].standalone
  /\ apIn \in (IF part = "adjacent" THEN {{}, ApSounds} ELSE {{}})
  /\ apPlace = [s \in ApSounds |-> 0]
  /\ apActive \in (IF part = "adjacent" THEN {0} \cup ApSounds ELSE {0})
  /\ MxInit /\ DcInit /\ EcInit /\ HdInit /\ StInit /\ TbInit /\ HpInit /\ SsInit /\ DgInit /\ ImInit /\ ApInit

McNext ==
  /\ UNCHANGED part
  /\ \/ part = "list" /\ ListNext
     \/ part # "list" /\ UNCHANGED listVars
  /\ \/ part = "hotkeys" /\ HkNext
     \/ part # "hotkeys" /\ UNCHANGED hkVars
  /\ \/ part = "startup" /\ StartupNext
     \/ part # "startup" /\ UNCHANGED startupVars
  /\ \/ part = "folders" /\ FtNext
     \/ part # "folders" /\ UNCHANGED ftVars
  /\ \/ part = "loudness" /\ LjNext
     \/ part # "loudness" /\ UNCHANGED ljVars
  /\ \/ part = "engines" /\ ElNext
     \/ part # "engines" /\ UNCHANGED elVars
  /\ \/ part = "settings" /\ EsNext
     \/ part # "settings" /\ UNCHANGED esVars
  /\ \/ part = "capture" /\ CrNext
     \/ part # "capture" /\ UNCHANGED crVars
  /\ \/ part = "feeder" /\ FlNext
     \/ part # "feeder" /\ UNCHANGED flVars
  /\ \/ part = "mix" /\ MxNext
     \/ part # "mix" /\ UNCHANGED mxVars
  /\ \/ part = "decoding" /\ DcNext
     \/ part # "decoding" /\ UNCHANGED dcVars
  /\ \/ part = "calls" /\ EcNext
     \/ part # "calls" /\ UNCHANGED ecVars
  /\ \/ part = "daemon" /\ HdNext
     \/ part # "daemon" /\ UNCHANGED hdVars
  /\ \/ part = "tree" /\ StNext
     \/ part # "tree" /\ UNCHANGED stVars
  /\ \/ part = "tabs" /\ TbNext
     \/ part # "tabs" /\ UNCHANGED tbVars
  /\ \/ part = "press" /\ HpNext
     \/ part # "press" /\ UNCHANGED hpVars
  /\ \/ part = "schema" /\ SsNext
     \/ part # "schema" /\ UNCHANGED ssVars
  /\ \/ part = "dialogs" /\ DgNext
     \/ part # "dialogs" /\ UNCHANGED dgVars
  /\ \/ part = "import" /\ ImNext
     \/ part # "import" /\ UNCHANGED imVars
  /\ \/ part = "adjacent" /\ ApNext
     \/ part # "adjacent" /\ UNCHANGED apVars

mcVars ==
  <<part, listVars, hkVars, startupVars, ftVars, ljVars, elVars, esVars, crVars, flVars,
    mxVars, dcVars, ecVars, hdVars, stVars, tbVars, hpVars, ssVars, dgVars, imVars, apVars>>
McSpec == McInit /\ [][McNext]_mcVars

\* States are the same when they are the same to the explored component.
McView ==
  CASE part = "list" -> <<part, listVars>>
    [] part = "hotkeys" -> <<part, hkVars>>
    [] part = "startup" -> <<part, startupVars>>
    [] part = "folders" -> <<part, ftVars>>
    [] part = "loudness" -> <<part, ljVars>>
    [] part = "engines" -> <<part, elVars>>
    [] part = "settings" -> <<part, esVars>>
    [] part = "capture" -> <<part, crVars>>
    [] part = "feeder" -> <<part, flVars>>
    [] part = "mix" -> <<part, mxVars>>
    [] part = "decoding" -> <<part, dcVars>>
    [] part = "calls" -> <<part, ecVars>>
    [] part = "daemon" -> <<part, hdVars>>
    [] part = "tree" -> <<part, stVars>>
    [] part = "tabs" -> <<part, tbVars>>
    [] part = "press" -> <<part, hpVars>>
    [] part = "schema" -> <<part, ssVars>>
    [] part = "dialogs" -> <<part, dgVars>>
    [] part = "import" -> <<part, imVars>>
    [] part = "adjacent" -> <<part, apVars>>

\* The state of the explored component is of its type.
ApplicationTypeOK ==
  CASE part = "list" -> ListTypeOK
    [] part = "hotkeys" -> HotkeyTypeOK
    [] part = "startup" -> StartupTypeOK
    [] part = "folders" -> FolderTreeTypeOK
    [] part = "loudness" -> LoudnessTypeOK
    [] part = "engines" -> EngineTypeOK
    [] part = "settings" -> SettingsTypeOK
    [] part = "capture" -> CaptureTypeOK
    [] part = "feeder" -> FeederTypeOK
    [] part = "mix" -> MixTypeOK
    [] part = "decoding" -> DecodingTypeOK
    [] part = "calls" -> CallTypeOK
    [] part = "daemon" -> DaemonTypeOK
    [] part = "tree" -> SidebarTreeTypeOK
    [] part = "tabs" -> SidebarTabsTypeOK
    [] part = "press" -> PressTypeOK
    [] part = "schema" -> SchemaTypeOK
    [] part = "dialogs" -> DialogTypeOK
    [] part = "import" -> ImportTypeOK
    [] part = "adjacent" -> AdjacentTypeOK
===============================================================================
