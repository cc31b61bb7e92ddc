------------------------------- MODULE Startup -------------------------------
(***************************************************************************)
(* Startup of the application up to an open library: bootstrap.rs with     *)
(* legacy_migration.rs.                                                    *)
(*                                                                         *)
(* config.json holds everything in the legacy schemas and only settings in *)
(* the current one, where library.sqlite3 holds the rest.  A start looks   *)
(* at both files, and creates, migrates, finishes a migration, offers to   *)
(* restore the backup, or refuses.  The process may be killed between any  *)
(* two changes of the files; what it wrote is then all the next start has. *)
(*                                                                         *)
(* A legacy configuration is a number: the how-manieth content the old     *)
(* version of the program has written.  A file is written as a candidate   *)
(* and renamed, so each change of a file is one step; candidates that a    *)
(* crash leaves behind are removed by the next migration and not modelled. *)
(***************************************************************************)
EXTENDS Naturals, FiniteSets

CONSTANTS
  MaxContents, \* bound: contents the old version has written
  MaxLosses,   \* bound: files lost or damaged by somebody else
  MaxStarts    \* bound: starts of the program

ASSUME StartupAssumption == MaxContents \in Nat \ {0} /\ {MaxLosses, MaxStarts} \subseteq Nat

VARIABLES
  config,     \* config.json: kind, and the legacy content it is or comes from
  library,    \* library.sqlite3: state, source_sha256, and the user's work in it
  backup,     \* config.json.pre-v8-backup: a content, or 0
  archived,   \* the files *.pre-restore-*
  pc,         \* what the program is doing
  source,     \* source_sha256 of the running migration
  imported,   \* content its candidate database has been filled from
  cancelled,  \* the flag of the Cancel button
  latest,     \* history: what the old version has written last
  taken,      \* what the running restore has archived
  unseen,     \* history: contents overwritten that came after the last check
  worked,     \* history: the user has worked in a library that nobody else lost
  broken,     \* history: killed with a library half made or a backup half restored
  starts, losses

files == <<config, library, backup, archived, taken>>
startupVars == <<files, pc, source, imported, cancelled, latest, unseen, worked, broken,
                starts, losses>>

Contents == 1 .. MaxContents
NoConfig == [kind |-> "none", from |-> 0]
LegacyConfig(v) == [kind |-> "legacy", from |-> v]
NewConfig(v) == [kind |-> "new", from |-> v]
NoLibrary == [state |-> "none", source |-> 0, used |-> FALSE]
NewLibrary(state, v) == [state |-> state, source |-> v, used |-> FALSE]

ConfigExists == config.kind # "none"
LibraryExists == library.state # "none"
\* database_identity succeeds.
Identified == library.state = "ready"

Boot(next) == pc' = next
KeepFiles == UNCHANGED files
KeepMigration == UNCHANGED <<source, imported, cancelled>>
KeepHistory == UNCHANGED <<latest, unseen, worked, broken, starts, losses>>

StartupInit ==
  /\ \E v \in {0, 1} :
       /\ config = IF v = 0 THEN NoConfig ELSE LegacyConfig(v)
       /\ latest = v
  /\ library = NoLibrary /\ backup = 0 /\ archived = {} /\ taken = <<NoLibrary, NoConfig>>
  /\ pc = "off" /\ source = 0 /\ imported = 0 /\ cancelled = FALSE
  /\ unseen = {} /\ worked = FALSE /\ broken = FALSE /\ starts = 0 /\ losses = 0

-----------------------------------------------------------------------------
(* The decision. *)

\* start_application takes the storage lock: one process at a time.
Start ==
  /\ pc = "off" /\ starts < MaxStarts
  /\ starts' = starts + 1
  /\ Boot("prepare")
  /\ KeepFiles /\ KeepMigration
  /\ UNCHANGED <<latest, unseen, worked, broken, losses>>

\* Fault: a library is taken for the configuration's without comparing them.
DecisionUnmatched ==
  CASE ~ConfigExists /\ ~LibraryExists -> "create"
    [] ~ConfigExists /\ LibraryExists -> IF Identified THEN "saveDefaults" ELSE "refused"
    [] config.kind = "legacy" /\ LibraryExists -> IF Identified THEN "cutover" ELSE "refused"
    [] config.kind = "legacy" /\ ~LibraryExists -> "askMigrate"
    [] config.kind = "new" /\ ~LibraryExists -> IF backup # 0 THEN "refused" ELSE "askEmpty"
    [] config.kind = "new" /\ LibraryExists -> IF Identified THEN "run" ELSE "refused"

\* prepare_startup_storage_at, and what start_application does with it.
Decision ==
  CASE ~ConfigExists /\ ~LibraryExists -> "create"
    [] ~ConfigExists /\ LibraryExists ->
         IF Identified /\ library.source = 0 THEN "saveDefaults" ELSE "refused"
    [] config.kind = "legacy" /\ LibraryExists ->
         IF Identified /\ library.source = config.from THEN "cutover" ELSE "refused"
    [] config.kind = "legacy" /\ ~LibraryExists -> "askMigrate"
    [] config.kind = "new" /\ ~LibraryExists -> IF backup # 0 THEN "refused" ELSE "askEmpty"
    [] config.kind = "new" /\ LibraryExists -> IF Identified THEN "run" ELSE "refused"

Prepare ==
  /\ pc = "prepare"
  /\ Boot(Decision)
  /\ KeepFiles /\ KeepMigration /\ KeepHistory

-----------------------------------------------------------------------------
(* A new library. *)

\* prompt_empty_library_creation.
AnswerEmpty ==
  /\ pc = "askEmpty"
  /\ pc' \in {"off", "create"}
  /\ KeepFiles /\ KeepMigration /\ KeepHistory

\* initialize_empty_library opens the database at its final path ...
CreateLibrary ==
  /\ pc = "create"
  /\ library' = NewLibrary("raw", 0)
  /\ Boot("markReady")
  /\ UNCHANGED <<config, backup, archived, taken>> /\ KeepMigration /\ KeepHistory

\* ... and marks it ready. A first start then saves the default settings, the
\* prompt starts over.
MarkReady ==
  /\ pc = "markReady"
  /\ library' = NewLibrary("ready", 0)
  /\ Boot(IF ConfigExists THEN "prepare" ELSE "saveDefaults")
  /\ UNCHANGED <<config, backup, archived, taken>> /\ KeepMigration /\ KeepHistory

SaveDefaults ==
  /\ pc = "saveDefaults"
  /\ config' = NewConfig(0)
  /\ Boot("run")
  /\ UNCHANGED <<library, backup, archived, taken>> /\ KeepMigration /\ KeepHistory

\* What new settings overwrite although they do not come from it.
Overwritten(v) == IF config = LegacyConfig(v) THEN {} ELSE {config.from}

\* complete_legacy_settings_cutover, after its checks: a migration that has
\* published its database goes on without asking again. The settings are read
\* from the configuration, which is not compared once more.
Cutover ==
  /\ pc = "cutover"
  /\ config' = NewConfig(config.from)
  /\ unseen' = unseen \cup Overwritten(library.source)
  /\ Boot("run")
  /\ UNCHANGED <<library, backup, archived, taken, latest, worked, broken, starts, losses>>
  /\ KeepMigration

-----------------------------------------------------------------------------
(* The migration: migrate_legacy_config_controlled. *)

\* prompt_legacy_migration, and the checksum of the source.
AnswerMigrate ==
  /\ pc = "askMigrate"
  /\ cancelled' = FALSE
  /\ \/ Boot("off") /\ UNCHANGED source
     \/ Boot("backup") /\ source' = config.from
  /\ KeepFiles /\ KeepHistory /\ UNCHANGED imported

\* The Cancel button sets a flag; it stays sensitive until GTK has seen that
\* the database is being published.
CancelMigration ==
  /\ pc \in {"backup", "import", "verify", "publish"}
  /\ cancelled' = TRUE
  /\ KeepFiles /\ KeepHistory /\ UNCHANGED <<pc, source, imported>>

\* The observer's test before each change, and the errors: the migration ends
\* and leaves the files as they are.
GivesUp ==
  \/ cancelled
  \/ pc = "backup" /\ backup # 0 /\ backup # source
  \/ pc \in {"backup", "verify"} /\ config # LegacyConfig(source)

GiveUpMigration ==
  /\ pc \in {"backup", "import", "verify", "publish", "settings"} /\ GivesUp
  /\ Boot("off")
  /\ KeepFiles /\ KeepMigration /\ KeepHistory

\* Fault: the backup is left for the end.
BackUpNothing ==
  /\ pc = "backup" /\ ~GivesUp
  /\ Boot("import")
  /\ KeepFiles /\ KeepMigration /\ KeepHistory

\* ensure_backup: an existing one must be of this very content.
BackUp ==
  /\ pc = "backup" /\ ~GivesUp
  /\ backup' = source
  /\ Boot("import")
  /\ UNCHANGED <<config, library, archived, taken>> /\ KeepMigration /\ KeepHistory

\* migrate_legacy_database_observed fills a candidate from the configuration.
Import ==
  /\ pc = "import" /\ ~GivesUp
  /\ imported' = config.from
  /\ Boot("verify")
  /\ KeepFiles /\ KeepHistory /\ UNCHANGED <<source, cancelled>>

\* finalize_database, and the checksum of the source again.
Verify ==
  /\ pc = "verify" /\ ~GivesUp
  /\ Boot("publish")
  /\ KeepFiles /\ KeepMigration /\ KeepHistory

PublishLibrary ==
  /\ pc = "publish" /\ ~GivesUp
  /\ library' = NewLibrary("ready", source)
  /\ Boot("settings")
  /\ UNCHANGED <<config, backup, archived, taken>> /\ KeepMigration /\ KeepHistory

\* write_schema_8_config. The flag is tested once more after the rename.
PublishSettings ==
  /\ pc = "settings" /\ ~GivesUp
  /\ config' = NewConfig(imported)
  /\ unseen' = unseen \cup Overwritten(imported)
  /\ Boot("run")
  /\ UNCHANGED <<library, backup, archived, taken, latest, worked, broken, starts, losses>>
  /\ KeepMigration

-----------------------------------------------------------------------------
(* The backup: show_storage_recovery_error, restore_legacy_backup. *)

\* Without a backup the dialog can only be closed.
AnswerRefusal ==
  /\ pc = "refused"
  /\ \/ Boot("off")
     \/ backup # 0 /\ Boot("archiveLibrary")
  /\ KeepFiles /\ KeepMigration /\ KeepHistory

\* Fault: the library makes room for the one that the backup will give.
DropLibrary ==
  /\ pc = "archiveLibrary"
  /\ library' = NoLibrary
  /\ Boot("archiveConfig")
  /\ UNCHANGED <<config, backup, archived, taken>> /\ KeepMigration /\ KeepHistory

ArchiveLibrary ==
  /\ pc = "archiveLibrary"
  /\ taken' = <<library, NoConfig>>
  /\ archived' = archived \cup ({library} \ {NoLibrary})
  /\ library' = NoLibrary
  /\ Boot("archiveConfig")
  /\ UNCHANGED <<config, backup>> /\ KeepMigration /\ KeepHistory

ArchiveConfig ==
  /\ pc = "archiveConfig"
  /\ taken' = <<taken[1], config>>
  /\ archived' = archived \cup ({config} \ {NoConfig})
  /\ config' = NoConfig
  /\ Boot("putBackup")
  /\ UNCHANGED <<library, backup>> /\ KeepMigration /\ KeepHistory

\* A rename fails and the ones before it are undone.
RestoreFails ==
  /\ pc \in {"archiveConfig", "putBackup"}
  /\ library' = taken[1]
  /\ config' = IF pc = "putBackup" THEN taken[2] ELSE config
  /\ archived' = archived \ {library', config'}
  /\ Boot("off")
  /\ UNCHANGED <<backup, taken>> /\ KeepMigration /\ KeepHistory

\* The restored configuration starts over, and will be migrated again.
PutBackup ==
  /\ pc = "putBackup"
  /\ config' = LegacyConfig(backup)
  /\ Boot("prepare")
  /\ UNCHANGED <<library, backup, archived, taken>> /\ KeepMigration /\ KeepHistory

-----------------------------------------------------------------------------
(* The open application, and the rest of the world. *)

UseLibrary ==
  /\ pc = "run" /\ ~library.used
  /\ library' = [library EXCEPT !.used = TRUE]
  /\ worked' = TRUE
  /\ UNCHANGED <<config, backup, archived, taken, pc, latest, unseen, broken, starts, losses>>
  /\ KeepMigration

\* The program ends or is killed, wherever it is.
Killed ==
  /\ pc # "off"
  /\ Boot("off")
  /\ broken' = (broken \/ pc = "markReady"
                        \/ (pc \in {"archiveConfig", "putBackup"} /\ ~ConfigExists))
  /\ KeepFiles /\ KeepMigration
  /\ UNCHANGED <<latest, unseen, worked, starts, losses>>

\* The old version of the program knows no lock and saves its configuration.
OldVersionSaves ==
  /\ config.kind = "legacy" /\ latest < MaxContents
  /\ latest' = latest + 1
  /\ config' = LegacyConfig(latest')
  /\ UNCHANGED <<library, backup, archived, taken, pc, unseen, worked, broken, starts, losses>>
  /\ KeepMigration

\* A file is damaged or lost while the program is off.
Lose ==
  /\ losses < MaxLosses /\ losses' = losses + 1
  /\ pc = "off"
  /\ \/ config' = NoConfig /\ config.kind = "new" /\ UNCHANGED library
     \/ library' = NoLibrary /\ LibraryExists /\ UNCHANGED config
     \/ library' = [library EXCEPT !.state = "damaged"] /\ LibraryExists /\ UNCHANGED config
  /\ worked' = (worked /\ (library' = library \/ LibraryExists'))
  /\ UNCHANGED <<backup, archived, taken, pc, latest, unseen, broken, starts>> /\ KeepMigration

StartupNext ==
  \/ Start \/ Prepare \/ AnswerEmpty \/ CreateLibrary \/ MarkReady \/ SaveDefaults
  \/ Cutover \/ AnswerMigrate \/ CancelMigration \/ GiveUpMigration \/ BackUp \/ Import
  \/ Verify \/ PublishLibrary \/ PublishSettings \/ AnswerRefusal \/ ArchiveLibrary
  \/ ArchiveConfig \/ RestoreFails \/ PutBackup \/ UseLibrary \/ Killed \/ OldVersionSaves \/ Lose

StartupSpec == StartupInit /\ [][StartupNext]_startupVars

-----------------------------------------------------------------------------
(* Properties. *)

Configs == {NoConfig} \cup [kind : {"legacy"}, from : Contents]
             \cup [kind : {"new"}, from : Contents \cup {0}]
Libraries == [state : {"none", "raw", "ready", "damaged"}, source : Contents \cup {0},
              used : BOOLEAN]
Places ==
  {"off", "prepare", "refused", "askEmpty", "create", "markReady", "saveDefaults", "cutover",
   "askMigrate", "backup", "import", "verify", "publish", "settings", "archiveLibrary",
   "archiveConfig", "putBackup", "run"}

StartupTypeOK ==
  /\ config \in Configs
  /\ library \in Libraries
  /\ backup \in Contents \cup {0}
  /\ archived \subseteq Configs \cup Libraries
  /\ pc \in Places
  /\ {source, imported} \subseteq Contents \cup {0}
  /\ {cancelled, broken, worked} \subseteq BOOLEAN
  /\ taken \in Libraries \X Configs
  /\ unseen \subseteq Contents

\* Wherever the program is killed and whatever the user answers, the last
\* legacy configuration and the library the user has worked in are on disk
\* under one name or another. (The old version that saves between the last
\* checksum and the new settings is overwritten: unseen.)
NothingIsDeleted ==
  /\ latest \in Contents \ unseen =>
       config = LegacyConfig(latest) \/ backup = latest \/ LegacyConfig(latest) \in archived
  /\ worked => library.used \/ \E l \in archived : l \in Libraries /\ l.used

\* The application opens with a ready library, and with the settings of the
\* very configuration the library was migrated from: a migration cut short is
\* finished with its own other half.
SettingsMatchTheLibrary ==
  pc = "run" =>
    /\ config.kind = "new" /\ Identified
    /\ library.source # 0 /\ unseen = {} => config.from = library.source

\* A backup that could be offered is offered: the application does not start
\* over with an empty library beside one, and a start that refuses the files has
\* one to offer. Exceptions: a restore that was killed after it had taken both
\* files away, files that somebody else damaged, and a first start killed while
\* it made the library.
BackupIsOffered ==
  /\ pc = "create" => backup = 0 \/ broken \/ losses > 1
  /\ pc = "refused" => backup # 0 \/ broken \/ losses > 0
=============================================================================
