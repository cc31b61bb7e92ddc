---------------------------- MODULE LibraryProofs ----------------------------
(***************************************************************************)
(* The library: how it comes to be, what is measured of its sounds, the    *)
(* commands on single ones, the folders that are hidden and their order.   *)
(***************************************************************************)
EXTENDS StoreSchema, Startup, LoudnessJobs, SoundImport, FolderTree, FiniteSetTheorems, SequenceTheorems,
        WellFoundedInduction, TLAPS

-----------------------------------------------------------------------------
(***************************************************************************)
(* Startup.                                                                *)
(*                                                                         *)
(* The settings and the library of any number of starts, whatever is lost  *)
(* or damaged in between.                                                  *)
(***************************************************************************)

StartupTypes ==
  /\ config \in Configs /\ library \in Libraries
  /\ backup \in Contents \cup {0}
  /\ archived \subseteq Configs \cup Libraries
  /\ pc \in Places
  /\ source \in Contents \cup {0} /\ imported \in Contents \cup {0}
  /\ cancelled \in BOOLEAN /\ broken \in BOOLEAN /\ worked \in BOOLEAN
  /\ taken \in Libraries \X Configs
  /\ unseen \subseteq Contents
  /\ latest \in Contents \cup {0} /\ losses \in Nat

\* Whatever is kept of the old version has been written by it.
SavedByIt ==
  /\ config.kind = "legacy" => config.from <= latest
  /\ backup <= latest /\ source <= latest
  /\ pc = "putBackup" /\ taken[2].kind = "legacy" => taken[2].from <= latest

Migrating == {"backup", "import", "verify", "publish", "settings"}
Restoring == {"archiveLibrary", "archiveConfig", "putBackup"}

\* What the program has found, and may rely on, where it is.
Found ==
  /\ library.state = "none" => library = NoLibrary
  /\ pc = "askEmpty" => config.kind = "new" /\ library = NoLibrary /\ backup = 0
  /\ pc = "create" => config.kind # "legacy" /\ library = NoLibrary
  /\ pc = "markReady" => config.kind # "legacy" /\ library = NewLibrary("raw", 0)
  /\ pc = "saveDefaults" => config = NoConfig /\ library.state = "ready" /\ library.source = 0
  /\ pc = "cutover" => config.kind = "legacy" /\ library.state = "ready"
  /\ pc \in {"askMigrate"} \cup Migrating => config.kind = "legacy"
  /\ pc \in {"askMigrate"} \cup (Migrating \ {"settings"}) => library = NoLibrary
  /\ pc = "run" => config.kind = "new" /\ library.state = "ready"
  /\ pc \in {"refused", "archiveLibrary"} /\ config.kind = "new" => library.state # "ready"
  /\ pc \in Restoring => backup # 0
  /\ pc \in {"archiveConfig", "putBackup"} => library = NoLibrary
  /\ pc = "putBackup" => config = NoConfig

\* The old version only goes forward: what was imported between two equal
\* checksums of the configuration is what they are of.
InMigration ==
  /\ pc \in Migrating => source \in Contents /\ source <= config.from
  /\ pc \in Migrating \ {"backup"} => backup = source
  /\ pc = "verify" => source <= imported /\ imported <= config.from
  /\ pc \in {"publish", "settings"} => imported = source
  /\ pc = "settings" => library = NewLibrary("ready", source)

\* A configuration and a library beside it.
PairOK(c, l) ==
  /\ c.kind = "new" /\ l.state = "ready" /\ l.source # 0 /\ unseen = {} => c.from = l.source
  /\ l.source # 0 => backup = l.source
  /\ c.kind = "legacy" /\ backup = 0 => l.state = "none"
  /\ l.state = "damaged" => losses > 0
  /\ c.kind = "new" /\ l.state # "ready" /\ backup # 0 => broken \/ losses > 0

\* They have been lost when they are not there and there is a backup.
LossOK(c, l) ==
  /\ l.state = "raw" => broken
  /\ c.kind = "none" /\ backup # 0 => broken \/ losses > 0
  /\ c.kind = "none" /\ l.state = "none" /\ backup # 0 => broken \/ losses > 1

Pairs ==
  /\ PairOK(config, library)
  /\ pc \notin {"markReady", "archiveConfig", "putBackup"} => LossOK(config, library)
  /\ pc = "markReady" => backup = 0 \/ broken \/ losses > 1
  /\ pc = "archiveConfig" => PairOK(config, taken[1]) /\ LossOK(config, taken[1])
  /\ pc = "putBackup" => PairOK(taken[2], taken[1]) /\ LossOK(taken[2], taken[1])
  /\ pc \in {"archiveConfig", "putBackup"} => (taken[1].state = "none" => taken[1] = NoLibrary)

LegacyIsKept ==
  latest \in Contents \ unseen =>
    config = LegacyConfig(latest) \/ backup = latest \/ LegacyConfig(latest) \in archived
WorkIsKept == worked => library.used \/ \E l \in archived : l \in Libraries /\ l.used

StartupInv ==
  StartupTypes /\ SavedByIt /\ Found /\ InMigration /\ Pairs /\ LegacyIsKept /\ WorkIsKept /\ BackupIsOffered

LEMMA ConfigIs ==
  ASSUME NEW c \in Configs
  PROVE  /\ c.kind \in {"none", "legacy", "new"} /\ c.from \in Contents \cup {0}
         /\ c.kind = "none" => c = NoConfig
         /\ c.kind = "legacy" => c.from \in Contents /\ c = LegacyConfig(c.from)
BY DEF Configs, NoConfig, LegacyConfig

LEMMA LibraryIs ==
  ASSUME NEW l \in Libraries
  PROVE  l.state \in {"none", "raw", "ready", "damaged"} /\ l.source \in Contents \cup {0}
BY DEF Libraries

LEMMA NoConfigIs == NoConfig \in Configs /\ NoConfig.kind = "none" /\ NoConfig.from = 0
BY DEF Configs, NoConfig

LEMMA LegacyConfigIs ==
  ASSUME NEW v \in Contents
  PROVE  LegacyConfig(v) \in Configs /\ LegacyConfig(v).kind = "legacy" /\ LegacyConfig(v).from = v
BY DEF Configs, LegacyConfig

LEMMA NewConfigIs ==
  ASSUME NEW v \in Contents \cup {0}
  PROVE  NewConfig(v) \in Configs /\ NewConfig(v).kind = "new" /\ NewConfig(v).from = v
BY DEF Configs, NewConfig

LEMMA NoLibraryIs == NoLibrary \in Libraries /\ NoLibrary.state = "none" /\ NoLibrary.source = 0 /\ ~NoLibrary.used
BY DEF Libraries, NoLibrary

LEMMA NewLibraryIs ==
  ASSUME NEW state \in {"raw", "ready"}, NEW v \in Contents \cup {0}
  PROVE  /\ NewLibrary(state, v) \in Libraries /\ NewLibrary(state, v).state = state
         /\ NewLibrary(state, v).source = v /\ ~NewLibrary(state, v).used
BY DEF Libraries, NewLibrary

LEMMA ConfigsAreNoLibraries == \A c \in Configs : c \notin Libraries
BY DEF Configs, NoConfig, Libraries

LEMMA FilesAre ==
  ASSUME StartupTypes
  PROVE  /\ config \in Configs /\ config.kind \in {"none", "legacy", "new"} /\ config.from \in Contents \cup {0}
         /\ config.kind = "none" => config = NoConfig
         /\ config.kind = "legacy" => config.from \in Contents /\ config = LegacyConfig(config.from)
         /\ library \in Libraries /\ library.state \in {"none", "raw", "ready", "damaged"}
         /\ library.source \in Contents \cup {0}
BY ConfigIs, LibraryIs DEF StartupTypes

\* What Prepare has found when it decides.
Decided(decision) ==
  /\ decision \in {"create", "saveDefaults", "refused", "cutover", "askMigrate", "askEmpty", "run"}
  /\ decision = "create" => config = NoConfig /\ library = NoLibrary
  /\ decision = "saveDefaults" => config = NoConfig /\ library.state = "ready" /\ library.source = 0
  /\ decision = "cutover" => config.kind = "legacy" /\ library.state = "ready"
  /\ decision = "askMigrate" => config.kind = "legacy" /\ library = NoLibrary
  /\ decision = "askEmpty" => config.kind = "new" /\ library = NoLibrary /\ backup = 0
  /\ decision = "run" => config.kind = "new" /\ library.state = "ready"
  /\ decision = "refused" =>
       \/ library.state \in {"raw", "damaged"}
       \/ config.kind # "new" /\ library.source # 0
       \/ config.kind = "legacy" /\ library.state # "none"
       \/ config.kind = "new" /\ library.state = "none" /\ backup # 0

LEMMA DecisionFound ==
  ASSUME StartupTypes, Found
  PROVE  Decided(Decision)
<1> USE FilesAre, NoConfigIs, NoLibraryIs DEF Found, ConfigExists, LibraryExists, Identified
<1>1. config.kind \in {"none", "legacy", "new"} /\ library.state \in {"none", "raw", "ready", "damaged"}
      /\ (config.kind = "none" => config = NoConfig)
  OBVIOUS
<1>2. CASE config.kind = "none" /\ library.state = "none"
  <2>1. Decision = "create"
    BY <1>2 DEF Decision
  <2> QED BY <1>1, <1>2, <2>1 DEF Decided
<1>3. CASE config.kind = "none" /\ library.state # "none"
  <2>1. Decision = IF library.state = "ready" /\ library.source = 0 THEN "saveDefaults" ELSE "refused"
    BY <1>3 DEF Decision
  <2> QED BY <1>1, <1>3, <2>1 DEF Decided
<1>4. CASE config.kind = "legacy" /\ library.state # "none"
  <2>1. Decision = IF library.state = "ready" /\ library.source = config.from THEN "cutover" ELSE "refused"
    BY <1>4 DEF Decision
  <2> QED BY <1>1, <1>4, <2>1 DEF Decided
<1>5. CASE config.kind = "legacy" /\ library.state = "none"
  <2>1. Decision = "askMigrate"
    BY <1>5 DEF Decision
  <2> QED BY <1>1, <1>5, <2>1 DEF Decided
<1>6. CASE config.kind = "new" /\ library.state = "none"
  <2>1. Decision = IF backup # 0 THEN "refused" ELSE "askEmpty"
    BY <1>6 DEF Decision
  <2> QED BY <1>1, <1>6, <2>1 DEF Decided
<1>7. CASE config.kind = "new" /\ library.state # "none"
  <2>1. Decision = IF library.state = "ready" THEN "run" ELSE "refused"
    BY <1>7 DEF Decision
  <2> QED BY <1>1, <1>7, <2>1 DEF Decided
<1> QED BY <1>1, <1>2, <1>3, <1>4, <1>5, <1>6, <1>7

LEMMA StartStep ==
  ASSUME StartupInv, Start
  PROVE  StartupInv'
<1> USE StartupAssumption, FilesAre, NoConfigIs, LegacyConfigIs, NewConfigIs, NoLibraryIs, NewLibraryIs
    DEF StartupInv, Start, Boot, KeepFiles, KeepMigration, KeepHistory, files
<1>1. StartupTypes' /\ SavedByIt'
  BY DEF StartupTypes, SavedByIt, InMigration, Found, Places, Migrating, Contents
<1>2. Found'
  BY DEF StartupTypes, Found, Pairs, PairOK, Migrating, Restoring
<1>3. InMigration'
  BY DEF StartupTypes, Found, InMigration, Migrating, Contents
<1>4. Pairs' /\ BackupIsOffered'
  BY DEF StartupTypes, Found, Pairs, PairOK, LossOK, InMigration, Restoring, Migrating, BackupIsOffered
<1>5. LegacyIsKept' /\ WorkIsKept'
  BY DEF StartupTypes, Found, Pairs, PairOK, LegacyIsKept, WorkIsKept, InMigration, Migrating
<1> QED BY <1>1, <1>2, <1>3, <1>4, <1>5

LEMMA PrepareStep ==
  ASSUME StartupInv, Prepare
  PROVE  StartupInv'
<1> USE StartupAssumption, FilesAre, NoConfigIs, LegacyConfigIs, NewConfigIs, NoLibraryIs, NewLibraryIs
    DEF StartupInv, Prepare, Boot, KeepFiles, KeepMigration, KeepHistory, files, ConfigExists, LibraryExists
<1>1. pc = "prepare" /\ pc' = Decision /\ Decided(Decision)
      /\ UNCHANGED <<config, library, backup, archived, taken, source, imported, cancelled, latest, unseen, worked, broken, losses>>
  BY DecisionFound
<1> HIDE DEF Prepare
<1>2. StartupTypes' /\ SavedByIt'
  BY <1>1 DEF StartupTypes, SavedByIt, Places, Decided
<1>3. Found'
  BY <1>1 DEF Found, Decided, Migrating, Restoring
<1>4. InMigration'
  BY <1>1 DEF InMigration, Decided, Migrating
<1>5. Pairs' /\ BackupIsOffered'
  BY <1>1 DEF StartupTypes, Pairs, PairOK, LossOK, Decided, BackupIsOffered
<1>6. LegacyIsKept' /\ WorkIsKept'
  BY <1>1 DEF LegacyIsKept, WorkIsKept
<1> QED BY <1>2, <1>3, <1>4, <1>5, <1>6

LEMMA AnswerEmptyStep ==
  ASSUME StartupInv, AnswerEmpty
  PROVE  StartupInv'
<1> USE StartupAssumption, FilesAre, NoConfigIs, LegacyConfigIs, NewConfigIs, NoLibraryIs, NewLibraryIs
    DEF StartupInv, AnswerEmpty, Boot, KeepFiles, KeepMigration, KeepHistory, files
<1>1. StartupTypes' /\ SavedByIt'
  BY DEF StartupTypes, SavedByIt, InMigration, Found, Places, Migrating, Contents
<1>2. Found'
  BY DEF StartupTypes, Found, Pairs, PairOK, Migrating, Restoring
<1>3. InMigration'
  BY DEF StartupTypes, Found, InMigration, Migrating, Contents
<1>4. Pairs' /\ BackupIsOffered'
  BY DEF StartupTypes, Found, Pairs, PairOK, LossOK, InMigration, Restoring, Migrating, BackupIsOffered
<1>5. LegacyIsKept' /\ WorkIsKept'
  BY DEF StartupTypes, Found, Pairs, PairOK, LegacyIsKept, WorkIsKept, InMigration, Migrating
<1> QED BY <1>1, <1>2, <1>3, <1>4, <1>5

LEMMA CreateLibraryStep ==
  ASSUME StartupInv, CreateLibrary
  PROVE  StartupInv'
<1> USE StartupAssumption, FilesAre, NoConfigIs, LegacyConfigIs, NewConfigIs, NoLibraryIs, NewLibraryIs
    DEF StartupInv, CreateLibrary, Boot, KeepFiles, KeepMigration, KeepHistory, files
<1>1. StartupTypes' /\ SavedByIt'
  BY DEF StartupTypes, SavedByIt, InMigration, Found, Places, Migrating, Contents
<1>2. Found'
  BY DEF StartupTypes, Found, Pairs, PairOK, Migrating, Restoring
<1>3. InMigration'
  BY DEF StartupTypes, Found, InMigration, Migrating, Contents
<1>4. Pairs' /\ BackupIsOffered'
  BY DEF StartupTypes, Found, Pairs, PairOK, LossOK, InMigration, Restoring, Migrating, BackupIsOffered
<1>5. LegacyIsKept' /\ WorkIsKept'
  BY DEF StartupTypes, Found, Pairs, PairOK, LegacyIsKept, WorkIsKept, InMigration, Migrating
<1> QED BY <1>1, <1>2, <1>3, <1>4, <1>5

LEMMA MarkReadyStep ==
  ASSUME StartupInv, MarkReady
  PROVE  StartupInv'
<1> USE StartupAssumption, FilesAre, NoConfigIs, LegacyConfigIs, NewConfigIs, NoLibraryIs, NewLibraryIs
    DEF StartupInv, MarkReady, Boot, KeepFiles, KeepMigration, KeepHistory, files, ConfigExists
<1>1. config \in Configs /\ config.kind # "legacy" /\ library.state = "raw"
  BY DEF StartupTypes, Found
<1>2. library' = NewLibrary("ready", 0) /\ library'.state = "ready" /\ library'.source = 0 /\ library' \in Libraries
  OBVIOUS
<1>3. StartupTypes' /\ SavedByIt'
  BY <1>1, <1>2 DEF StartupTypes, SavedByIt, InMigration, Found, Places, Migrating, Contents
<1>4. Found'
  BY <1>1, <1>2 DEF StartupTypes, Found, Pairs, PairOK, Migrating, Restoring
<1>5. InMigration'
  BY <1>1, <1>2 DEF StartupTypes, Found, InMigration, Migrating, Contents
<1>6. Pairs' /\ BackupIsOffered'
  BY <1>1, <1>2 DEF StartupTypes, Found, Pairs, PairOK, LossOK, InMigration, Restoring, Migrating, BackupIsOffered
<1>7. LegacyIsKept' /\ WorkIsKept'
  BY <1>1, <1>2 DEF StartupTypes, Found, Pairs, PairOK, LegacyIsKept, WorkIsKept, InMigration, Migrating
<1> QED BY <1>3, <1>4, <1>5, <1>6, <1>7

LEMMA SaveDefaultsStep ==
  ASSUME StartupInv, SaveDefaults
  PROVE  StartupInv'
<1> USE StartupAssumption, FilesAre, NoConfigIs, LegacyConfigIs, NewConfigIs, NoLibraryIs, NewLibraryIs
    DEF StartupInv, SaveDefaults, Boot, KeepFiles, KeepMigration, KeepHistory, files
<1>1. StartupTypes' /\ SavedByIt'
  BY DEF StartupTypes, SavedByIt, InMigration, Found, Places, Migrating, Contents
<1>2. Found'
  BY DEF StartupTypes, Found, Pairs, PairOK, Migrating, Restoring
<1>3. InMigration'
  BY DEF StartupTypes, Found, InMigration, Migrating, Contents
<1>4. Pairs' /\ BackupIsOffered'
  BY DEF StartupTypes, Found, Pairs, PairOK, LossOK, InMigration, Restoring, Migrating, BackupIsOffered
<1>5. LegacyIsKept' /\ WorkIsKept'
  BY DEF StartupTypes, Found, Pairs, PairOK, LegacyIsKept, WorkIsKept, InMigration, Migrating
<1> QED BY <1>1, <1>2, <1>3, <1>4, <1>5

LEMMA CutoverStep ==
  ASSUME StartupInv, Cutover
  PROVE  StartupInv'
<1> USE StartupAssumption, FilesAre, NoConfigIs, LegacyConfigIs, NewConfigIs, NoLibraryIs, NewLibraryIs
    DEF StartupInv, Cutover, Boot, KeepFiles, KeepMigration, KeepHistory, files, Overwritten
<1>1. /\ config \in Configs /\ config.kind = "legacy" /\ config.from \in Contents /\ config = LegacyConfig(config.from)
      /\ library \in Libraries /\ library.state = "ready" /\ library.source \in Contents \cup {0}
  BY DEF StartupTypes, Found
<1>2. config' = NewConfig(config.from) /\ config' \in Configs /\ config'.kind = "new" /\ config'.from = config.from
  BY <1>1
<1>3. /\ unseen \subseteq unseen' /\ unseen' \subseteq unseen \cup {config.from}
      /\ config.from = library.source \/ config.from \in unseen'
  BY <1>1 DEF LegacyConfig
<1> HIDE DEF Overwritten
<1>4. StartupTypes'
  BY <1>1, <1>2, <1>3 DEF StartupTypes, Places
<1>5. SavedByIt'
  BY <1>1, <1>2, <1>3 DEF SavedByIt, Contents
<1>6. Found'
  BY <1>1, <1>2, <1>3 DEF StartupTypes, Found, Pairs, PairOK, Migrating, Restoring
<1>7. InMigration'
  BY <1>1, <1>2, <1>3 DEF StartupTypes, Found, InMigration, Migrating, Contents
<1>8. Pairs' /\ BackupIsOffered'
  BY <1>1, <1>2, <1>3 DEF StartupTypes, Found, Pairs, PairOK, LossOK, InMigration, Restoring, Migrating, BackupIsOffered
<1>9. LegacyIsKept'
  <2> SUFFICES ASSUME latest \in Contents, latest \notin unseen'
               PROVE  config' = LegacyConfig(latest) \/ backup = latest \/ LegacyConfig(latest) \in archived
    BY DEF LegacyIsKept
  <2>1. CASE config = LegacyConfig(latest)
    BY <1>1, <1>3, <2>1 DEF Pairs, PairOK, Contents
  <2> QED BY <1>3, <2>1 DEF LegacyIsKept
<1>10. WorkIsKept'
  BY <1>1, <1>2, <1>3 DEF WorkIsKept
<1> QED BY <1>4, <1>5, <1>6, <1>7, <1>8, <1>9, <1>10

LEMMA AnswerMigrateStep ==
  ASSUME StartupInv, AnswerMigrate
  PROVE  StartupInv'
<1> USE StartupAssumption, FilesAre, NoConfigIs, LegacyConfigIs, NewConfigIs, NoLibraryIs, NewLibraryIs
    DEF StartupInv, AnswerMigrate, Boot, KeepFiles, KeepMigration, KeepHistory, files
<1>1. config \in Configs /\ config.kind = "legacy" /\ config.from \in Contents
  BY DEF StartupTypes, Found
<1>2. StartupTypes'
  BY <1>1 DEF StartupTypes, Places
<1>3. SavedByIt'
  BY <1>1 DEF SavedByIt, Contents
<1>4. Found'
  BY <1>1 DEF StartupTypes, Found, Pairs, PairOK, Migrating, Restoring
<1>5. InMigration'
  BY <1>1 DEF StartupTypes, Found, InMigration, Migrating, Contents
<1>6. Pairs' /\ BackupIsOffered'
  BY <1>1 DEF StartupTypes, Found, Pairs, PairOK, LossOK, InMigration, Restoring, Migrating, BackupIsOffered
<1>7. LegacyIsKept' /\ WorkIsKept'
  BY <1>1 DEF LegacyIsKept, WorkIsKept
<1> QED BY <1>2, <1>3, <1>4, <1>5, <1>6, <1>7

LEMMA CancelMigrationStep ==
  ASSUME StartupInv, CancelMigration
  PROVE  StartupInv'
<1> USE StartupAssumption, FilesAre, NoConfigIs, LegacyConfigIs, NewConfigIs, NoLibraryIs, NewLibraryIs
    DEF StartupInv, CancelMigration, Boot, KeepFiles, KeepMigration, KeepHistory, files
<1>1. StartupTypes' /\ SavedByIt'
  BY DEF StartupTypes, SavedByIt, InMigration, Found, Places, Migrating, Contents
<1>2. Found'
  BY DEF StartupTypes, Found, Pairs, PairOK, Migrating, Restoring
<1>3. InMigration'
  BY DEF StartupTypes, Found, InMigration, Migrating, Contents
<1>4. Pairs' /\ BackupIsOffered'
  BY DEF StartupTypes, Found, Pairs, PairOK, LossOK, InMigration, Restoring, Migrating, BackupIsOffered
<1>5. LegacyIsKept' /\ WorkIsKept'
  BY DEF StartupTypes, Found, Pairs, PairOK, LegacyIsKept, WorkIsKept, InMigration, Migrating
<1> QED BY <1>1, <1>2, <1>3, <1>4, <1>5

LEMMA GiveUpMigrationStep ==
  ASSUME StartupInv, GiveUpMigration
  PROVE  StartupInv'
<1> USE StartupAssumption, FilesAre, NoConfigIs, LegacyConfigIs, NewConfigIs, NoLibraryIs, NewLibraryIs
    DEF StartupInv, GiveUpMigration, Boot, KeepFiles, KeepMigration, KeepHistory, files
<1>1. StartupTypes' /\ SavedByIt'
  BY DEF StartupTypes, SavedByIt, InMigration, Found, Places, Migrating, Contents
<1>2. Found'
  BY DEF StartupTypes, Found, Pairs, PairOK, Migrating, Restoring
<1>3. InMigration'
  BY DEF StartupTypes, Found, InMigration, Migrating, Contents
<1>4. Pairs' /\ BackupIsOffered'
  BY DEF StartupTypes, Found, Pairs, PairOK, LossOK, InMigration, Restoring, Migrating, BackupIsOffered
<1>5. LegacyIsKept' /\ WorkIsKept'
  BY DEF StartupTypes, Found, Pairs, PairOK, LegacyIsKept, WorkIsKept, InMigration, Migrating
<1> QED BY <1>1, <1>2, <1>3, <1>4, <1>5

LEMMA BackUpStep ==
  ASSUME StartupInv, BackUp
  PROVE  StartupInv'
<1> USE StartupAssumption, FilesAre, NoConfigIs, LegacyConfigIs, NewConfigIs, NoLibraryIs, NewLibraryIs
    DEF StartupInv, BackUp, Boot, KeepFiles, KeepMigration, KeepHistory, files, GivesUp
<1>1. /\ config \in Configs /\ config.kind = "legacy" /\ config.from \in Contents
      /\ library = NoLibrary /\ source \in Contents /\ (backup = 0 \/ backup = source)
  BY DEF StartupTypes, Found, InMigration, Migrating
<1>2. StartupTypes' /\ SavedByIt'
  BY <1>1 DEF StartupTypes, SavedByIt, InMigration, Found, Places, Migrating, Contents
<1>3. Found'
  BY <1>1 DEF StartupTypes, Found, Pairs, PairOK, Migrating, Restoring
<1>4. InMigration'
  BY <1>1 DEF StartupTypes, Found, InMigration, Migrating, Contents
<1>5. Pairs' /\ BackupIsOffered'
  BY <1>1 DEF StartupTypes, Found, Pairs, PairOK, LossOK, InMigration, Restoring, Migrating, BackupIsOffered
<1>6. LegacyIsKept'
  BY <1>1 DEF LegacyIsKept, Contents
<1>7. WorkIsKept'
  BY <1>1 DEF WorkIsKept
<1> QED BY <1>2, <1>3, <1>4, <1>5, <1>6, <1>7

LEMMA ImportStep ==
  ASSUME StartupInv, Import
  PROVE  StartupInv'
<1> USE StartupAssumption, FilesAre, NoConfigIs, LegacyConfigIs, NewConfigIs, NoLibraryIs, NewLibraryIs
    DEF StartupInv, Import, Boot, KeepFiles, KeepMigration, KeepHistory, files
<1>1. config \in Configs /\ config.kind = "legacy" /\ config.from \in Contents
  BY DEF StartupTypes, Found, Migrating
<1>2. StartupTypes' /\ SavedByIt'
  BY <1>1 DEF StartupTypes, SavedByIt, InMigration, Found, Places, Migrating, Contents
<1>3. Found'
  BY <1>1 DEF StartupTypes, Found, Pairs, PairOK, Migrating, Restoring
<1>4. InMigration'
  BY <1>1 DEF StartupTypes, Found, InMigration, Migrating, Contents
<1>5. Pairs' /\ BackupIsOffered'
  BY <1>1 DEF StartupTypes, Found, Pairs, PairOK, LossOK, InMigration, Restoring, Migrating, BackupIsOffered
<1>6. LegacyIsKept' /\ WorkIsKept'
  BY <1>1 DEF StartupTypes, Found, Pairs, PairOK, LegacyIsKept, WorkIsKept, InMigration, Migrating
<1> QED BY <1>2, <1>3, <1>4, <1>5, <1>6

LEMMA VerifyStep ==
  ASSUME StartupInv, Verify
  PROVE  StartupInv'
<1> USE StartupAssumption, FilesAre, NoConfigIs, LegacyConfigIs, NewConfigIs, NoLibraryIs, NewLibraryIs
    DEF StartupInv, Verify, Boot, KeepFiles, KeepMigration, KeepHistory, files, GivesUp
<1>1. StartupTypes' /\ SavedByIt'
  BY DEF StartupTypes, SavedByIt, InMigration, Found, Places, Migrating, Contents
<1>2. Found'
  BY DEF StartupTypes, Found, Pairs, PairOK, Migrating, Restoring
<1>3. InMigration'
  BY DEF StartupTypes, Found, InMigration, Migrating, Contents
<1>4. Pairs' /\ BackupIsOffered'
  BY DEF StartupTypes, Found, Pairs, PairOK, LossOK, InMigration, Restoring, Migrating, BackupIsOffered
<1>5. LegacyIsKept' /\ WorkIsKept'
  BY DEF StartupTypes, Found, Pairs, PairOK, LegacyIsKept, WorkIsKept, InMigration, Migrating
<1> QED BY <1>1, <1>2, <1>3, <1>4, <1>5

LEMMA PublishLibraryStep ==
  ASSUME StartupInv, PublishLibrary
  PROVE  StartupInv'
<1> USE StartupAssumption, FilesAre, NoConfigIs, LegacyConfigIs, NewConfigIs, NoLibraryIs, NewLibraryIs
    DEF StartupInv, PublishLibrary, Boot, KeepFiles, KeepMigration, KeepHistory, files
<1>1. /\ config \in Configs /\ config.kind = "legacy" /\ library = NoLibrary
      /\ source \in Contents /\ backup = source /\ backup # 0
  BY DEF StartupTypes, Found, InMigration, Migrating, Contents
<1>2. library' = NewLibrary("ready", source) /\ library'.state = "ready" /\ library'.source = source /\ library' \in Libraries
  BY <1>1
<1>3. StartupTypes' /\ SavedByIt'
  BY <1>1, <1>2 DEF StartupTypes, SavedByIt, InMigration, Found, Places, Migrating, Contents
<1>4. Found'
  BY <1>1, <1>2 DEF StartupTypes, Found, Pairs, PairOK, Migrating, Restoring
<1>5. InMigration'
  BY <1>1, <1>2 DEF StartupTypes, Found, InMigration, Migrating, Contents
<1>6. Pairs' /\ BackupIsOffered'
  BY <1>1, <1>2 DEF StartupTypes, Found, Pairs, PairOK, LossOK, InMigration, Restoring, Migrating, BackupIsOffered
<1>7. LegacyIsKept' /\ WorkIsKept'
  BY <1>1, <1>2 DEF StartupTypes, Found, Pairs, PairOK, LegacyIsKept, WorkIsKept, InMigration, Migrating
<1> QED BY <1>3, <1>4, <1>5, <1>6, <1>7

LEMMA PublishSettingsStep ==
  ASSUME StartupInv, PublishSettings
  PROVE  StartupInv'
<1> USE StartupAssumption, FilesAre, NoConfigIs, LegacyConfigIs, NewConfigIs, NoLibraryIs, NewLibraryIs
    DEF StartupInv, PublishSettings, Boot, KeepFiles, KeepMigration, KeepHistory, files, Overwritten
<1>1. /\ config \in Configs /\ config.kind = "legacy" /\ config.from \in Contents /\ config = LegacyConfig(config.from)
      /\ source \in Contents /\ imported = source /\ backup = source
      /\ library = NewLibrary("ready", source) /\ library.state = "ready" /\ library.source = source
  BY DEF StartupTypes, Found, InMigration, Migrating
<1>2. config' = NewConfig(imported) /\ config' \in Configs /\ config'.kind = "new" /\ config'.from = source
  BY <1>1
<1>3. /\ unseen \subseteq unseen' /\ unseen' \subseteq unseen \cup {config.from}
      /\ config.from = imported \/ config.from \in unseen'
  BY <1>1
<1> HIDE DEF Overwritten
<1>4. StartupTypes' /\ SavedByIt'
  BY <1>1, <1>2, <1>3 DEF StartupTypes, SavedByIt, InMigration, Found, Places, Migrating, Contents
<1>5. Found'
  BY <1>1, <1>2, <1>3 DEF StartupTypes, Found, Pairs, PairOK, Migrating, Restoring
<1>6. InMigration'
  BY <1>1, <1>2, <1>3 DEF StartupTypes, Found, InMigration, Migrating, Contents
<1>7. Pairs' /\ BackupIsOffered'
  BY <1>1, <1>2, <1>3 DEF StartupTypes, Found, Pairs, PairOK, LossOK, InMigration, Restoring, Migrating, BackupIsOffered
<1>8. LegacyIsKept' /\ WorkIsKept'
  BY <1>1, <1>2, <1>3 DEF StartupTypes, Found, Pairs, PairOK, LegacyIsKept, WorkIsKept, InMigration, Migrating
<1> QED BY <1>4, <1>5, <1>6, <1>7, <1>8

LEMMA AnswerRefusalStep ==
  ASSUME StartupInv, AnswerRefusal
  PROVE  StartupInv'
<1> USE StartupAssumption, FilesAre, NoConfigIs, LegacyConfigIs, NewConfigIs, NoLibraryIs, NewLibraryIs
    DEF StartupInv, AnswerRefusal, Boot, KeepFiles, KeepMigration, KeepHistory, files
<1>1. StartupTypes' /\ SavedByIt'
  BY DEF StartupTypes, SavedByIt, InMigration, Found, Places, Migrating, Contents
<1>2. Found'
  BY DEF StartupTypes, Found, Pairs, PairOK, Migrating, Restoring
<1>3. InMigration'
  BY DEF StartupTypes, Found, InMigration, Migrating, Contents
<1>4. Pairs' /\ BackupIsOffered'
  BY DEF StartupTypes, Found, Pairs, PairOK, LossOK, InMigration, Restoring, Migrating, BackupIsOffered
<1>5. LegacyIsKept' /\ WorkIsKept'
  BY DEF StartupTypes, Found, Pairs, PairOK, LegacyIsKept, WorkIsKept, InMigration, Migrating
<1> QED BY <1>1, <1>2, <1>3, <1>4, <1>5

LEMMA ArchiveLibraryStep ==
  ASSUME StartupInv, ArchiveLibrary
  PROVE  StartupInv'
<1> USE StartupAssumption, FilesAre, NoConfigIs, LegacyConfigIs, NewConfigIs, NoLibraryIs, NewLibraryIs
    DEF StartupInv, ArchiveLibrary, Boot, KeepFiles, KeepMigration, KeepHistory, files
<1>1. StartupTypes' /\ SavedByIt'
  BY DEF StartupTypes, SavedByIt, InMigration, Found, Places, Migrating, Contents
<1>2. Found'
  BY DEF StartupTypes, Found, Pairs, PairOK, Migrating, Restoring
<1>3. InMigration'
  BY DEF StartupTypes, Found, InMigration, Migrating, Contents
<1>4. Pairs' /\ BackupIsOffered'
  BY DEF StartupTypes, Found, Pairs, PairOK, LossOK, InMigration, Restoring, Migrating, BackupIsOffered
<1>5. LegacyIsKept' /\ WorkIsKept'
  BY DEF StartupTypes, Found, Pairs, PairOK, LegacyIsKept, WorkIsKept, InMigration, Migrating
<1> QED BY <1>1, <1>2, <1>3, <1>4, <1>5

LEMMA ArchiveConfigStep ==
  ASSUME StartupInv, ArchiveConfig
  PROVE  StartupInv'
<1> USE StartupAssumption, FilesAre, NoConfigIs, LegacyConfigIs, NewConfigIs, NoLibraryIs, NewLibraryIs
    DEF StartupInv, ArchiveConfig, Boot, KeepFiles, KeepMigration, KeepHistory, files
<1>1. StartupTypes' /\ SavedByIt'
  BY DEF StartupTypes, SavedByIt, InMigration, Found, Places, Migrating, Contents
<1>2. Found'
  BY DEF StartupTypes, Found, Pairs, PairOK, Migrating, Restoring
<1>3. InMigration'
  BY DEF StartupTypes, Found, InMigration, Migrating, Contents
<1>4. Pairs' /\ BackupIsOffered'
  BY DEF StartupTypes, Found, Pairs, PairOK, LossOK, InMigration, Restoring, Migrating, BackupIsOffered
<1>5. LegacyIsKept' /\ WorkIsKept'
  BY DEF StartupTypes, Found, Pairs, PairOK, LegacyIsKept, WorkIsKept, InMigration, Migrating
<1> QED BY <1>1, <1>2, <1>3, <1>4, <1>5

LEMMA RestoreFailsStep ==
  ASSUME StartupInv, RestoreFails
  PROVE  StartupInv'
<1> USE StartupAssumption, FilesAre, NoConfigIs, LegacyConfigIs, NewConfigIs, NoLibraryIs, NewLibraryIs
    DEF StartupInv, RestoreFails, Boot, KeepFiles, KeepMigration, KeepHistory, files
<1>1. /\ taken[1] \in Libraries /\ taken[2] \in Configs /\ config \in Configs /\ library = NoLibrary
      /\ pc = "putBackup" => config = NoConfig
  BY DEF StartupTypes, Found
<1>2. library' = taken[1] /\ config' = (IF pc = "putBackup" THEN taken[2] ELSE config) /\ config' \in Configs
  BY <1>1
<1>3. archived' = archived \ {library', config'} /\ pc' = "off"
  OBVIOUS
<1>4. StartupTypes' /\ SavedByIt'
  BY <1>1, <1>2, <1>3 DEF StartupTypes, SavedByIt, InMigration, Found, Places, Migrating, Contents
<1>5. Found'
  BY <1>1, <1>2, <1>3 DEF StartupTypes, Found, Pairs, PairOK, Migrating, Restoring
<1>6. InMigration'
  BY <1>1, <1>2, <1>3 DEF StartupTypes, Found, InMigration, Migrating, Contents
<1>7. Pairs' /\ BackupIsOffered'
  BY <1>1, <1>2, <1>3 DEF StartupTypes, Found, Pairs, PairOK, LossOK, InMigration, Restoring, Migrating, BackupIsOffered
<1>8. LegacyIsKept'
  <2> SUFFICES ASSUME latest \in Contents, latest \notin unseen
               PROVE  config' = LegacyConfig(latest) \/ backup = latest \/ LegacyConfig(latest) \in archived'
    BY DEF LegacyIsKept
  <2>1. LegacyConfig(latest) # NoConfig /\ LegacyConfig(latest) # library'
    BY <1>1, <1>2, ConfigsAreNoLibraries
  <2>2. config = LegacyConfig(latest) => config' = config
    BY <1>1, <1>2, <2>1
  <2> QED BY <1>3, <2>1, <2>2 DEF LegacyIsKept
<1>9. WorkIsKept'
  <2> SUFFICES ASSUME worked
               PROVE  library'.used \/ \E l \in archived' : l \in Libraries /\ l.used
    BY DEF WorkIsKept
  <2>1. ~library.used
    BY <1>1
  <2>2. PICK l \in archived : l \in Libraries /\ l.used
    BY <2>1 DEF WorkIsKept
  <2>3. l # config'
    BY <1>2, <2>2, ConfigsAreNoLibraries
  <2> QED BY <1>3, <2>2, <2>3
<1> QED BY <1>4, <1>5, <1>6, <1>7, <1>8, <1>9

LEMMA PutBackupStep ==
  ASSUME StartupInv, PutBackup
  PROVE  StartupInv'
<1> USE StartupAssumption, FilesAre, NoConfigIs, LegacyConfigIs, NewConfigIs, NoLibraryIs, NewLibraryIs
    DEF StartupInv, PutBackup, Boot, KeepFiles, KeepMigration, KeepHistory, files
<1>1. backup \in Contents /\ config = NoConfig /\ library = NoLibrary
  BY DEF StartupTypes, Found, Restoring
<1>2. config' = LegacyConfig(backup) /\ config' \in Configs /\ config'.kind = "legacy" /\ config'.from = backup
  BY <1>1
<1>3. StartupTypes' /\ SavedByIt'
  BY <1>1, <1>2 DEF StartupTypes, SavedByIt, InMigration, Found, Places, Migrating, Contents
<1>4. Found'
  BY <1>1, <1>2 DEF StartupTypes, Found, Pairs, PairOK, Migrating, Restoring
<1>5. InMigration'
  BY <1>1, <1>2 DEF StartupTypes, Found, InMigration, Migrating, Contents
<1>6. Pairs' /\ BackupIsOffered'
  BY <1>1, <1>2 DEF StartupTypes, Found, Pairs, PairOK, LossOK, InMigration, Restoring, Migrating, BackupIsOffered
<1>7. LegacyIsKept' /\ WorkIsKept'
  BY <1>1, <1>2 DEF StartupTypes, Found, Pairs, PairOK, LegacyIsKept, WorkIsKept, InMigration, Migrating
<1> QED BY <1>3, <1>4, <1>5, <1>6, <1>7

LEMMA UseLibraryStep ==
  ASSUME StartupInv, UseLibrary
  PROVE  StartupInv'
<1> USE StartupAssumption, FilesAre, NoConfigIs, LegacyConfigIs, NewConfigIs, NoLibraryIs, NewLibraryIs
    DEF StartupInv, UseLibrary, Boot, KeepFiles, KeepMigration, KeepHistory, files
<1>1. /\ library \in Libraries /\ library' \in Libraries /\ library'.state = library.state
      /\ library'.source = library.source
  BY DEF StartupTypes, Libraries
<1>2. StartupTypes' /\ SavedByIt'
  BY <1>1 DEF StartupTypes, SavedByIt, InMigration, Found, Places, Migrating, Contents
<1>3. Found'
  BY <1>1 DEF StartupTypes, Found, Pairs, PairOK, Migrating, Restoring
<1>4. InMigration'
  BY <1>1 DEF StartupTypes, Found, InMigration, Migrating, Contents
<1>5. Pairs' /\ BackupIsOffered'
  BY <1>1 DEF StartupTypes, Found, Pairs, PairOK, LossOK, InMigration, Restoring, Migrating, BackupIsOffered
<1>6. LegacyIsKept' /\ WorkIsKept'
  BY <1>1 DEF StartupTypes, Found, Pairs, PairOK, LegacyIsKept, WorkIsKept, InMigration, Migrating
<1> QED BY <1>2, <1>3, <1>4, <1>5, <1>6

LEMMA KilledStep ==
  ASSUME StartupInv, Killed
  PROVE  StartupInv'
<1> USE StartupAssumption, FilesAre, NoConfigIs, LegacyConfigIs, NewConfigIs, NoLibraryIs, NewLibraryIs
    DEF StartupInv, Killed, Boot, KeepFiles, KeepMigration, KeepHistory, files, ConfigExists
<1>1. StartupTypes' /\ SavedByIt'
  BY DEF StartupTypes, SavedByIt, InMigration, Found, Places, Migrating, Contents
<1>2. Found'
  BY DEF StartupTypes, Found, Pairs, PairOK, Migrating, Restoring
<1>3. InMigration'
  BY DEF StartupTypes, Found, InMigration, Migrating, Contents
<1>4. Pairs' /\ BackupIsOffered'
  BY DEF StartupTypes, Found, Pairs, PairOK, LossOK, InMigration, Restoring, Migrating, BackupIsOffered
<1>5. LegacyIsKept' /\ WorkIsKept'
  BY DEF StartupTypes, Found, Pairs, PairOK, LegacyIsKept, WorkIsKept, InMigration, Migrating
<1> QED BY <1>1, <1>2, <1>3, <1>4, <1>5

LEMMA OldVersionSavesStep ==
  ASSUME StartupInv, OldVersionSaves
  PROVE  StartupInv'
<1> USE StartupAssumption, FilesAre, NoConfigIs, LegacyConfigIs, NewConfigIs, NoLibraryIs, NewLibraryIs
    DEF StartupInv, OldVersionSaves, Boot, KeepFiles, KeepMigration, KeepHistory, files
<1>1. config \in Configs /\ latest' = latest + 1 /\ latest' \in Contents /\ latest \in Nat
  BY DEF StartupTypes, Contents
<1>2. config' = LegacyConfig(latest') /\ config' \in Configs /\ config'.kind = "legacy" /\ config'.from = latest'
  BY <1>1
<1>3. StartupTypes' /\ SavedByIt'
  BY <1>1, <1>2 DEF StartupTypes, SavedByIt, InMigration, Found, Places, Migrating, Contents
<1>4. Found'
  BY <1>1, <1>2 DEF StartupTypes, Found, Pairs, PairOK, Migrating, Restoring
<1>5. InMigration'
  BY <1>1, <1>2 DEF StartupTypes, Found, InMigration, Migrating, Contents, SavedByIt
<1>6. Pairs' /\ BackupIsOffered'
  BY <1>1, <1>2 DEF StartupTypes, Found, Pairs, PairOK, LossOK, InMigration, Restoring, Migrating, BackupIsOffered
<1>7. LegacyIsKept'
  BY <1>1, <1>2 DEF LegacyIsKept
<1>8. WorkIsKept'
  BY <1>1, <1>2 DEF WorkIsKept
<1> QED BY <1>3, <1>4, <1>5, <1>6, <1>7, <1>8

LEMMA LoseStep ==
  ASSUME StartupInv, Lose
  PROVE  StartupInv'
<1> USE StartupAssumption, FilesAre, NoConfigIs, LegacyConfigIs, NewConfigIs, NoLibraryIs, NewLibraryIs
    DEF StartupInv, Lose, Boot, KeepFiles, KeepMigration, KeepHistory, files, LibraryExists
<1>1. /\ pc = "off" /\ pc' = "off" /\ losses' = losses + 1 /\ config \in Configs /\ library \in Libraries
      /\ losses \in Nat
      /\ \/ config' = NoConfig /\ config.kind = "new" /\ library' = library
         \/ config' = config /\ library' = NoLibrary
         \/ /\ config' = config /\ library' \in Libraries /\ library'.state = "damaged"
            /\ library'.source = library.source /\ library.state # "none"
  BY DEF StartupTypes, Libraries
<1>2. StartupTypes' /\ SavedByIt'
  BY <1>1 DEF StartupTypes, SavedByIt, InMigration, Found, Places, Migrating, Contents
<1>3. Found'
  BY <1>1 DEF StartupTypes, Found, Pairs, PairOK, Migrating, Restoring
<1>4. InMigration'
  BY <1>1 DEF StartupTypes, Found, InMigration, Migrating, Contents
<1>5. Pairs' /\ BackupIsOffered'
  BY <1>1 DEF StartupTypes, Found, Pairs, PairOK, LossOK, InMigration, Restoring, Migrating, BackupIsOffered
<1>6. LegacyIsKept'
  <2>1. UNCHANGED <<latest, unseen, backup, archived>>
    OBVIOUS
  <2>2. latest \in Contents /\ config = LegacyConfig(latest) => config' = config
    BY <1>1
  <2> QED BY <2>1, <2>2 DEF LegacyIsKept
<1>7. WorkIsKept'
  <2> SUFFICES ASSUME worked'
               PROVE  library'.used \/ \E l \in archived : l \in Libraries /\ l.used
    BY DEF WorkIsKept
  <2>1. worked /\ (library' = library \/ library'.state # "none")
    OBVIOUS
  <2>2. library' = library \/ library' = [library EXCEPT !.state = "damaged"]
    BY <2>1
  <2>3. library'.used = library.used
    BY <1>1, <2>2 DEF Libraries
  <2> QED BY <2>1, <2>3 DEF WorkIsKept
<1> QED BY <1>2, <1>3, <1>4, <1>5, <1>6, <1>7

LEMMA StartupInvHolds == StartupSpec => []StartupInv
<1>1. ASSUME StartupInit PROVE StartupInv
  <2> USE NoConfigIs, NoLibraryIs, StartupAssumption, <1>1 DEF StartupInit
  <2>1. PICK v \in {0, 1} : config = (IF v = 0 THEN NoConfig ELSE LegacyConfig(v)) /\ latest = v
    OBVIOUS
  <2>2. /\ config \in Configs /\ (config = NoConfig \/ (config = LegacyConfig(1) /\ config.kind = "legacy" /\ config.from = 1))
        /\ latest \in Contents \cup {0} /\ (config = NoConfig <=> latest = 0)
    BY <2>1, LegacyConfigIs DEF Contents
  <2> HIDE <1>1 DEF StartupInit
  <2>3. StartupTypes
    BY <1>1, <2>2 DEF StartupInit, StartupTypes, Places
  <2>4. SavedByIt /\ Found /\ InMigration
    BY <1>1, <2>1, <2>2 DEF StartupInit, SavedByIt, Found, InMigration, Migrating, Restoring
  <2>5. Pairs /\ BackupIsOffered
    BY <1>1, <2>2 DEF StartupInit, Pairs, PairOK, LossOK, BackupIsOffered
  <2>6. LegacyIsKept /\ WorkIsKept
    BY <1>1, <2>1, <2>2 DEF StartupInit, LegacyIsKept, WorkIsKept, Contents
  <2> QED BY <2>3, <2>4, <2>5, <2>6 DEF StartupInv
<1>2. ASSUME StartupInv, [StartupNext]_startupVars PROVE StartupInv'
  <2>1. CASE UNCHANGED startupVars
    <3>1. UNCHANGED <<config, library, backup, archived, taken, pc, source, imported, cancelled, latest, unseen, worked,
                      broken, starts, losses>>
      BY <2>1 DEF startupVars, files
    <3>2. StartupTypes' /\ SavedByIt' /\ Found' /\ InMigration'
      BY <1>2, <3>1 DEF StartupInv, StartupTypes, SavedByIt, Found, InMigration
    <3>3. Pairs' /\ BackupIsOffered'
      BY <1>2, <3>1 DEF StartupInv, Pairs, PairOK, LossOK, BackupIsOffered
    <3>4. LegacyIsKept' /\ WorkIsKept'
      BY <1>2, <3>1 DEF StartupInv, LegacyIsKept, WorkIsKept
    <3> QED BY <3>2, <3>3, <3>4 DEF StartupInv
  <2>2. CASE StartupNext
    BY <1>2, <2>2, StartStep, PrepareStep, AnswerEmptyStep, CreateLibraryStep, MarkReadyStep, SaveDefaultsStep,
       CutoverStep, AnswerMigrateStep, CancelMigrationStep, GiveUpMigrationStep, BackUpStep, ImportStep, VerifyStep,
       PublishLibraryStep, PublishSettingsStep, AnswerRefusalStep, ArchiveLibraryStep, ArchiveConfigStep,
       RestoreFailsStep, PutBackupStep, UseLibraryStep, KilledStep, OldVersionSavesStep, LoseStep DEF StartupNext
  <2> QED BY <1>2, <2>1, <2>2
<1> QED BY <1>1, <1>2, PTL DEF StartupSpec

\* However many contents the old version writes, files are lost and starts are
\* killed: its last configuration and the library worked in stay on disk.
THEOREM NothingIsEverDeleted == StartupSpec => []NothingIsDeleted
<1>1. StartupInv => NothingIsDeleted
  BY DEF StartupInv, LegacyIsKept, WorkIsKept, NothingIsDeleted
<1> QED BY <1>1, StartupInvHolds, PTL

\* The application only opens with settings and a library of the same origin.
THEOREM OpensWithItsOwnLibrary == StartupSpec => []SettingsMatchTheLibrary
<1>1. StartupInv => SettingsMatchTheLibrary
  BY DEF StartupInv, Found, Pairs, PairOK, SettingsMatchTheLibrary, Identified
<1> QED BY <1>1, StartupInvHolds, PTL

\* It neither starts over beside a backup nor refuses without offering one.
THEOREM BackupIsAlwaysOffered == StartupSpec => []BackupIsOffered
<1>1. StartupInv => BackupIsOffered
  BY DEF StartupInv
<1> QED BY <1>1, StartupInvHolds, PTL

-----------------------------------------------------------------------------
(***************************************************************************)
(* LoudnessJobs.                                                           *)
(*                                                                         *)
(* The loudness jobs, for any number of sounds, pages, threads and faults. *)
(***************************************************************************)

LjRuns == [step : {"none", "fetch", "page", "tail", "end"}, force : BOOLEAN, gain : BOOLEAN,
           after : 0 .. LjCount, todo : SUBSET LjSounds, busy : SUBSET LjSounds,
           updates : SUBSET (LjSounds \X {"refined", "unavailable", "confident", "estimated"}),
           taken : SUBSET LjSounds]
LjAsks == [job : LjJobs, force : BOOLEAN, gain : BOOLEAN, claimed : BOOLEAN]

JobTypes ==
  /\ ljAutoGain \in BOOLEAN
  /\ ljInFlight \in [LjJobs -> BOOLEAN] /\ ljCancelled \in [LjJobs -> BOOLEAN]
  /\ ljAsked \in [LjAskers -> LjAsks \cup {NoJob}]
  /\ ljRun \in [LjJobs -> LjRuns]
  /\ ljClick \subseteq LjJobs /\ ljStopped \subseteq LjJobs

\* What a run has taken lies behind its cursor, unless it is given one page
\* only: the page it works through holds nothing of that.
Pages(job, run) == job = "backfill" \/ run.force
RunInOrder(job, run) ==
  /\ run.step = "none" => run = NoRun
  /\ run.todo \cap run.taken = {}
  /\ run.step \in {"fetch", "page"} /\ Pages(job, run) => \A s \in run.todo \cup run.taken : s <= run.after
  /\ run.step = "fetch" /\ ~Pages(job, run) => run.taken = {}

\* Whoever has claimed a job is its only owner until its thread runs.
HasClaimed(a, job) == ljAsked[a] # NoJob /\ ljAsked[a].claimed /\ ljAsked[a].job = job
OneOwner(job) ==
  /\ ljRun[job] # NoRun => ljInFlight[job]
  /\ \A a \in LjAskers : HasClaimed(a, job) => ljInFlight[job] /\ ljRun[job] = NoRun
  /\ \A a, b \in LjAskers : HasClaimed(a, job) /\ HasClaimed(b, job) => a = b

StoppedIsCancelled == \A job \in ljStopped : ljRun[job] # NoRun /\ ljCancelled[job]

JobsInv ==
  /\ JobTypes
  /\ \A job \in LjJobs : RunInOrder(job, ljRun[job]) /\ OneOwner(job)
  /\ StoppedIsCancelled

\* What RunsComeToAnEnd says of a step.
TakesInOrder ==
  /\ \A j \in LjJobs : (ljRun'[j].busy \ ljRun[j].busy) \cap ljRun[j].taken = {}
  /\ \A j \in ljStopped : ljRun'[j].taken \subseteq ljRun[j].taken

LEMMA NothingIsTaken ==
  ASSUME JobTypes,
         \A j \in LjJobs : ljRun'[j].busy \subseteq ljRun[j].busy /\ ljRun'[j].taken \subseteq ljRun[j].taken
  PROVE  TakesInOrder
BY DEF TakesInOrder, JobTypes

(***************************************************************************)
(* A step of a run.                                                        *)
(***************************************************************************)

LEMMA NoRunIsARun == NoRun \in LjRuns
BY LoudnessAssumption DEF NoRun, LjRuns, LjSounds

LEMMA RunGoesOn ==
  ASSUME JobsInv, NEW job \in LjJobs, NEW run \in LjRuns, RunStep(job, run),
         ljRun[job] # NoRun, run # NoRun, RunInOrder(job, run)
  PROVE  JobsInv'
<1>1. JobTypes'
  BY DEF JobsInv, JobTypes, RunStep
<1>2. ljRun'[job] = run /\ \A j \in LjJobs \ {job} : ljRun'[j] = ljRun[j]
  BY DEF JobsInv, JobTypes, RunStep
<1>3. ASSUME NEW j \in LjJobs PROVE RunInOrder(j, ljRun[j])'
  BY <1>2 DEF JobsInv, RunInOrder, Pages
<1>4. ASSUME NEW j \in LjJobs PROVE OneOwner(j)'
  BY <1>2 DEF JobsInv, OneOwner, HasClaimed, RunStep
<1>5. StoppedIsCancelled'
  BY <1>2 DEF JobsInv, JobTypes, StoppedIsCancelled, RunStep
<1> QED BY <1>1, <1>3, <1>4, <1>5 DEF JobsInv

LEMMA PagesAreAhead ==
  ASSUME NEW job \in LjJobs, NEW run \in LjRuns, NEW page \in PagesOf(job, run)
  PROVE  /\ page \subseteq LjSounds
         /\ Pages(job, run) => \A s \in page : s > run.after
<1>1. CASE Pages(job, run)
  BY <1>1 DEF Pages, PagesOf, NextPages, FirstOf, After, Missing, Candidates
<1>2. CASE ~Pages(job, run)
  BY <1>2 DEF Pages, PagesOf, NextPages, Candidates
<1> QED BY <1>1, <1>2

LEMMA FetchStep ==
  ASSUME JobsInv, NEW job \in LjJobs, Fetch(job)
  PROVE  JobsInv' /\ TakesInOrder
<1> DEFINE run == ljRun[job]
<1>1. run \in LjRuns /\ RunInOrder(job, run) /\ run.step = "fetch"
  BY DEF JobsInv, JobTypes, Fetch
<1>2. run # NoRun
  BY <1>1 DEF NoRun
<1>3. PICK page \in PagesOf(job, run) :
        IF page = {} THEN RunStep(job, [run EXCEPT !.step = Left(job)])
        ELSE \E last \in page : /\ \A s \in page : s <= last
                                /\ RunStep(job, [run EXCEPT !.step = "page", !.after = last, !.todo = page])
  BY DEF Fetch
<1>4. CASE page = {}
  <2> DEFINE new == [run EXCEPT !.step = Left(job)]
  <2>1. new \in LjRuns /\ new # NoRun /\ RunInOrder(job, new) /\ new.busy = run.busy /\ new.taken = run.taken
    BY <1>1 DEF LjRuns, NoRun, RunInOrder, Pages, Left
  <2> HIDE DEF new
  <2>2. RunStep(job, new)
    BY <1>3, <1>4 DEF new
  <2>3. ljRun' = [ljRun EXCEPT ![job] = new]
    BY <2>2 DEF RunStep
  <2> QED BY <1>2, <2>1, <2>2, <2>3, RunGoesOn, NothingIsTaken DEF JobsInv, JobTypes
<1>5. CASE page # {}
  <2>1. PICK last \in page : /\ \A s \in page : s <= last
                             /\ RunStep(job, [run EXCEPT !.step = "page", !.after = last, !.todo = page])
    BY <1>3, <1>5
  <2> DEFINE new == [run EXCEPT !.step = "page", !.after = last, !.todo = page]
  <2>2. page \subseteq LjSounds /\ (Pages(job, run) => \A s \in page : s > run.after)
    BY <1>1, PagesAreAhead
  <2>3. last \in 0 .. LjCount
    BY <2>2 DEF LjSounds
  <2>4. new \in LjRuns /\ new # NoRun /\ new.busy = run.busy /\ new.taken = run.taken
    BY <1>1, <2>2, <2>3 DEF LjRuns, NoRun
  <2>5. Pages(job, new) <=> Pages(job, run)
    BY <1>1 DEF Pages, LjRuns
  <2>6. page \cap run.taken = {}
    BY <1>1, <2>2 DEF RunInOrder, LjRuns, LjSounds
  <2>7. Pages(job, run) => \A s \in page \cup run.taken : s <= last
    BY <1>1, <2>1, <2>2 DEF RunInOrder, LjRuns, LjSounds
  <2>8. RunInOrder(job, new)
    BY <1>1, <2>5, <2>6, <2>7 DEF RunInOrder, LjRuns
  <2> HIDE DEF new
  <2>9. RunStep(job, new)
    BY <2>1 DEF new
  <2>10. ljRun' = [ljRun EXCEPT ![job] = new]
    BY <2>9 DEF RunStep
  <2> QED BY <1>2, <2>4, <2>8, <2>9, <2>10, RunGoesOn, NothingIsTaken DEF JobsInv, JobTypes
<1> QED BY <1>4, <1>5

\* A step of a run that takes nothing and goes on from where the run was.
LEMMA WorkGoesOn ==
  ASSUME JobsInv, NEW job \in LjJobs, NEW run \in LjRuns, RunStep(job, run),
         ljRun[job] # NoRun, run.step # "none",
         run.todo \subseteq ljRun[job].todo, run.busy \subseteq ljRun[job].busy, run.taken = ljRun[job].taken,
         run.after = ljRun[job].after, run.force = ljRun[job].force,
         \/ run.step = ljRun[job].step
         \/ run.step = "fetch" /\ ljRun[job].step = "page" /\ Pages(job, run)
         \/ run.step \in {"tail", "end"}
  PROVE  JobsInv' /\ TakesInOrder
<1>1. ljRun[job] \in LjRuns /\ RunInOrder(job, ljRun[job])
  BY DEF JobsInv, JobTypes
<1>2. RunInOrder(job, run)
  BY <1>1 DEF RunInOrder, Pages, LjRuns
<1>3. run # NoRun
  BY DEF NoRun
<1>4. ljRun' = [ljRun EXCEPT ![job] = run]
  BY DEF RunStep
<1> QED BY <1>2, <1>3, <1>4, RunGoesOn, NothingIsTaken DEF JobsInv, JobTypes

LEMMA RunsAreTyped ==
  ASSUME JobsInv, NEW job \in LjJobs
  PROVE  /\ ljRun[job] \in LjRuns /\ RunInOrder(job, ljRun[job])
         /\ ljRun[job].step # "none" <=> ljRun[job] # NoRun
<1>1. ljRun[job] \in LjRuns /\ RunInOrder(job, ljRun[job])
  BY DEF JobsInv, JobTypes
<1>2. NoRun.step = "none"
  BY DEF NoRun
<1> QED BY <1>1, <1>2 DEF RunInOrder

LEMMA TakeStep ==
  ASSUME JobsInv, NEW job \in LjJobs, Take(job)
  PROVE  JobsInv' /\ TakesInOrder
<1> DEFINE run == ljRun[job]
<1>1. run \in LjRuns /\ RunInOrder(job, run) /\ run.step = "page" /\ run # NoRun
  BY RunsAreTyped DEF Take
<1>2. PICK s \in run.todo :
        IF ljCancelled[job]
        THEN RunStep(job, [run EXCEPT !.todo = IF job = "backfill" THEN @ \ {s} ELSE {}])
        ELSE RunStep(job, [run EXCEPT !.todo = @ \ {s}, !.busy = @ \cup {s}, !.taken = @ \cup {s}])
  BY DEF Take
<1>3. CASE ljCancelled[job]
  <2> DEFINE new == [run EXCEPT !.todo = IF job = "backfill" THEN @ \ {s} ELSE {}]
  <2>1. /\ new \in LjRuns /\ new.step = run.step /\ new.todo \subseteq run.todo /\ new.busy = run.busy
        /\ new.taken = run.taken /\ new.after = run.after /\ new.force = run.force
    BY <1>1 DEF LjRuns
  <2> HIDE DEF new
  <2>2. RunStep(job, new)
    BY <1>2, <1>3 DEF new
  <2> QED BY <1>1, <2>1, <2>2, WorkGoesOn
<1>4. CASE ~ljCancelled[job]
  <2> DEFINE new == [run EXCEPT !.todo = @ \ {s}, !.busy = @ \cup {s}, !.taken = @ \cup {s}]
  <2>1. /\ new \in LjRuns /\ new.step = "page" /\ new.todo = run.todo \ {s} /\ new.busy = run.busy \cup {s}
        /\ new.taken = run.taken \cup {s} /\ new.after = run.after /\ new.force = run.force
    BY <1>1 DEF LjRuns
  <2> HIDE DEF new
  <2>2. RunStep(job, new)
    BY <1>2, <1>4 DEF new
  <2>3. RunInOrder(job, new) /\ new # NoRun
    BY <1>1, <2>1 DEF RunInOrder, Pages, LjRuns, NoRun
  <2>4. JobsInv'
    BY <1>1, <2>1, <2>2, <2>3, RunGoesOn
  <2>5. ljRun'[job] = new /\ \A j \in LjJobs \ {job} : ljRun'[j] = ljRun[j]
    BY <2>2 DEF RunStep, JobsInv, JobTypes
  <2>6. s \notin run.taken
    BY <1>1, <1>2 DEF RunInOrder
  <2>7. job \notin ljStopped
    BY <1>4 DEF JobsInv, StoppedIsCancelled
  <2>8. TakesInOrder
    BY <2>1, <2>5, <2>6, <2>7 DEF TakesInOrder, JobsInv, JobTypes
  <2> QED BY <2>4, <2>8
<1> QED BY <1>3, <1>4

LEMMA AnalysedStep ==
  ASSUME JobsInv, NEW job \in LjJobs, Analysed(job)
  PROVE  JobsInv' /\ TakesInOrder
<1> DEFINE run == ljRun[job]
<1>1. run \in LjRuns /\ RunInOrder(job, run)
  BY RunsAreTyped
<1>2. PICK s \in run.busy, outcome \in Outcomes(job) :
        RunStep(job, [run EXCEPT !.busy = @ \ {s}, !.updates = @ \cup ({<<s, outcome>>} \ {<<s, "unknown">>})])
  BY DEF Analysed
<1>3. run # NoRun /\ run.step # "none"
  BY <1>2, RunsAreTyped DEF NoRun
<1> DEFINE new == [run EXCEPT !.busy = @ \ {s}, !.updates = @ \cup ({<<s, outcome>>} \ {<<s, "unknown">>})]
<1>4. {<<s, outcome>>} \ {<<s, "unknown">>} \subseteq LjSounds \X {"refined", "unavailable", "confident", "estimated"}
  BY <1>1 DEF Outcomes, LjRuns
<1>5. /\ new \in LjRuns /\ new.step = run.step /\ new.todo = run.todo /\ new.busy \subseteq run.busy
      /\ new.taken = run.taken /\ new.after = run.after /\ new.force = run.force
  BY <1>1, <1>4 DEF LjRuns
<1> HIDE DEF new
<1>6. RunStep(job, new)
  BY <1>2 DEF new
<1> QED BY <1>3, <1>5, <1>6, WorkGoesOn

LEMMA FlushStep ==
  ASSUME JobsInv, Flush
  PROVE  JobsInv' /\ TakesInOrder
<1> DEFINE run == ljRun["refinement"]
           new == [run EXCEPT !.updates = {}]
<1>1. run \in LjRuns /\ "refinement" \in LjJobs
  BY RunsAreTyped DEF LjJobs
<1>2. run # NoRun /\ run.step # "none"
  <2>1. Cardinality(run.updates) >= LjFlushRows /\ LjFlushRows \in Nat \ {0}
    BY LoudnessAssumption DEF Flush
  <2>2. run.updates # {}
    BY <2>1, FS_EmptySet
  <2> QED BY <2>2, <1>1, RunsAreTyped DEF NoRun
<1>3. /\ new \in LjRuns /\ new.step = run.step /\ new.todo = run.todo /\ new.busy = run.busy
      /\ new.taken = run.taken /\ new.after = run.after /\ new.force = run.force
  BY <1>1 DEF LjRuns
<1>4. RunStep("refinement", new)
  BY DEF Flush
<1> HIDE DEF new
<1> QED BY <1>1, <1>2, <1>3, <1>4, WorkGoesOn

LEMMA PageDoneStep ==
  ASSUME JobsInv, NEW job \in LjJobs, PageDone(job)
  PROVE  JobsInv' /\ TakesInOrder
<1> DEFINE run == ljRun[job]
           next == IF ljCancelled[job] \/ (job = "refinement" /\ ~run.force) THEN Left(job) ELSE "fetch"
           new == [run EXCEPT !.updates = {}, !.step = next]
<1>1. run \in LjRuns /\ run.step = "page" /\ run # NoRun
  BY RunsAreTyped DEF PageDone
<1>2. next \in {"tail", "end"} \/ (next = "fetch" /\ Pages(job, run))
  BY <1>1 DEF Left, Pages, LjJobs
<1>3. RunStep(job, new)
  BY DEF PageDone
<1> HIDE DEF next
<1>4. /\ new \in LjRuns /\ new.step = next /\ new.todo = run.todo /\ new.busy = run.busy
      /\ new.taken = run.taken /\ new.after = run.after /\ new.force = run.force
  BY <1>1, <1>2 DEF LjRuns
<1> HIDE DEF new
<1>5. Pages(job, run) <=> Pages(job, new)
  BY <1>4 DEF Pages
<1> QED BY <1>1, <1>2, <1>3, <1>4, <1>5, WorkGoesOn

LEMMA RequestFailsStep ==
  ASSUME JobsInv, NEW job \in LjJobs, RequestFails(job)
  PROVE  JobsInv' /\ TakesInOrder
<1> DEFINE run == ljRun[job]
           new == [run EXCEPT !.step = "end", !.updates = {}]
<1>1. run \in LjRuns /\ run # NoRun
  BY RunsAreTyped DEF RequestFails
<1>2. RunStep(job, new)
  BY DEF RequestFails
<1>3. /\ new \in LjRuns /\ new.step = "end" /\ new.todo = run.todo /\ new.busy = run.busy
      /\ new.taken = run.taken /\ new.after = run.after /\ new.force = run.force
  BY <1>1 DEF LjRuns
<1> HIDE DEF new
<1> QED BY <1>1, <1>2, <1>3, WorkGoesOn

(***************************************************************************)
(* The other steps.                                                        *)
(***************************************************************************)

\* Who asks has not claimed anything.
LEMMA AsksAreTyped ==
  ASSUME JobsInv, NEW gain \in BOOLEAN, NEW force \in BOOLEAN
  PROVE  /\ RefinementAsked(gain, force) \in {NoJob} \cup [job : LjJobs, force : BOOLEAN, gain : BOOLEAN, claimed : {FALSE}]
         /\ BackfillAsked(force) \in {NoJob} \cup [job : LjJobs, force : BOOLEAN, gain : BOOLEAN, claimed : {FALSE}]
BY DEF RefinementAsked, BackfillAsked, Asking, LjJobs, JobsInv, JobTypes

LEMMA AskingIsHarmless ==
  ASSUME JobsInv, NEW a \in LjAskers,
         NEW ask \in {NoJob} \cup [job : LjJobs, force : BOOLEAN, gain : BOOLEAN, claimed : {FALSE}],
         ljAsked' = [ljAsked EXCEPT ![a] = ask],
         UNCHANGED <<ljInFlight, ljRun>>
  PROVE  /\ ljAsked' \in [LjAskers -> LjAsks \cup {NoJob}]
         /\ \A job \in LjJobs : OneOwner(job)'
<1>1. ask \in LjAsks \cup {NoJob}
  BY DEF LjAsks
<1>2. ljAsked' \in [LjAskers -> LjAsks \cup {NoJob}]
  BY <1>1 DEF JobsInv, JobTypes
<1>3. ASSUME NEW b \in LjAskers, NEW job \in LjJobs, HasClaimed(b, job)' PROVE HasClaimed(b, job) /\ b # a
  <2>1. b # a
    <3>1. ASSUME b = a PROVE ask # NoJob /\ ask.claimed
      BY <1>3, <3>1 DEF HasClaimed, JobsInv, JobTypes
    <3> QED BY <3>1
  <2> QED BY <1>3, <2>1 DEF HasClaimed, JobsInv, JobTypes
<1> QED BY <1>2, <1>3 DEF OneOwner, JobsInv

LEMMA AskSteps ==
  ASSUME JobsInv, AskUnforced \/ Click
  PROVE  JobsInv' /\ TakesInOrder
<1>1. CASE UNCHANGED ljAsked
  <2>1. UNCHANGED <<ljAutoGain, ljInFlight, ljCancelled, ljAsked, ljRun, ljStopped>> /\ ljClick' \subseteq LjJobs
    BY <1>1 DEF AskUnforced, Click, JobsInv, JobTypes
  <2>2. JobTypes'
    BY <2>1 DEF JobsInv, JobTypes
  <2> QED BY <2>1, <2>2, NothingIsTaken DEF JobsInv, RunInOrder, OneOwner, HasClaimed, StoppedIsCancelled
<1>2. ASSUME NEW a \in LjAskers,
             NEW ask \in {NoJob} \cup [job : LjJobs, force : BOOLEAN, gain : BOOLEAN, claimed : {FALSE}],
             ljAsked' = [ljAsked EXCEPT ![a] = ask]
      PROVE  JobsInv' /\ TakesInOrder
  <2>1. UNCHANGED <<ljAutoGain, ljInFlight, ljCancelled, ljRun, ljStopped>> /\ ljClick' \subseteq LjJobs
    BY DEF AskUnforced, Click, JobsInv, JobTypes
  <2>2. JobTypes'
    BY <1>2, <2>1, AskingIsHarmless DEF JobsInv, JobTypes
  <2>3. \A job \in LjJobs : RunInOrder(job, ljRun[job])' /\ OneOwner(job)'
    BY <1>2, <2>1, AskingIsHarmless DEF JobsInv, RunInOrder
  <2>4. StoppedIsCancelled'
    BY <2>1 DEF JobsInv, StoppedIsCancelled
  <2> QED BY <2>1, <2>2, <2>3, <2>4, NothingIsTaken DEF JobsInv
<1>3. CASE AskUnforced
  BY <1>3, <1>2, AsksAreTyped DEF AskUnforced, LjAskers
<1>4. CASE Click
  <2>1. ljAutoGain \in BOOLEAN
    BY DEF JobsInv, JobTypes
  <2>2. UNCHANGED ljAsked \/ \E ask \in {BackfillAsked(TRUE), RefinementAsked(ljAutoGain, TRUE)} :
                               ljAsked' = [ljAsked EXCEPT !["window"] = ask]
    BY <1>4 DEF Click
  <2>3. ASSUME NEW ask \in {BackfillAsked(TRUE), RefinementAsked(ljAutoGain, TRUE)}
        PROVE  ask \in {NoJob} \cup [job : LjJobs, force : BOOLEAN, gain : BOOLEAN, claimed : {FALSE}]
    BY <2>1, AsksAreTyped
  <2>4. "window" \in LjAskers
    BY DEF LjAskers
  <2> QED BY <1>1, <1>2, <2>2, <2>3, <2>4
<1> QED BY <1>3, <1>4

LEMMA BackfillTailStep ==
  ASSUME JobsInv, BackfillTail
  PROVE  JobsInv' /\ TakesInOrder
<1> DEFINE run == ljRun["backfill"]
           new == [run EXCEPT !.step = "end"]
           ask == RefinementAsked(run.gain, FALSE)
<1>1. run \in LjRuns /\ run # NoRun /\ RunInOrder("backfill", run) /\ "backfill" \in LjJobs /\ "backfill" \in LjAskers
  BY RunsAreTyped DEF LjJobs, LjAskers, BackfillTail
<1>2. ljRun' = [ljRun EXCEPT !["backfill"] = new]
  BY DEF BackfillTail
<1>3. /\ new \in LjRuns /\ new # NoRun /\ new.step = "end" /\ new.todo = run.todo /\ new.busy = run.busy
      /\ new.taken = run.taken
  BY <1>1 DEF LjRuns, NoRun
<1> HIDE DEF new
<1>4. RunInOrder("backfill", new)
  BY <1>1, <1>3 DEF RunInOrder
<1>5. run.gain \in BOOLEAN
  BY <1>1 DEF LjRuns
<1>6. ask \in {NoJob} \cup [job : LjJobs, force : BOOLEAN, gain : BOOLEAN, claimed : {FALSE}]
  BY <1>5, AsksAreTyped
<1>7. ljAsked' = [ljAsked EXCEPT !["backfill"] = ask]
      /\ UNCHANGED <<ljAutoGain, ljInFlight, ljCancelled, ljClick, ljStopped>>
  BY DEF BackfillTail
<1> HIDE DEF ask, run
<1>8. ljRun'["backfill"] = new /\ \A j \in LjJobs \ {"backfill"} : ljRun'[j] = ljRun[j]
  BY <1>1, <1>2 DEF JobsInv, JobTypes
<1>9. ljAsked' \in [LjAskers -> LjAsks \cup {NoJob}]
  BY <1>6, <1>7 DEF LjAsks, JobsInv, JobTypes
<1>10. JobTypes'
  BY <1>2, <1>3, <1>7, <1>9 DEF JobsInv, JobTypes
<1>11. ASSUME NEW b \in LjAskers, NEW job \in LjJobs, HasClaimed(b, job)' PROVE HasClaimed(b, job)
  <2>1. b # "backfill"
    <3>1. ASSUME b = "backfill" PROVE ask # NoJob /\ ask.claimed
      BY <1>7, <1>11, <3>1 DEF HasClaimed, JobsInv, JobTypes
    <3> QED BY <3>1, <1>6
  <2> QED BY <1>7, <1>11, <2>1 DEF HasClaimed, JobsInv, JobTypes
<1>12. \A j \in LjJobs : ljRun'[j] # NoRun <=> ljRun[j] # NoRun
  BY <1>1, <1>3, <1>8 DEF run
<1>13. \A j \in LjJobs : OneOwner(j)'
  BY <1>7, <1>11, <1>12 DEF OneOwner, JobsInv
<1>14. \A j \in LjJobs : RunInOrder(j, ljRun[j])'
  BY <1>4, <1>8 DEF JobsInv, RunInOrder, Pages
<1>15. StoppedIsCancelled'
  BY <1>7, <1>12 DEF JobsInv, JobTypes, StoppedIsCancelled
<1>16. TakesInOrder
  BY <1>3, <1>8, NothingIsTaken DEF JobsInv, run
<1> QED BY <1>10, <1>13, <1>14, <1>15, <1>16 DEF JobsInv

LEMMA StopJobStep ==
  ASSUME JobsInv, StopJob
  PROVE  JobsInv' /\ TakesInOrder
<1>1. PICK job \in LjJobs :
        /\ ljClick' = ljClick \ {job}
        /\ ljCancelled' = [ljCancelled EXCEPT ![job] = TRUE]
        /\ ljStopped' = IF ljRun[job] = NoRun THEN ljStopped ELSE ljStopped \cup {job}
  BY DEF StopJob, JobsInv, JobTypes, LjJobs
<1>2. UNCHANGED <<ljAutoGain, ljInFlight, ljAsked, ljRun>>
  BY DEF StopJob
<1>3. JobTypes'
  BY <1>1, <1>2 DEF JobsInv, JobTypes
<1>4. StoppedIsCancelled'
  BY <1>1, <1>2 DEF JobsInv, JobTypes, StoppedIsCancelled
<1>5. \A j \in LjJobs : RunInOrder(j, ljRun[j])' /\ OneOwner(j)'
  BY <1>2 DEF JobsInv, RunInOrder, OneOwner, HasClaimed
<1> QED BY <1>2, <1>3, <1>4, <1>5, NothingIsTaken DEF JobsInv

LEMMA ClaimStep ==
  ASSUME JobsInv, NEW a \in LjAskers, Claim(a)
  PROVE  JobsInv' /\ TakesInOrder
<1> DEFINE ask == ljAsked[a]
<1>1. ask \in LjAsks /\ ask.job \in LjJobs
  BY DEF Claim, JobsInv, JobTypes, LjAsks
<1>2. UNCHANGED <<ljAutoGain, ljCancelled, ljRun, ljClick, ljStopped>>
  BY DEF Claim, BeforeClaim, ClaimFirst
<1>3. TakesInOrder
  BY <1>2, NothingIsTaken DEF JobsInv
<1>4. CASE ljInFlight[ask.job]
  <2>1. ljAsked' = [ljAsked EXCEPT ![a] = NoJob] /\ UNCHANGED ljInFlight
    BY <1>4 DEF Claim
  <2>2. JobTypes'
    BY <1>2, <2>1 DEF JobsInv, JobTypes
  <2>3. \A b \in LjAskers, j \in LjJobs : HasClaimed(b, j)' => HasClaimed(b, j)
    BY <2>1 DEF HasClaimed, JobsInv, JobTypes
  <2>4. \A j \in LjJobs : OneOwner(j)'
    BY <1>2, <2>1, <2>3 DEF OneOwner, JobsInv
  <2> QED BY <1>2, <1>3, <2>2, <2>4 DEF JobsInv, RunInOrder, StoppedIsCancelled
<1>5. CASE ~ljInFlight[ask.job]
  <2> DEFINE new == [ask EXCEPT !.claimed = TRUE]
  <2>1. ljAsked' = [ljAsked EXCEPT ![a] = new] /\ ljInFlight' = [ljInFlight EXCEPT ![ask.job] = TRUE]
    BY <1>5 DEF Claim
  <2>2. new \in LjAsks /\ new.job = ask.job
    BY <1>1 DEF LjAsks
  <2> HIDE DEF new
  <2>3. JobTypes'
    BY <1>1, <1>2, <2>1, <2>2 DEF JobsInv, JobTypes
  <2>4. ASSUME NEW b \in LjAskers, NEW j \in LjJobs, HasClaimed(b, j)'
        PROVE  \/ b # a /\ HasClaimed(b, j) /\ j # ask.job
               \/ b = a /\ j = ask.job
    <3>1. CASE b = a
      BY <2>1, <2>2, <2>4, <3>1 DEF HasClaimed, JobsInv, JobTypes
    <3>2. CASE b # a
      <4>1. HasClaimed(b, j)
        BY <2>1, <2>4, <3>2 DEF HasClaimed, JobsInv, JobTypes
      <4>2. ljInFlight[j]
        BY <4>1 DEF JobsInv, OneOwner
      <4> QED BY <1>5, <3>2, <4>1, <4>2
    <3> QED BY <3>1, <3>2
  <2>5. ljRun[ask.job] = NoRun
    BY <1>1, <1>5 DEF JobsInv, OneOwner
  <2>6. \A j \in LjJobs : ljInFlight[j] => ljInFlight'[j]
    BY <1>1, <2>1 DEF JobsInv, JobTypes
  <2>7. ljInFlight'[ask.job]
    BY <1>1, <2>1 DEF JobsInv, JobTypes
  <2>8. \A j \in LjJobs : OneOwner(j)'
    BY <1>2, <2>4, <2>5, <2>6, <2>7 DEF OneOwner, JobsInv
  <2> QED BY <1>2, <1>3, <2>3, <2>8 DEF JobsInv, RunInOrder, StoppedIsCancelled
<1> QED BY <1>4, <1>5

LEMMA SpawnStep ==
  ASSUME JobsInv, NEW a \in LjAskers, Spawn(a)
  PROVE  JobsInv' /\ TakesInOrder
<1> DEFINE job == ljAsked[a].job
           new == [NoRun EXCEPT !.step = "fetch", !.force = ljAsked[a].force, !.gain = ljAsked[a].gain]
<1>1. ljAsked[a] \in LjAsks /\ job \in LjJobs /\ HasClaimed(a, job)
  BY DEF Spawn, JobsInv, JobTypes, LjAsks, HasClaimed
<1>2. ljInFlight[job] /\ ljRun[job] = NoRun /\ \A b \in LjAskers : HasClaimed(b, job) => a = b
  BY <1>1 DEF JobsInv, OneOwner
<1>3. job \notin ljStopped
  BY <1>2 DEF JobsInv, StoppedIsCancelled
<1>4. /\ new \in LjRuns /\ new # NoRun /\ new.step = "fetch"
      /\ new.todo = {} /\ new.busy = {} /\ new.taken = {} /\ new.after = 0
  BY <1>1, NoRunIsARun DEF LjAsks, LjRuns, NoRun
<1>5. RunInOrder(job, new)
  BY <1>4 DEF RunInOrder
<1>6. /\ ljAsked' = [ljAsked EXCEPT ![a] = NoJob]
      /\ ljCancelled' = [ljCancelled EXCEPT ![job] = FALSE]
      /\ UNCHANGED <<ljAutoGain, ljClick, ljStopped>>
      /\ \/ ljRun' = [ljRun EXCEPT ![job] = new] /\ UNCHANGED ljInFlight
         \/ ljInFlight' = [ljInFlight EXCEPT ![job] = FALSE] /\ UNCHANGED ljRun
  BY DEF Spawn
<1> HIDE DEF new, job
<1>7. JobTypes'
  BY <1>1, <1>4, <1>6 DEF JobsInv, JobTypes
<1>8. ASSUME NEW b \in LjAskers, NEW j \in LjJobs, HasClaimed(b, j)' PROVE HasClaimed(b, j) /\ j # job
  <2>1. b # a
    BY <1>6, <1>8 DEF HasClaimed, JobsInv, JobTypes
  <2>2. HasClaimed(b, j)
    BY <1>6, <1>8, <2>1 DEF HasClaimed, JobsInv, JobTypes
  <2> QED BY <1>2, <2>1, <2>2
<1>9. \A j \in LjJobs \ {job} : ljRun'[j] = ljRun[j] /\ ljInFlight'[j] = ljInFlight[j] /\ ljCancelled'[j] = ljCancelled[j]
  BY <1>6 DEF JobsInv, JobTypes
<1>10. (ljRun'[job] = new /\ ljInFlight'[job]) \/ ljRun'[job] = NoRun
  BY <1>1, <1>2, <1>6 DEF JobsInv, JobTypes
<1>11. \A j \in LjJobs : OneOwner(j)'
  <2> SUFFICES ASSUME NEW j \in LjJobs PROVE OneOwner(j)'
    OBVIOUS
  <2>1. OneOwner(j)
    BY DEF JobsInv
  <2>2. CASE j = job
    BY <1>8, <1>10, <2>2 DEF OneOwner
  <2>3. CASE j # job
    BY <1>8, <1>9, <2>1, <2>3 DEF OneOwner
  <2> QED BY <2>2, <2>3
<1>12. RunInOrder(job, NoRun)
  BY DEF RunInOrder, NoRun
<1>13. \A j \in LjJobs : RunInOrder(j, ljRun[j])'
  BY <1>5, <1>9, <1>10, <1>12 DEF JobsInv, RunInOrder, Pages
<1>14. StoppedIsCancelled'
  BY <1>3, <1>6, <1>9 DEF JobsInv, JobTypes, StoppedIsCancelled
<1>15. NoRun.busy = {} /\ NoRun.taken = {}
  BY DEF NoRun
<1>16. TakesInOrder
  BY <1>4, <1>9, <1>10, <1>15, NothingIsTaken DEF JobsInv
<1> QED BY <1>7, <1>11, <1>13, <1>14, <1>16 DEF JobsInv

LEMMA EndRunStep ==
  ASSUME JobsInv, NEW job \in LjJobs, EndRun(job)
  PROVE  JobsInv' /\ TakesInOrder
<1>1. ljRun[job] # NoRun
  BY RunsAreTyped DEF EndRun
<1>2. /\ ljRun' = [ljRun EXCEPT ![job] = NoRun]
      /\ ljInFlight' = [ljInFlight EXCEPT ![job] = FALSE]
      /\ ljStopped' = ljStopped \ {job}
      /\ UNCHANGED <<ljAutoGain, ljCancelled, ljAsked, ljClick>>
  BY DEF EndRun
<1>3. JobTypes'
  BY <1>2, NoRunIsARun DEF JobsInv, JobTypes
<1>4. ljRun'[job] = NoRun
      /\ \A j \in LjJobs \ {job} : ljRun'[j] = ljRun[j] /\ ljInFlight'[j] = ljInFlight[j]
  BY <1>2 DEF JobsInv, JobTypes
<1>5. \A b \in LjAskers : ~HasClaimed(b, job)
  BY <1>1 DEF JobsInv, OneOwner
<1>6. \A j \in LjJobs : OneOwner(j)'
  BY <1>2, <1>4, <1>5 DEF OneOwner, HasClaimed, JobsInv
<1>7. RunInOrder(job, NoRun) /\ NoRun.busy = {} /\ NoRun.taken = {}
  BY DEF RunInOrder, NoRun
<1>8. \A j \in LjJobs : RunInOrder(j, ljRun[j])'
  BY <1>4, <1>7 DEF JobsInv, RunInOrder, Pages
<1>9. StoppedIsCancelled'
  BY <1>2, <1>4 DEF JobsInv, JobTypes, StoppedIsCancelled
<1>10. TakesInOrder
  BY <1>4, <1>7, NothingIsTaken DEF JobsInv
<1> QED BY <1>3, <1>6, <1>8, <1>9, <1>10 DEF JobsInv

LEMMA OtherSteps ==
  ASSUME JobsInv, SoundAdded \/ AnalysedAlone \/ ToggleAutoGain \/ UNCHANGED ljVars
  PROVE  JobsInv' /\ TakesInOrder
<1>1. UNCHANGED <<ljInFlight, ljCancelled, ljAsked, ljRun, ljClick, ljStopped>> /\ ljAutoGain' \in BOOLEAN
  BY DEF SoundAdded, AnalysedAlone, ToggleAutoGain, LjOther, ljVars, JobsInv, JobTypes
<1>2. JobTypes'
  BY <1>1 DEF JobsInv, JobTypes
<1> QED BY <1>1, <1>2, NothingIsTaken DEF JobsInv, RunInOrder, OneOwner, HasClaimed, StoppedIsCancelled

(***************************************************************************)
(* The theorem.                                                            *)
(***************************************************************************)

LEMMA JobsInit ==
  ASSUME LjInit
  PROVE  JobsInv
<1>1. NoRun.busy = {} /\ NoRun.taken = {} /\ NoRun.todo = {} /\ NoRun.step = "none"
  BY DEF NoRun
<1>2. JobTypes
  BY NoRunIsARun DEF LjInit, JobTypes
<1>3. \A a \in LjAskers, job \in LjJobs : ~HasClaimed(a, job)
  BY DEF LjInit, HasClaimed
<1>4. \A job \in LjJobs : RunInOrder(job, ljRun[job]) /\ OneOwner(job)
  BY <1>1, <1>3 DEF LjInit, RunInOrder, OneOwner
<1> QED BY <1>2, <1>4 DEF JobsInv, StoppedIsCancelled, LjInit

LEMMA JobsStep ==
  ASSUME JobsInv, [LjNext]_ljVars
  PROVE  JobsInv' /\ TakesInOrder
<1>1. CASE AskUnforced \/ Click
  BY <1>1, AskSteps
<1>2. CASE StopJob
  BY <1>2, StopJobStep
<1>3. ASSUME NEW a \in LjAskers, Claim(a) \/ Spawn(a) PROVE JobsInv' /\ TakesInOrder
  BY <1>3, ClaimStep, SpawnStep
<1>4. ASSUME NEW job \in LjJobs,
             Fetch(job) \/ Take(job) \/ Analysed(job) \/ PageDone(job) \/ RequestFails(job) \/ EndRun(job)
      PROVE  JobsInv' /\ TakesInOrder
  BY <1>4, FetchStep, TakeStep, AnalysedStep, PageDoneStep, RequestFailsStep, EndRunStep
<1>5. CASE Flush
  BY <1>5, FlushStep
<1>6. CASE BackfillTail
  BY <1>6, BackfillTailStep
<1>7. CASE SoundAdded \/ AnalysedAlone \/ ToggleAutoGain \/ UNCHANGED ljVars
  BY <1>7, OtherSteps
<1> QED BY <1>1, <1>2, <1>3, <1>4, <1>5, <1>6, <1>7 DEF LjNext

\* For any number of sounds, page size, number of threads and faults, no run of
\* a job takes a sound twice, and one that was told to stop takes none.
THEOREM JobsComeToAnEnd == LjSpec => RunsComeToAnEnd
<1>1. JobsInv /\ [LjNext]_ljVars => JobsInv' /\ TakesInOrder
  BY JobsStep
<1> QED BY JobsInit, <1>1, PTL DEF LjSpec, RunsComeToAnEnd, TakesInOrder

-----------------------------------------------------------------------------
(***************************************************************************)
(* SoundImport.                                                            *)
(*                                                                         *)
(* What the commands on single sounds answer, for any files, tabs and      *)
(* jobs, while scans, the sidebar and the disk go on.                      *)
(***************************************************************************)

SoundRecs ==
  [path : ImFiles \cup {ImNone}, name : {"file", "chosen"}, loud : ImFiles \cup {ImNone},
   standalone : BOOLEAN, place : {"none", "staged", "live", "hidden"}]
JobFields == {"kind", "step", "todo", "given", "batch", "added", "tab", "id", "file", "seen",
              "window", "ok"}

\* A command under way, whatever it has left to do; "len" is the number of rows.
JobShape(c, len) ==
  /\ DOMAIN c = JobFields
  /\ c.kind \in {"none", "import", "rename", "locate", "analyze", "remove"}
  /\ c.batch \in Seq(ImFiles) /\ c.given \subseteq ImFiles /\ c.added \subseteq 1 .. len
  /\ c.tab \in ImTabs \cup {ImNone} /\ c.file \in ImFiles \cup {ImNone}
  /\ c.seen \in SoundRecs
  /\ c.step = "write" => c.id \in 1 .. len
  /\ c.step = "start" => c.given = {} /\ c.batch = <<>> /\ c.added = {}

ImportTypes ==
  /\ imRows \in Seq(SoundRecs)
  /\ imMembers \subseteq ImTabs \X (1 .. Len(imRows))
  /\ imTabs \subseteq ImTabs /\ imDisk \subseteq ImFiles
  /\ DOMAIN imJob = ImJobs
  /\ \A j \in ImJobs : JobShape(imJob[j], Len(imRows))

\* Files a sound of which is, or was, in the library.
Reached == LiveFiles(imRows, imMembers) \cup imLost

\* An import that has not failed: it goes on, or has answered Ok.
OnTheWay(c) == c.kind = "import" /\ (c.step \in {"look", "flush", "members"} \/ (c.step = "answer" /\ c.ok))

\* What it was given has come to the library, or is in the batch it collects.
GivenArrives ==
  \A j \in ImJobs : OnTheWay(imJob[j]) =>
    imJob[j].given \subseteq
      Reached \cup (IF imJob[j].step \in {"look", "flush"} THEN ToSet(imJob[j].batch) ELSE {})

\* Between two batches, what it added is in its tab.
AddedAreMembers ==
  \A j \in ImJobs : OnTheWay(imJob[j]) /\ imJob[j].step # "members" /\ imJob[j].tab \in imTabs =>
    {imJob[j].tab} \X (imJob[j].added \cap ImIds(imRows)) \subseteq imMembers

\* Each sound was added by one import, and only that one puts it into a tab.
AddedAreItsOwn ==
  /\ \A j, k \in ImJobs : j # k => imJob[j].added \cap imJob[k].added = {}
  /\ \A j \in ImJobs : \A m \in imMembers : m[2] \in imJob[j].added => m[1] = imJob[j].tab

ZoneShows ==
  imZone = "importing" => \E j \in ImJobs : imJob[j].kind = "import" /\ imJob[j].window

\* What a command has read to write it again was the loudness of its file.
SeenLoudness ==
  \A j \in ImJobs : imJob[j].step = "write" =>
    imJob[j].seen.loud \in {ImNone, imJob[j].seen.path} \/ imJob[j].id \in imStale

ImportInv ==
  /\ ImportTypes /\ GivenArrives /\ AddedAreMembers /\ AddedAreItsOwn /\ ZoneShows
  /\ LoudnessIsOfItsFile /\ SeenLoudness

-----------------------------------------------------------------------------
(* What a step does to the library, and to the commands. *)

\* The library, the tabs and the disk as every step leaves them: what was reached
\* stays reached, and a sound that is still there is in the tabs it was in.
LibraryGoesOn ==
  /\ imRows' \in Seq(SoundRecs) /\ Len(imRows) <= Len(imRows')
  /\ imMembers' \subseteq ImTabs \X (1 .. Len(imRows'))
  /\ imTabs' \subseteq imTabs /\ imDisk' \subseteq imDisk
  /\ Reached \subseteq Reached' /\ imStale \subseteq imStale'
  /\ \A i \in 1 .. Len(imRows) : i \in ImIds(imRows)' =>
       i \in ImIds(imRows) /\ \A t \in imTabs' : <<t, i>> \in imMembers => <<t, i>> \in imMembers'
  /\ LoudnessIsOfItsFile'

\* A command as it has to be in the next state.
FitsNext(c) ==
  /\ JobShape(c, Len(imRows'))
  /\ OnTheWay(c) =>
       c.given \subseteq Reached' \cup (IF c.step \in {"look", "flush"} THEN ToSet(c.batch) ELSE {})
  /\ OnTheWay(c) /\ c.step # "members" /\ c.tab \in imTabs' =>
       {c.tab} \X (c.added \cap ImIds(imRows)') \subseteq imMembers'
  /\ c.step = "write" => c.seen.loud \in {ImNone, c.seen.path} \/ c.id \in imStale'

LEMMA JobFitsOn ==
  ASSUME ImportInv, LibraryGoesOn, NEW j \in ImJobs
  PROVE  FitsNext(imJob[j])
<1> DEFINE c == imJob[j]
<1>1. JobShape(c, Len(imRows)) /\ Len(imRows) \in Nat /\ Len(imRows') \in Nat /\ Len(imRows) <= Len(imRows')
  BY DEF ImportInv, ImportTypes, LibraryGoesOn
<1>2. 1 .. Len(imRows) \subseteq 1 .. Len(imRows')
  BY <1>1
<1>3. JobShape(c, Len(imRows'))
  BY <1>1, <1>2 DEF JobShape
<1>4. OnTheWay(c) =>
       c.given \subseteq Reached' \cup (IF c.step \in {"look", "flush"} THEN ToSet(c.batch) ELSE {})
  BY DEF ImportInv, GivenArrives, LibraryGoesOn
<1>5. ASSUME OnTheWay(c), c.step # "members", c.tab \in imTabs'
      PROVE  {c.tab} \X (c.added \cap ImIds(imRows)') \subseteq imMembers'
  <2>1. {c.tab} \X (c.added \cap ImIds(imRows)) \subseteq imMembers
    BY <1>5 DEF ImportInv, AddedAreMembers, LibraryGoesOn
  <2>2. ASSUME NEW i \in c.added \cap ImIds(imRows)' PROVE <<c.tab, i>> \in imMembers'
    <3>1. i \in 1 .. Len(imRows)
      BY <1>1 DEF JobShape
    <3>2. i \in ImIds(imRows) /\ (<<c.tab, i>> \in imMembers => <<c.tab, i>> \in imMembers')
      BY <1>5, <2>2, <3>1 DEF LibraryGoesOn
    <3> QED BY <2>1, <2>2, <3>2
  <2> QED BY <2>2
<1>6. c.step = "write" => c.seen.loud \in {ImNone, c.seen.path} \/ c.id \in imStale'
  BY DEF ImportInv, SeenLoudness, LibraryGoesOn
<1> QED BY <1>3, <1>4, <1>5, <1>6 DEF FitsNext

LEMMA AllFit ==
  ASSUME ImportInv, LibraryGoesOn, DOMAIN imJob' = ImJobs, \A j \in ImJobs : FitsNext(imJob'[j]),
         ZoneShows', AddedAreItsOwn'
  PROVE  ImportInv'
<1>1. ImportTypes'
  BY DEF ImportInv, ImportTypes, LibraryGoesOn, FitsNext
<1>2. GivenArrives'
  BY DEF GivenArrives, OnTheWay, FitsNext
<1>3. AddedAreMembers'
  BY DEF AddedAreMembers, OnTheWay, FitsNext
<1>4. SeenLoudness'
  BY DEF SeenLoudness, FitsNext
<1> QED BY <1>1, <1>2, <1>3, <1>4 DEF ImportInv, LibraryGoesOn

\* A step of the command j.
LEMMA OneJob ==
  ASSUME ImportInv, LibraryGoesOn, NEW j \in ImJobs, NEW new, imJob' = [imJob EXCEPT ![j] = new],
         FitsNext(new), ZoneShows', AddedAreItsOwn'
  PROVE  ImportInv'
<1>1. DOMAIN imJob = ImJobs
  BY DEF ImportInv, ImportTypes
<1>2. DOMAIN imJob' = ImJobs /\ imJob'[j] = new /\ \A k \in ImJobs \ {j} : imJob'[k] = imJob[k]
  BY <1>1
<1>3. \A k \in ImJobs : FitsNext(imJob[k])
  BY JobFitsOn
<1>4. ASSUME NEW k \in ImJobs PROVE FitsNext(imJob'[k])
  <2>1. CASE k = j
    BY <1>2, <2>1
  <2>2. CASE k # j
    BY <1>2, <1>3, <2>2
  <2> QED BY <2>1, <2>2
<1> QED BY <1>2, <1>4, AllFit

\* A step of somebody else.
LEMMA JobsGoOn ==
  ASSUME ImportInv, LibraryGoesOn, UNCHANGED imJob, ZoneShows', AddedAreItsOwn'
  PROVE  ImportInv'
<1>1. DOMAIN imJob' = ImJobs
  BY DEF ImportInv, ImportTypes
<1>2. \A k \in ImJobs : FitsNext(imJob[k])
  BY JobFitsOn
<1>3. \A k \in ImJobs : FitsNext(imJob'[k])
  BY <1>2
<1> QED BY <1>1, <1>3, AllFit

\* Nothing is added and nobody changes the tab.
LEMMA OwnStays ==
  ASSUME ImportInv, NEW j \in ImJobs, NEW new, imJob' = [imJob EXCEPT ![j] = new],
         new.added = {} \/ (new.added = imJob[j].added /\ new.tab = imJob[j].tab),
         imMembers' \subseteq imMembers
  PROVE  AddedAreItsOwn'
<1>1. DOMAIN imJob = ImJobs
  BY DEF ImportInv, ImportTypes
<1>2. imJob'[j] = new /\ \A k \in ImJobs \ {j} : imJob'[k] = imJob[k]
  BY <1>1
<1> QED BY <1>2 DEF ImportInv, AddedAreItsOwn

LEMMA OwnUnchanged ==
  ASSUME ImportInv, UNCHANGED imJob, imMembers' \subseteq imMembers
  PROVE  AddedAreItsOwn'
BY DEF ImportInv, AddedAreItsOwn

\* The command stays what it is.
LEMMA ZoneStays ==
  ASSUME ImportInv, NEW j \in ImJobs, NEW new, imJob' = [imJob EXCEPT ![j] = new],
         new.kind = imJob[j].kind, new.window = imJob[j].window, UNCHANGED imZone
  PROVE  ZoneShows'
<1>1. DOMAIN imJob = ImJobs
  BY DEF ImportInv, ImportTypes
<1>2. imJob'[j] = new /\ \A k \in ImJobs \ {j} : imJob'[k] = imJob[k]
  BY <1>1
<1>3. ASSUME imZone' = "importing" PROVE \E k \in ImJobs : imJob'[k].kind = "import" /\ imJob'[k].window
  <2>1. PICK k \in ImJobs : imJob[k].kind = "import" /\ imJob[k].window
    BY <1>3 DEF ImportInv, ZoneShows
  <2>2. CASE k = j
    BY <1>2, <2>1, <2>2
  <2>3. CASE k # j
    BY <1>2, <2>1, <2>3
  <2> QED BY <2>2, <2>3
<1> QED BY <1>3 DEF ZoneShows

\* The library does not change.
LEMMA LibraryStays ==
  ASSUME ImportInv, SameStore, imTabs' \subseteq imTabs, imDisk' \subseteq imDisk
  PROVE  LibraryGoesOn
<1>1. UNCHANGED <<imRows, imMembers, imLost, imStale>>
  BY DEF SameStore
<1>2. Reached' = Reached
  BY <1>1 DEF Reached
<1>3. ImIds(imRows)' = ImIds(imRows)
  BY <1>1
<1>4. LoudnessIsOfItsFile'
  BY <1>1, <1>3 DEF ImportInv, LoudnessIsOfItsFile
<1>5. Len(imRows) \in Nat
  BY DEF ImportInv, ImportTypes
<1> QED BY <1>1, <1>2, <1>3, <1>4, <1>5 DEF LibraryGoesOn, ImportInv, ImportTypes

\* Whatever the rows and members become, what goes out of the library is noted.
LEMMA StoreReaches ==
  ASSUME NEW rows, NEW members, Store(rows, members)
  PROVE  Reached \subseteq Reached' /\ LiveFiles(rows, members) \subseteq Reached'
BY DEF Store, Reached

-----------------------------------------------------------------------------
(* The window. *)

LEMMA LeastExists ==
  ASSUME NEW S \in SUBSET Nat, S # {}
  PROVE  \E m \in S : \A n \in S : m <= n
<1> DEFINE Below == {ss \in Nat \X Nat : ss[1] < ss[2]}
<1>1. IsWellFoundedOn(Below, Nat)
  BY NatLessThanWellFounded DEF OpToRel
<1>2. \A n, m \in Nat : n < m => <<n, m>> \in Below
  OBVIOUS
<1> HIDE DEF Below
<1>3. PICK m \in S : \A n \in S : ~(<<n, m>> \in Below)
  BY <1>1, WFMin
<1>4. \A n \in S : ~(n < m)
  BY <1>2, <1>3
<1> QED BY <1>4

\* An idle command carries nothing.
LEMMA IdleShape ==
  ASSUME ImportInv
  PROVE  /\ NoSound \in SoundRecs /\ ImIdle \in [JobFields -> {ImIdle[f] : f \in JobFields}]
         /\ JobShape(ImIdle, Len(imRows)) /\ ~OnTheWay(ImIdle) /\ ImIdle.step = "none"
         /\ ImIdle.added = {} /\ ImIdle.given = {} /\ ImIdle.batch = <<>> /\ ImIdle.kind = "none"
         /\ ImIdle.id = 0 /\ ImIdle.seen = NoSound /\ ImIdle.tab = ImNone /\ ImIdle.file = ImNone
<1>1. NoSound \in SoundRecs
  BY DEF NoSound, SoundRecs
<1> QED BY <1>1 DEF ImIdle, JobShape, JobFields, OnTheWay

\* A worker that is free gets the command.
LEMMA PostIs ==
  ASSUME ImportInv, NEW kind, NEW command, PostCommand(kind, command)
  PROVE  \E j \in ImJobs : /\ imJob[j] = ImIdle
                           /\ imJob' = [imJob EXCEPT ![j] = [command EXCEPT !.kind = kind, !.step = "start"]]
<1> DEFINE free == {j \in ImJobs : imJob[j] = ImIdle}
<1>1. free # {} /\ free \in SUBSET Nat
  BY ImportAssumption DEF PostCommand
<1>2. \E j \in free : \A l \in free : j <= l
  BY <1>1, LeastExists
<1> DEFINE j == CHOOSE k \in free : \A l \in free : k <= l
<1>3. j \in free
  BY <1>2
<1>4. imJob' = [imJob EXCEPT ![j] = [command EXCEPT !.kind = kind, !.step = "start"]]
  BY DEF PostCommand
<1> HIDE DEF j
<1> QED BY <1>3, <1>4

LEMMA PostKeeps ==
  ASSUME ImportInv, NEW kind \in {"import", "rename", "locate", "analyze", "remove"}, NEW command,
         PostCommand(kind, command), DOMAIN command = JobFields,
         command.given = {} /\ command.batch = <<>> /\ command.added = {},
         command.tab \in ImTabs \cup {ImNone} /\ command.file \in ImFiles \cup {ImNone},
         command.seen = NoSound,
         imZone' = imZone \/ imZone' # "importing" \/ (kind = "import" /\ command.window)
  PROVE  ImportInv'
<1> DEFINE new == [command EXCEPT !.kind = kind, !.step = "start"]
<1>1. PICK j \in ImJobs : imJob[j] = ImIdle /\ imJob' = [imJob EXCEPT ![j] = new]
  BY PostIs
<1>2. /\ DOMAIN new = JobFields /\ new.kind = kind /\ new.step = "start" /\ new.batch = <<>>
      /\ new.given = {} /\ new.added = {} /\ new.tab \in ImTabs \cup {ImNone}
      /\ new.file \in ImFiles \cup {ImNone} /\ new.seen = NoSound /\ new.window = command.window
  BY DEF JobFields
<1> HIDE DEF new
<1>3. LibraryGoesOn
  BY LibraryStays DEF PostCommand
<1>4. NoSound \in SoundRecs
  BY DEF NoSound, SoundRecs
<1>5. FitsNext(new)
  BY <1>2, <1>4 DEF FitsNext, JobShape, OnTheWay
<1>6. imMembers' \subseteq imMembers
  BY DEF PostCommand, SameStore
<1>7. AddedAreItsOwn'
  BY <1>1, <1>2, <1>6, OwnStays
<1>8. ZoneShows'
  <2>1. DOMAIN imJob = ImJobs
    BY DEF ImportInv, ImportTypes
  <2>2. imJob'[j] = new /\ \A k \in ImJobs \ {j} : imJob'[k] = imJob[k]
    BY <1>1, <2>1
  <2>3. imJob[j].kind # "import"
    BY <1>1, IdleShape
  <2>4. CASE imZone' = imZone
    BY <2>2, <2>3, <2>4 DEF ImportInv, ZoneShows
  <2>5. CASE imZone' # "importing"
    BY <2>5 DEF ZoneShows
  <2>6. CASE kind = "import" /\ command.window
    BY <1>2, <2>2, <2>6 DEF ZoneShows
  <2> QED BY <2>4, <2>5, <2>6
<1> QED BY <1>1, <1>3, <1>5, <1>7, <1>8, OneJob

LEMMA CommandKeeps ==
  ASSUME ImportInv,
         \/ \E paths \in ImDrops, tab \in imTabs \cup {ImNone}, window \in BOOLEAN : DropFiles(paths, tab, window)
         \/ \E i \in ImIds(imRows) : RenameSound(i) \/ AnalyzeSound(i)
         \/ \E ids : RemoveSounds(ids)
         \/ \E i \in ImIds(imRows), f \in ImFiles : LocateSound(i, f)
  PROVE  ImportInv'
<1>1. DOMAIN ImIdle = JobFields
  BY DEF ImIdle, JobFields
<1>2. ASSUME NEW paths \in ImDrops, NEW tab \in imTabs \cup {ImNone}, NEW window \in BOOLEAN,
             DropFiles(paths, tab, window)
      PROVE  ImportInv'
  <2> DEFINE c == [ImIdle EXCEPT !.todo = paths, !.tab = tab, !.window = window]
  <2>1. PostCommand("import", c) /\ (imZone' = imZone \/ window)
    BY <1>2 DEF DropFiles
  <2>2. /\ DOMAIN c = JobFields /\ c.given = {} /\ c.batch = <<>> /\ c.added = {} /\ c.tab = tab
        /\ c.file = ImNone /\ c.seen = NoSound /\ c.window = window
    BY <1>1, IdleShape DEF JobFields
  <2>3. tab \in ImTabs \cup {ImNone}
    BY DEF ImportInv, ImportTypes
  <2> HIDE DEF c
  <2> QED BY <2>1, <2>2, <2>3, PostKeeps
<1>3. ASSUME NEW i, RenameSound(i) \/ AnalyzeSound(i) PROVE ImportInv'
  <2> DEFINE c == [ImIdle EXCEPT !.id = i]
  <2>1. UNCHANGED imZone /\ \E kind \in {"rename", "analyze"} : PostCommand(kind, c)
    BY <1>3 DEF RenameSound, AnalyzeSound, uiVars
  <2>2. /\ DOMAIN c = JobFields /\ c.given = {} /\ c.batch = <<>> /\ c.added = {} /\ c.tab = ImNone
        /\ c.file = ImNone /\ c.seen = NoSound
    BY <1>1, IdleShape DEF JobFields
  <2> HIDE DEF c
  <2> QED BY <2>1, <2>2, PostKeeps
<1>4. ASSUME NEW ids, RemoveSounds(ids) PROVE ImportInv'
  <2> DEFINE c == [ImIdle EXCEPT !.todo = ids]
  <2>1. UNCHANGED imZone /\ \E kind \in {"remove"} : PostCommand(kind, c)
    BY <1>4 DEF RemoveSounds
  <2>2. /\ DOMAIN c = JobFields /\ c.given = {} /\ c.batch = <<>> /\ c.added = {} /\ c.tab = ImNone
        /\ c.file = ImNone /\ c.seen = NoSound
    BY <1>1, IdleShape DEF JobFields
  <2> HIDE DEF c
  <2> QED BY <2>1, <2>2, PostKeeps
<1>5. ASSUME NEW i, NEW f \in ImFiles, LocateSound(i, f) PROVE ImportInv'
  <2> DEFINE c == [ImIdle EXCEPT !.id = i, !.file = f]
  <2>1. UNCHANGED imZone /\ \E kind \in {"locate"} : PostCommand(kind, c)
    BY <1>5 DEF LocateSound, uiVars
  <2>2. /\ DOMAIN c = JobFields /\ c.given = {} /\ c.batch = <<>> /\ c.added = {} /\ c.tab = ImNone
        /\ c.file = f /\ c.seen = NoSound
    BY <1>1, IdleShape DEF JobFields
  <2> HIDE DEF c
  <2> QED BY <2>1, <2>2, PostKeeps
<1> QED BY <1>2, <1>3, <1>4, <1>5

LEMMA WindowKeeps ==
  ASSUME ImportInv, DragEnters \/ DragLeaves \/ RejectDrop \/ HideZone
  PROVE  ImportInv'
<1>1. /\ UNCHANGED <<imTabs, imDisk, imJob>> /\ SameStore
      /\ imZone' = imZone \/ imZone' # "importing"
  BY DEF DragEnters, DragLeaves, RejectDrop, HideZone
<1>2. LibraryGoesOn
  BY <1>1, LibraryStays
<1>3. AddedAreItsOwn'
  BY <1>1, OwnUnchanged DEF SameStore
<1>4. ZoneShows'
  BY <1>1 DEF ImportInv, ZoneShows
<1> QED BY <1>1, <1>2, <1>3, <1>4, JobsGoOn

\* The end of an import hides the drop zone, of another one's window too.
LEMMA AnswerKeeps ==
  ASSUME ImportInv, NEW j \in ImJobs, TakeCommandAnswer(j)
  PROVE  ImportInv'
<1>1. /\ imJob' = [imJob EXCEPT ![j] = ImIdle] /\ UNCHANGED <<imTabs, imDisk>> /\ SameStore
      /\ imZone' = IF imJob[j].kind = "import" /\ imJob[j].window THEN "hidden" ELSE imZone
  BY DEF TakeCommandAnswer
<1>2. LibraryGoesOn
  BY <1>1, LibraryStays
<1>3. FitsNext(ImIdle)
  <2>1. Len(imRows') = Len(imRows)
    BY <1>1 DEF SameStore
  <2> QED BY <2>1, IdleShape DEF FitsNext
<1>4. AddedAreItsOwn'
  BY <1>1, IdleShape, OwnStays DEF SameStore
<1>5. ZoneShows'
  <2>1. DOMAIN imJob = ImJobs
    BY DEF ImportInv, ImportTypes
  <2>2. \A k \in ImJobs \ {j} : imJob'[k] = imJob[k]
    BY <1>1, <2>1
  <2> QED BY <1>1, <2>2 DEF ImportInv, ZoneShows
<1> QED BY <1>1, <1>2, <1>3, <1>4, <1>5, OneJob

-----------------------------------------------------------------------------
(* The steps of a command. *)

\* What a step of the command j leaves as it is: all but what "new" has, and the
\* library goes on.
LEMMA JobKeeps ==
  ASSUME ImportInv, LibraryGoesOn, NEW j \in ImJobs, NEW new, OnJob(j, new), FitsNext(new),
         new.kind = imJob[j].kind, new.window = imJob[j].window, new.tab = imJob[j].tab,
         new.added = imJob[j].added, imMembers' \subseteq imMembers
  PROVE  ImportInv'
<1>1. imJob' = [imJob EXCEPT ![j] = new] /\ UNCHANGED imZone
  BY DEF OnJob, uiVars
<1>2. ZoneShows'
  BY <1>1, ZoneStays
<1>3. AddedAreItsOwn'
  BY <1>1, OwnStays
<1> QED BY <1>1, <1>2, <1>3, OneJob

LEMMA QuietJob ==
  ASSUME ImportInv, SameStore, NEW j \in ImJobs, NEW new, OnJob(j, new), JobShape(new, Len(imRows)),
         new.kind = imJob[j].kind, new.window = imJob[j].window, new.tab = imJob[j].tab,
         new.added = imJob[j].added,
         OnTheWay(new) =>
           /\ new.given \subseteq
                Reached \cup (IF new.step \in {"look", "flush"} THEN ToSet(new.batch) ELSE {})
           /\ new.step # "members" /\ new.tab \in imTabs =>
                {new.tab} \X (new.added \cap ImIds(imRows)) \subseteq imMembers,
         new.step = "write" => new.seen.loud \in {ImNone, new.seen.path} \/ new.id \in imStale
  PROVE  ImportInv'
<1>1. UNCHANGED <<imRows, imMembers, imLost, imStale, imTabs, imDisk>>
  BY DEF SameStore, OnJob
<1>2. LibraryGoesOn
  BY <1>1, LibraryStays
<1>3. Reached' = Reached /\ ImIds(imRows)' = ImIds(imRows) /\ Len(imRows') = Len(imRows)
  BY <1>1 DEF Reached
<1>4. FitsNext(new)
  BY <1>1, <1>3 DEF FitsNext
<1> QED BY <1>1, <1>2, <1>4, JobKeeps

\* An answer carries nothing further.
LEMMA AnsweredIs ==
  ASSUME NEW c, NEW ok \in BOOLEAN, NEW len, JobShape(c, len)
  PROVE  /\ JobShape(AnsweredWith(c, ok), len)
         /\ AnsweredWith(c, ok).step = "answer" /\ (AnsweredWith(c, ok).ok <=> ok)
         /\ \A f \in JobFields \ {"step", "ok"} : AnsweredWith(c, ok)[f] = c[f]
BY DEF AnsweredWith, JobShape, JobFields

LEMMA FailedKeeps ==
  ASSUME ImportInv, SameStore, NEW j \in ImJobs, NEW ok \in BOOLEAN, OnJob(j, AnsweredWith(imJob[j], ok)),
         imJob[j].kind = "import" => ~ok
  PROVE  ImportInv'
<1> DEFINE new == AnsweredWith(imJob[j], ok)
<1>1. JobShape(imJob[j], Len(imRows))
  BY DEF ImportInv, ImportTypes
<1>2. /\ JobShape(new, Len(imRows)) /\ new.step = "answer" /\ (new.ok <=> ok)
      /\ \A f \in JobFields \ {"step", "ok"} : new[f] = imJob[j][f]
  BY <1>1, AnsweredIs
<1>3. OnJob(j, new)
  OBVIOUS
<1> HIDE DEF new
<1>4. new.kind = imJob[j].kind /\ new.window = imJob[j].window /\ new.tab = imJob[j].tab /\ new.added = imJob[j].added
  BY <1>2 DEF JobFields
<1>5. ~OnTheWay(new)
  BY <1>2, <1>4 DEF OnTheWay
<1> QED BY <1>2, <1>3, <1>4, <1>5, QuietJob

LEMMA JobFailsKeeps == ASSUME ImportInv, NEW j \in ImJobs, JobFails(j) PROVE ImportInv'
BY FailedKeeps DEF JobFails

LEMMA BeginImportKeeps == ASSUME ImportInv, NEW j \in ImJobs, BeginImport(j) PROVE ImportInv'
<1> DEFINE c == imJob[j]
           new == [c EXCEPT !.step = "look"]
<1>1. c.kind = "import" /\ c.step = "start" /\ OnJob(j, new) /\ SameStore
  BY DEF BeginImport, AtStep
<1>2. JobShape(c, Len(imRows))
  BY DEF ImportInv, ImportTypes
<1>3. new.step = "look" /\ DOMAIN new = JobFields /\ \A f \in JobFields \ {"step"} : new[f] = c[f]
  BY <1>2 DEF JobShape, JobFields
<1> HIDE DEF new
<1>4. /\ JobShape(new, Len(imRows)) /\ new.given = {} /\ new.added = {}
      /\ new.kind = c.kind /\ new.window = c.window /\ new.tab = c.tab /\ new.added = c.added
  BY <1>1, <1>2, <1>3 DEF JobShape, JobFields
<1> QED BY <1>1, <1>3, <1>4, QuietJob

\* A file that is not looked up again is in the library, was given before, or is
\* none; all others come into the batch.
LEMMA LookUpKeeps == ASSUME ImportInv, NEW j \in ImJobs, LookUpFile(j) PROVE ImportInv'
<1> DEFINE c == imJob[j]
           f == Head(c.todo)
           known == f \notin imDisk \/ f \in c.given \/ f \in LiveFiles(imRows, imMembers)
           batch == IF known THEN c.batch ELSE Append(c.batch, f)
           given == c.given \cup ({f} \cap imDisk)
           new == [c EXCEPT !.todo = Tail(@), !.batch = batch, !.given = @ \cup ({f} \cap imDisk),
                            !.step = IF Len(batch) >= ImBatch THEN "flush" ELSE "look"]
<1>1. c.kind = "import" /\ c.step = "look" /\ OnJob(j, new) /\ SameStore
  BY DEF LookUpFile, AtStep
<1>2. JobShape(c, Len(imRows)) /\ imDisk \subseteq ImFiles
  BY DEF ImportInv, ImportTypes
<1>3. /\ new.step \in {"look", "flush"} /\ DOMAIN new = JobFields /\ new.batch = batch /\ new.given = given
      /\ \A g \in JobFields \ {"step", "todo", "batch", "given"} : new[g] = c[g]
  <2> HIDE DEF batch, f
  <2> QED BY <1>2 DEF JobShape, JobFields
<1>4. /\ batch \in Seq(ImFiles) /\ given \subseteq ImFiles
      /\ ToSet(c.batch) \subseteq ToSet(batch)
      /\ f \in imDisk => f \in c.given \/ f \in LiveFiles(imRows, imMembers) \/ f \in ToSet(batch)
  <2> HIDE DEF f
  <2>1. c.batch \in Seq(ImFiles) /\ c.given \subseteq ImFiles
    BY <1>2 DEF JobShape
  <2>2. CASE known
    BY <1>2, <2>1, <2>2
  <2>3. CASE ~known
    <3>1. f \in ImFiles /\ batch = Append(c.batch, f)
      BY <1>2, <2>3
    <3>2. batch \in Seq(ImFiles)
      BY <2>1, <3>1
    <3>3. ToSet(batch) = ToSet(c.batch) \cup {f}
      <4>1. /\ Len(batch) = Len(c.batch) + 1 /\ batch[Len(batch)] = f
            /\ \A i \in 1 .. Len(c.batch) : batch[i] = c.batch[i]
        BY <2>1, <3>1
      <4>2. DOMAIN batch = 1 .. Len(batch) /\ DOMAIN c.batch = 1 .. Len(c.batch) /\ Len(c.batch) \in Nat
        BY <2>1, <3>2
      <4> HIDE DEF batch
      <4>3. DOMAIN batch = DOMAIN c.batch \cup {Len(batch)}
        BY <4>1, <4>2
      <4>4. \A i \in DOMAIN c.batch : i \in DOMAIN batch /\ batch[i] = c.batch[i]
        BY <4>1, <4>2, <4>3
      <4>5. Len(batch) \in DOMAIN batch
        BY <4>3
      <4>6. ToSet(c.batch) \cup {f} \subseteq ToSet(batch)
        BY <4>1, <4>4, <4>5 DEF ToSet
      <4>7. ASSUME NEW i \in DOMAIN batch PROVE batch[i] \in ToSet(c.batch) \cup {f}
        <5>1. CASE i \in DOMAIN c.batch
          BY <4>4, <5>1 DEF ToSet
        <5>2. CASE i = Len(batch)
          BY <4>1, <5>2
        <5> QED BY <4>3, <5>1, <5>2
      <4>8. ToSet(batch) \subseteq ToSet(c.batch) \cup {f}
        BY <4>7 DEF ToSet
      <4> QED BY <4>6, <4>8
    <3> QED BY <1>2, <2>1, <3>1, <3>2, <3>3
  <2> QED BY <2>2, <2>3
<1> HIDE DEF new, batch, given, f
<1>5. /\ JobShape(new, Len(imRows))
      /\ new.kind = c.kind /\ new.window = c.window /\ new.tab = c.tab /\ new.added = c.added
  BY <1>2, <1>3, <1>4 DEF JobShape, JobFields
<1>6. c.given \subseteq Reached \cup ToSet(c.batch)
  BY <1>1 DEF ImportInv, GivenArrives, OnTheWay
<1>7. given \subseteq Reached \cup ToSet(batch)
  BY <1>4, <1>6 DEF Reached, given
<1>8. c.tab \in imTabs => {c.tab} \X (c.added \cap ImIds(imRows)) \subseteq imMembers
  BY <1>1 DEF ImportInv, AddedAreMembers, OnTheWay
<1> QED BY <1>1, <1>3, <1>5, <1>7, <1>8, QuietJob

LEMMA LookedUpKeeps == ASSUME ImportInv, NEW j \in ImJobs, LookedUpAll(j) PROVE ImportInv'
<1> DEFINE c == imJob[j]
<1>1. c.kind = "import" /\ c.step = "look" /\ SameStore
  BY DEF LookedUpAll, AtStep
<1>2. JobShape(c, Len(imRows))
  BY DEF ImportInv, ImportTypes
<1>3. c.given \subseteq Reached \cup ToSet(c.batch)
  BY <1>1 DEF ImportInv, GivenArrives, OnTheWay
<1>4. c.tab \in imTabs => {c.tab} \X (c.added \cap ImIds(imRows)) \subseteq imMembers
  BY <1>1 DEF ImportInv, AddedAreMembers, OnTheWay
<1>5. CASE c.batch = <<>>
  <2> DEFINE new == AnsweredWith(c, TRUE)
  <2>1. OnJob(j, new)
    BY <1>5 DEF LookedUpAll
  <2>2. /\ JobShape(new, Len(imRows)) /\ new.step = "answer"
        /\ \A f \in JobFields \ {"step", "ok"} : new[f] = c[f]
    BY <1>2, AnsweredIs
  <2> HIDE DEF new
  <2>3. /\ new.kind = c.kind /\ new.window = c.window /\ new.tab = c.tab /\ new.added = c.added
        /\ new.given = c.given
    BY <2>2 DEF JobFields
  <2>4. c.given \subseteq Reached
    BY <1>3, <1>5 DEF ToSet
  <2> QED BY <1>1, <1>4, <2>1, <2>2, <2>3, <2>4, QuietJob
<1>6. CASE c.batch # <<>>
  <2> DEFINE new == [c EXCEPT !.step = "flush"]
  <2>1. OnJob(j, new)
    BY <1>6 DEF LookedUpAll
  <2>2. new.step = "flush" /\ DOMAIN new = JobFields /\ \A f \in JobFields \ {"step"} : new[f] = c[f]
    BY <1>2 DEF JobShape, JobFields
  <2> HIDE DEF new
  <2>3. /\ JobShape(new, Len(imRows)) /\ new.kind = c.kind /\ new.window = c.window
        /\ new.tab = c.tab /\ new.added = c.added /\ new.given = c.given /\ new.batch = c.batch
    BY <1>2, <2>2 DEF JobShape, JobFields
  <2> QED BY <1>1, <1>3, <1>4, <2>1, <2>2, <2>3, QuietJob
<1> QED BY <1>5, <1>6

-----------------------------------------------------------------------------
(* The steps that write the library. *)

LEMMA StoreGoesOn ==
  ASSUME ImportInv, NEW rows \in Seq(SoundRecs), NEW members \in SUBSET (ImTabs \X (1 .. Len(rows))),
         Store(rows, members), Len(imRows) <= Len(rows),
         imTabs' \subseteq imTabs, imDisk' \subseteq imDisk, imStale \subseteq imStale',
         \A i \in 1 .. Len(imRows) : rows[i] # NoSound =>
           imRows[i] # NoSound /\ \A t \in imTabs' : <<t, i>> \in imMembers => <<t, i>> \in members,
         \A i \in 1 .. Len(rows) : rows[i] # NoSound =>
           rows[i].loud \in {ImNone, rows[i].path} \/ i \in imStale'
  PROVE  LibraryGoesOn
<1>1. imRows' = rows /\ imMembers' = members
  BY DEF Store
<1>2. Reached \subseteq Reached'
  BY StoreReaches
<1>3. DOMAIN imRows = 1 .. Len(imRows) /\ DOMAIN rows = 1 .. Len(rows)
  BY DEF ImportInv, ImportTypes
<1>4. \A i \in 1 .. Len(imRows) : i \in ImIds(imRows)' =>
        i \in ImIds(imRows) /\ \A t \in imTabs' : <<t, i>> \in imMembers => <<t, i>> \in imMembers'
  BY <1>1, <1>3 DEF ImIds
<1>5. LoudnessIsOfItsFile'
  BY <1>1, <1>3 DEF LoudnessIsOfItsFile, ImIds
<1> QED BY <1>1, <1>2, <1>4, <1>5 DEF LibraryGoesOn

\* The loudness of a row that the step leaves alone.
LEMMA LoudNow ==
  ASSUME ImportInv, imStale \subseteq imStale'
  PROVE  \A i \in 1 .. Len(imRows) : imRows[i] # NoSound =>
           imRows[i].loud \in {ImNone, imRows[i].path} \/ i \in imStale'
<1>1. DOMAIN imRows = 1 .. Len(imRows)
  BY DEF ImportInv, ImportTypes
<1> QED BY <1>1 DEF ImportInv, LoudnessIsOfItsFile, ImIds

\* One row that was there is replaced by another, or goes.
LEMMA RowGoesOn ==
  ASSUME ImportInv, NEW id \in 1 .. Len(imRows), NEW row \in SoundRecs,
         Store([imRows EXCEPT ![id] = row], imMembers), row # NoSound => imRows[id] # NoSound,
         UNCHANGED <<imTabs, imDisk>>, imStale \subseteq imStale',
         row.loud \in {ImNone, row.path} \/ id \in imStale'
  PROVE  LibraryGoesOn
<1> DEFINE rows == [imRows EXCEPT ![id] = row]
<1>1. imRows \in Seq(SoundRecs) /\ imMembers \subseteq ImTabs \X (1 .. Len(imRows))
  BY DEF ImportInv, ImportTypes
<1>2. rows \in Seq(SoundRecs) /\ Len(rows) = Len(imRows) /\ Len(imRows) \in Nat
  BY <1>1
<1>3. rows[id] = row /\ \A i \in 1 .. Len(imRows) : i # id => rows[i] = imRows[i]
  BY <1>1
<1>4. Store(rows, imMembers)
  OBVIOUS
<1> HIDE DEF rows
<1>5. \A i \in 1 .. Len(rows) : rows[i] # NoSound =>
        rows[i].loud \in {ImNone, rows[i].path} \/ i \in imStale'
  BY <1>2, <1>3, LoudNow
<1> QED BY <1>1, <1>2, <1>3, <1>4, <1>5, StoreGoesOn

\* A command that ends with an answer, after a step that wrote.
LEMMA AnswerFits ==
  ASSUME ImportInv, LibraryGoesOn, NEW j \in ImJobs, NEW ok \in BOOLEAN,
         OnJob(j, AnsweredWith(imJob[j], ok)), imJob[j].kind # "import",
         imMembers' \subseteq imMembers
  PROVE  ImportInv'
<1> DEFINE new == AnsweredWith(imJob[j], ok)
<1>1. JobShape(imJob[j], Len(imRows'))
  BY JobFitsOn DEF FitsNext
<1>2. /\ JobShape(new, Len(imRows')) /\ new.step = "answer"
      /\ \A f \in JobFields \ {"step", "ok"} : new[f] = imJob[j][f]
  BY <1>1, AnsweredIs
<1>3. OnJob(j, new)
  OBVIOUS
<1> HIDE DEF new
<1>4. new.kind = imJob[j].kind /\ new.window = imJob[j].window /\ new.tab = imJob[j].tab /\ new.added = imJob[j].added
  BY <1>2 DEF JobFields
<1>5. FitsNext(new)
  BY <1>2, <1>4 DEF FitsNext, OnTheWay
<1> QED BY <1>3, <1>4, <1>5, JobKeeps

LEMMA ReadKeeps == ASSUME ImportInv, NEW j \in ImJobs, ReadSound(j) PROVE ImportInv'
<1> DEFINE c == imJob[j]
           new == [c EXCEPT !.step = "write", !.seen = imRows[c.id]]
<1>1. c.kind \in {"rename", "locate", "analyze"} /\ SameStore
  BY DEF ReadSound
<1>2. JobShape(c, Len(imRows)) /\ imRows \in Seq(SoundRecs)
  BY DEF ImportInv, ImportTypes
<1>3. \/ OnJob(j, AnsweredWith(c, FALSE))
      \/ OnJob(j, new) /\ c.id \in DOMAIN imRows /\ InLibrary(imRows, imMembers, c.id)
  BY DEF ReadSound
<1>4. CASE OnJob(j, AnsweredWith(c, FALSE))
  BY <1>1, <1>4, FailedKeeps
<1>5. ASSUME OnJob(j, new), c.id \in DOMAIN imRows, InLibrary(imRows, imMembers, c.id)
      PROVE  ImportInv'
  <2>1. /\ new.step = "write" /\ new.seen = imRows[c.id] /\ DOMAIN new = JobFields
        /\ \A f \in JobFields \ {"step", "seen"} : new[f] = c[f]
    BY <1>2 DEF JobShape, JobFields
  <2>2. c.id \in 1 .. Len(imRows) /\ imRows[c.id] \in SoundRecs /\ imRows[c.id] # NoSound
    BY <1>2, <1>5 DEF InLibrary
  <2>3. imRows[c.id].loud \in {ImNone, imRows[c.id].path} \/ c.id \in imStale
    BY <1>5, <2>2 DEF ImportInv, LoudnessIsOfItsFile, ImIds
  <2> HIDE DEF new
  <2>4. /\ JobShape(new, Len(imRows)) /\ new.kind = c.kind /\ new.window = c.window
        /\ new.tab = c.tab /\ new.added = c.added /\ new.id = c.id /\ ~OnTheWay(new)
    BY <1>1, <1>2, <2>1, <2>2 DEF JobShape, JobFields, OnTheWay
  <2> QED BY <1>1, <1>5, <2>1, <2>3, <2>4, QuietJob
<1> QED BY <1>3, <1>4, <1>5

\* update_sound writes the columns as they were read. If the sound has another
\* file by now, that is noted; else the loudness that was read is this file's.
LEMMA UpdateKeeps == ASSUME ImportInv, NEW j \in ImJobs, UpdateSound(j) PROVE ImportInv'
<1> DEFINE c == imJob[j]
           to == WrittenRow(c)
           another == \E i \in ImIds(imRows) \ {c.id} : imRows[i].path = to.path
<1>1. c.kind \in {"rename", "locate"} /\ c.step = "write" /\ UNCHANGED <<imTabs, imDisk>>
  BY DEF UpdateSound, OnJob
<1>2. JobShape(c, Len(imRows)) /\ imRows \in Seq(SoundRecs)
  BY DEF ImportInv, ImportTypes
<1>3. c.id \in 1 .. Len(imRows) /\ c.seen \in SoundRecs /\ imRows[c.id] \in SoundRecs
      /\ c.file \in ImFiles \cup {ImNone}
  BY <1>1, <1>2 DEF JobShape
<1>4. CASE imRows[c.id] = NoSound \/ another
  <2>1. (~another \/ imRows[c.id] = NoSound) \in BOOLEAN
    OBVIOUS
  <2>2. OnJob(j, AnsweredWith(c, ~another \/ imRows[c.id] = NoSound)) /\ SameStore
    BY <1>4 DEF UpdateSound
  <2> HIDE DEF another
  <2> QED BY <1>1, <2>1, <2>2, FailedKeeps
<1>5. CASE ~(imRows[c.id] = NoSound \/ another)
  <2>1. /\ Store([imRows EXCEPT ![c.id] = to], imMembers)
        /\ imStale' = IF imRows[c.id].path # c.seen.path THEN imStale \cup {c.id} ELSE imStale
        /\ OnJob(j, AnsweredWith(c, TRUE))
    BY <1>5 DEF UpdateSound
  <2>2. \/ /\ c.kind = "rename"
           /\ to = [imRows[c.id] EXCEPT !.path = c.seen.path, !.name = "chosen", !.loud = c.seen.loud]
        \/ /\ c.kind = "locate"
           /\ to = [imRows[c.id] EXCEPT !.path = c.file, !.name = c.seen.name, !.loud = ImNone]
    <3>1. /\ Renamed(c.seen).path = c.seen.path /\ Renamed(c.seen).name = "chosen"
          /\ Renamed(c.seen).loud = c.seen.loud
      BY <1>3 DEF Renamed, SoundRecs
    <3>2. /\ Located(c.seen, c.file).path = c.file /\ Located(c.seen, c.file).name = c.seen.name
          /\ Located(c.seen, c.file).loud = ImNone
      BY <1>3 DEF Located, SoundRecs
    <3>3. CASE c.kind = "rename"
      BY <3>1, <3>3 DEF WrittenRow
    <3>4. CASE c.kind = "locate"
      BY <3>2, <3>4 DEF WrittenRow
    <3> QED BY <1>1, <3>3, <3>4
  <2> HIDE DEF to
  <2>3. to \in SoundRecs /\ (to.loud = ImNone \/ (to.path = c.seen.path /\ to.loud = c.seen.loud))
    BY <1>3, <2>2 DEF SoundRecs
  <2>4. c.seen.loud \in {ImNone, c.seen.path} \/ c.id \in imStale
    BY <1>1 DEF ImportInv, SeenLoudness
  <2>5. imStale \subseteq imStale' /\ (to.loud \in {ImNone, to.path} \/ c.id \in imStale')
    BY <2>1, <2>3, <2>4
  <2>6. LibraryGoesOn
    BY <1>1, <1>3, <1>5, <2>1, <2>3, <2>5, RowGoesOn
  <2>7. imMembers' \subseteq imMembers
    BY <2>1 DEF Store
  <2> QED BY <1>1, <2>1, <2>6, <2>7, AnswerFits
<1> QED BY <1>4, <1>5

LEMMA WriteLoudnessKeeps == ASSUME ImportInv, NEW j \in ImJobs, WriteLoudness(j) PROVE ImportInv'
<1> DEFINE c == imJob[j]
<1>1. /\ c.kind = "analyze" /\ c.step = "write" /\ UNCHANGED <<imTabs, imDisk>>
      /\ OnJob(j, AnsweredWith(c, TRUE))
  BY DEF WriteLoudness, OnJob, AtStep
<1>2. JobShape(c, Len(imRows)) /\ imRows \in Seq(SoundRecs) /\ imMembers \subseteq ImTabs \X (1 .. Len(imRows))
  BY DEF ImportInv, ImportTypes
<1>3. c.id \in 1 .. Len(imRows) /\ c.seen \in SoundRecs /\ imRows[c.id] \in SoundRecs
  BY <1>1, <1>2 DEF JobShape
<1>4. PICK loud \in {c.seen.path, ImNone} :
        Store(IF imRows[c.id] = NoSound THEN imRows ELSE [imRows EXCEPT ![c.id].loud = loud], imMembers)
  BY DEF WriteLoudness
<1>5. imStale' = IF imRows[c.id] # NoSound /\ imRows[c.id].path # c.seen.path
                 THEN imStale \cup {c.id} ELSE imStale
  BY DEF WriteLoudness
<1>6. LibraryGoesOn
  <2>1. CASE imRows[c.id] = NoSound
    <3>1. Store(imRows, imMembers) /\ imStale' = imStale /\ Len(imRows) <= Len(imRows)
      BY <1>2, <1>4, <1>5, <2>1
    <3> QED BY <1>1, <1>2, <3>1, StoreGoesOn, LoudNow
  <2>2. CASE imRows[c.id] # NoSound
    <3> DEFINE row == [imRows[c.id] EXCEPT !.loud = loud]
    <3>1. Store([imRows EXCEPT ![c.id] = row], imMembers)
      BY <1>4, <2>2
    <3>2. row \in SoundRecs /\ row.loud = loud /\ row.path = imRows[c.id].path
      BY <1>3 DEF SoundRecs
    <3> HIDE DEF row
    <3>3. imStale \subseteq imStale' /\ (row.loud \in {ImNone, row.path} \/ c.id \in imStale')
      BY <1>5, <2>2, <3>2
    <3> QED BY <1>1, <1>3, <2>2, <3>1, <3>2, <3>3, RowGoesOn
  <2> QED BY <2>1, <2>2
<1>7. imMembers' \subseteq imMembers
  BY <1>4 DEF Store
<1> QED BY <1>1, <1>6, <1>7, AnswerFits

LEMMA DeleteKeeps == ASSUME ImportInv, NEW j \in ImJobs, DeleteSound(j) PROVE ImportInv'
<1> DEFINE c == imJob[j]
           i == Head(c.todo)
           rows == [imRows EXCEPT ![i] = NoSound]
           members == {m \in imMembers : m[2] # i}
           new == [c EXCEPT !.todo = Tail(@)]
<1>1. /\ c.kind = "remove" /\ c.step = "start" /\ UNCHANGED <<imTabs, imDisk, imStale>>
      /\ Store(rows, members) /\ OnJob(j, new)
  BY DEF DeleteSound, OnJob, AtStep
<1>2. /\ JobShape(c, Len(imRows)) /\ imRows \in Seq(SoundRecs)
      /\ imMembers \subseteq ImTabs \X (1 .. Len(imRows)) /\ NoSound \in SoundRecs
  BY IdleShape DEF ImportInv, ImportTypes
<1>3. new.step = "start" /\ DOMAIN new = JobFields /\ \A f \in JobFields \ {"todo"} : new[f] = c[f]
  BY <1>1, <1>2 DEF JobShape, JobFields
<1> HIDE DEF new, i
<1>4. /\ rows \in Seq(SoundRecs) /\ Len(rows) = Len(imRows) /\ Len(imRows) \in Nat
      /\ \A k \in 1 .. Len(imRows) : rows[k] = IF k = i THEN NoSound ELSE imRows[k]
  <2>1. /\ DOMAIN rows = 1 .. Len(imRows) /\ Len(imRows) \in Nat
        /\ rows = [k \in 1 .. Len(imRows) |-> rows[k]]
    BY <1>2
  <2>2. \A k \in 1 .. Len(imRows) : rows[k] = IF k = i THEN NoSound ELSE imRows[k]
    BY <1>2
  <2>3. \A k \in 1 .. Len(imRows) : rows[k] \in SoundRecs
    BY <1>2, <2>2
  <2> HIDE DEF rows
  <2>4. rows \in [1 .. Len(imRows) -> SoundRecs]
    BY <2>1, <2>3
  <2> QED BY <2>1, <2>2, <2>4
<1> HIDE DEF rows
<1>5. members \in SUBSET (ImTabs \X (1 .. Len(rows)))
  BY <1>2, <1>4
<1>6. ASSUME NEW k \in 1 .. Len(imRows), rows[k] # NoSound
      PROVE  /\ imRows[k] # NoSound /\ rows[k] = imRows[k]
             /\ \A t \in imTabs' : <<t, k>> \in imMembers => <<t, k>> \in members
  BY <1>4, <1>6
<1>7. \A k \in 1 .. Len(rows) : rows[k] # NoSound =>
        rows[k].loud \in {ImNone, rows[k].path} \/ k \in imStale'
  BY <1>1, <1>4, LoudNow
<1>8. members \subseteq imMembers
  OBVIOUS
<1> HIDE DEF members
<1>9. LibraryGoesOn
  BY <1>1, <1>4, <1>5, <1>6, <1>7, StoreGoesOn
<1>10. imMembers' \subseteq imMembers
  BY <1>1, <1>8 DEF Store
<1>11. /\ new.kind = c.kind /\ new.window = c.window /\ new.tab = c.tab /\ new.added = c.added
       /\ FitsNext(new)
  <2>1. JobShape(c, Len(imRows'))
    BY <1>9, JobFitsOn DEF FitsNext
  <2> QED BY <1>1, <1>3, <2>1 DEF FitsNext, OnTheWay, JobShape, JobFields
<1> QED BY <1>1, <1>9, <1>10, <1>11, JobKeeps

LEMMA DeletedKeeps == ASSUME ImportInv, NEW j \in ImJobs, DeletedAll(j) PROVE ImportInv'
BY FailedKeeps DEF DeletedAll, AtStep

\* The rows a batch adds come after all there are, each with a file of the batch.
LEMMA InsertedAre ==
  ASSUME ImportInv, NEW paths \in Seq(ImFiles), Insertable(paths)
  PROVE  /\ InsertedRows(paths) \in Seq(SoundRecs)
         /\ Len(InsertedRows(paths)) = Len(imRows) + Len(paths)
         /\ \A i \in 1 .. Len(imRows) : InsertedRows(paths)[i] = imRows[i]
         /\ \A k \in DOMAIN paths : /\ Len(imRows) + k \in 1 .. Len(imRows) + Len(paths)
                                    /\ InsertedRows(paths)[Len(imRows) + k] = SoundRow(paths[k], TRUE)
         /\ \A i \in Len(imRows) + 1 .. Len(imRows) + Len(paths) :
              \E k \in DOMAIN paths : i = Len(imRows) + k
<1> DEFINE added == [k \in DOMAIN paths |-> SoundRow(paths[k], TRUE)]
<1>1. imRows \in Seq(SoundRecs) /\ Len(imRows) \in Nat /\ Len(paths) \in Nat /\ DOMAIN paths = 1 .. Len(paths)
  BY DEF ImportInv, ImportTypes
<1>2. \A k \in DOMAIN paths : paths[k] \in ImFiles /\ paths[k] \notin StoredPaths(imRows)
  BY <1>1 DEF Insertable, ToSet
<1>3. \A f \in ImFiles : SoundRow(f, TRUE) \in SoundRecs
  BY DEF SoundRow, NoSound, SoundRecs
<1>4. added \in Seq(SoundRecs) /\ Len(added) = Len(paths)
  <2>1. \A k \in 1 .. Len(paths) : SoundRow(paths[k], TRUE) \in SoundRecs
    BY <1>1, <1>2, <1>3
  <2>2. added \in [1 .. Len(paths) -> SoundRecs]
    BY <1>1, <2>1
  <2> HIDE DEF added
  <2> QED BY <1>1, <2>2
<1>5. InsertedRows(paths) = imRows \o added
  BY <1>2 DEF InsertedRows
<1>6. \A k \in DOMAIN paths : added[k] = SoundRow(paths[k], TRUE)
  OBVIOUS
<1> HIDE DEF added
<1>7. /\ imRows \o added \in Seq(SoundRecs) /\ Len(imRows \o added) = Len(imRows) + Len(paths)
      /\ \A i \in 1 .. Len(imRows) : (imRows \o added)[i] = imRows[i]
      /\ \A i \in Len(imRows) + 1 .. Len(imRows) + Len(paths) : (imRows \o added)[i] = added[i - Len(imRows)]
  <2>1. /\ imRows \o added \in Seq(SoundRecs) /\ Len(imRows \o added) = Len(imRows) + Len(added)
        /\ \A i \in 1 .. Len(imRows) + Len(added) :
             (imRows \o added)[i] = IF i <= Len(imRows) THEN imRows[i] ELSE added[i - Len(imRows)]
    BY <1>1, <1>4, ConcatProperties
  <2> QED BY <1>1, <1>4, <2>1
<1>8. ASSUME NEW k \in DOMAIN paths
      PROVE  /\ Len(imRows) + k \in 1 .. Len(imRows) + Len(paths)
             /\ (imRows \o added)[Len(imRows) + k] = SoundRow(paths[k], TRUE)
  <2>1. /\ Len(imRows) + k \in Len(imRows) + 1 .. Len(imRows) + Len(paths)
        /\ Len(imRows) + k \in 1 .. Len(imRows) + Len(paths) /\ (Len(imRows) + k) - Len(imRows) = k
    BY <1>1, <1>8
  <2>2. (imRows \o added)[Len(imRows) + k] = added[k]
    BY <1>7, <2>1
  <2> QED BY <1>6, <2>1, <2>2
<1>9. ASSUME NEW i \in Len(imRows) + 1 .. Len(imRows) + Len(paths)
      PROVE  \E k \in DOMAIN paths : i = Len(imRows) + k
  <2>1. i - Len(imRows) \in 1 .. Len(paths) /\ i = Len(imRows) + (i - Len(imRows))
    BY <1>1, <1>9
  <2> QED BY <1>1, <2>1
<1> QED BY <1>5, <1>7, <1>8, <1>9

LEMMA FlushSoundsKeeps == ASSUME ImportInv, NEW j \in ImJobs, FlushSounds(j) PROVE ImportInv'
<1> DEFINE c == imJob[j]
           fresh == {Len(imRows) + k : k \in DOMAIN c.batch}
           rows == InsertedRows(c.batch)
           new == [c EXCEPT !.added = @ \cup fresh,
                            !.batch = IF c.tab = ImNone THEN <<>> ELSE @,
                            !.step = IF c.tab = ImNone THEN "look" ELSE "members"]
<1>1. c.kind = "import" /\ c.step = "flush" /\ UNCHANGED <<imTabs, imDisk, imStale>>
  BY DEF FlushSounds, OnJob, AtStep
<1>2. /\ JobShape(c, Len(imRows)) /\ c.batch \in Seq(ImFiles) /\ imRows \in Seq(SoundRecs)
      /\ imMembers \subseteq ImTabs \X (1 .. Len(imRows))
      /\ Len(imRows) \in Nat /\ Len(c.batch) \in Nat /\ DOMAIN c.batch = 1 .. Len(c.batch)
  BY DEF ImportInv, ImportTypes, JobShape
<1>3. CASE ~Insertable(c.batch)
  <2>1. OnJob(j, AnsweredWith(c, FALSE)) /\ SameStore
    BY <1>1, <1>3 DEF FlushSounds, SameStore
  <2> QED BY <1>1, <2>1, FailedKeeps
<1>4. CASE Insertable(c.batch)
  <2>1. Store(rows, imMembers) /\ OnJob(j, new)
    BY <1>4 DEF FlushSounds
  <2>2. /\ rows \in Seq(SoundRecs) /\ Len(rows) = Len(imRows) + Len(c.batch)
        /\ \A i \in 1 .. Len(imRows) : rows[i] = imRows[i]
        /\ \A k \in DOMAIN c.batch : /\ Len(imRows) + k \in 1 .. Len(imRows) + Len(c.batch)
                                     /\ rows[Len(imRows) + k] = SoundRow(c.batch[k], TRUE)
        /\ \A i \in Len(imRows) + 1 .. Len(imRows) + Len(c.batch) :
             \E k \in DOMAIN c.batch : i = Len(imRows) + k
    BY <1>2, <1>4, InsertedAre
  <2>3. /\ new.step = (IF c.tab = ImNone THEN "look" ELSE "members") /\ DOMAIN new = JobFields
        /\ new.batch = (IF c.tab = ImNone THEN <<>> ELSE c.batch) /\ new.added = c.added \cup fresh
        /\ \A f \in JobFields \ {"step", "batch", "added"} : new[f] = c[f]
    BY <1>2 DEF JobShape, JobFields
  <2>4. /\ fresh \subseteq 1 .. Len(rows) /\ fresh \cap (1 .. Len(imRows)) = {}
        /\ Len(imRows) <= Len(rows) /\ 1 .. Len(imRows) \subseteq 1 .. Len(rows)
    BY <1>2, <2>2
  <2> HIDE DEF rows, new, fresh
  <2>5. ASSUME NEW f \in ImFiles
        PROVE  /\ SoundRow(f, TRUE) # NoSound /\ SoundRow(f, TRUE).loud = ImNone
               /\ SoundRow(f, TRUE).path = f /\ SoundRow(f, TRUE).standalone
    BY ImportAssumption DEF SoundRow, NoSound
  <2>6. \A k \in DOMAIN c.batch : c.batch[k] \in ImFiles
    BY <1>2
  <2>7. LibraryGoesOn
    <3>1. \A i \in 1 .. Len(rows) : rows[i] # NoSound =>
            rows[i].loud \in {ImNone, rows[i].path} \/ i \in imStale'
      <4> SUFFICES ASSUME NEW i \in 1 .. Len(rows), rows[i] # NoSound
                   PROVE  rows[i].loud \in {ImNone, rows[i].path} \/ i \in imStale'
        OBVIOUS
      <4>1. CASE i \in 1 .. Len(imRows)
        BY <1>1, <2>2, <4>1, LoudNow
      <4>2. CASE i \in Len(imRows) + 1 .. Len(imRows) + Len(c.batch)
        <5>1. PICK k \in DOMAIN c.batch : i = Len(imRows) + k
          BY <2>2, <4>2
        <5>2. rows[i] = SoundRow(c.batch[k], TRUE) /\ c.batch[k] \in ImFiles
          BY <2>2, <2>6, <5>1
        <5> QED BY <2>5, <5>2
      <4> QED BY <1>2, <2>2, <4>1, <4>2
    <3>2. imMembers \in SUBSET (ImTabs \X (1 .. Len(rows)))
      BY <1>2, <2>4
    <3> QED BY <1>1, <2>1, <2>2, <2>4, <3>1, <3>2, StoreGoesOn
  <2>8. ToSet(c.batch) \subseteq Reached'
    <3> SUFFICES ASSUME NEW k \in DOMAIN c.batch PROVE c.batch[k] \in Reached'
      BY DEF ToSet
    <3> DEFINE n == Len(imRows) + k
    <3>1. n \in DOMAIN rows /\ rows[n] = SoundRow(c.batch[k], TRUE)
      <4>1. DOMAIN rows = 1 .. Len(imRows) + Len(c.batch)
        BY <2>2
      <4> QED BY <2>2, <4>1
    <3>2. rows[n] # NoSound /\ rows[n].standalone /\ rows[n].path = c.batch[k]
      BY <2>5, <2>6, <3>1
    <3> HIDE DEF n
    <3>3. c.batch[k] \in LiveFiles(rows, imMembers)
      BY <3>1, <3>2 DEF LiveFiles, InLibrary
    <3> QED BY <2>1, <3>3, StoreReaches
  <2>9. imRows' = rows /\ imMembers' = imMembers
    BY <2>1 DEF Store
  <2>10. c.given \subseteq Reached'
    BY <1>1, <2>7, <2>8 DEF ImportInv, GivenArrives, OnTheWay, LibraryGoesOn
  <2>11. FitsNext(new)
    <3>1. JobShape(new, Len(imRows'))
      <4>1. new.step \notin {"write", "start"} /\ new.batch \in Seq(ImFiles)
        BY <1>2, <2>3
      <4>2. new.added \subseteq 1 .. Len(imRows')
        BY <1>2, <2>3, <2>4, <2>9 DEF JobShape
      <4> QED BY <1>2, <2>3, <4>1, <4>2 DEF JobShape, JobFields
    <3>2. new.given = c.given /\ new.tab = c.tab
      BY <2>3 DEF JobFields
    <3>3. new.tab \in imTabs' => new.step = "members"
      BY <1>1, <2>3, <3>2, ImportAssumption DEF ImportInv, ImportTypes
    <3> QED BY <2>3, <2>10, <3>1, <3>2, <3>3 DEF FitsNext
  <2>12. AddedAreItsOwn'
    <3>1. DOMAIN imJob = ImJobs /\ imJob' = [imJob EXCEPT ![j] = new]
      BY <2>1 DEF ImportInv, ImportTypes, OnJob
    <3>2. imJob'[j] = new /\ \A k \in ImJobs \ {j} : imJob'[k] = imJob[k]
      BY <3>1
    <3>3. \A k \in ImJobs : imJob[k].added \subseteq 1 .. Len(imRows)
      BY DEF ImportInv, ImportTypes, JobShape
    <3>4. \A m \in imMembers : m[2] \in 1 .. Len(imRows)
      BY <1>2
    <3>5. new.tab = c.tab
      BY <2>3 DEF JobFields
    <3>6. \A k \in ImJobs \ {j} : new.added \cap imJob[k].added = {}
      BY <2>3, <2>4, <3>3 DEF ImportInv, AddedAreItsOwn
    <3>7. \A m \in imMembers : m[2] \in new.added => m[1] = new.tab
      BY <2>3, <2>4, <3>4, <3>5 DEF ImportInv, AddedAreItsOwn
    <3> QED BY <2>9, <3>2, <3>6, <3>7 DEF ImportInv, AddedAreItsOwn
  <2>13. ZoneShows'
    <3>1. new.kind = c.kind /\ new.window = c.window /\ UNCHANGED imZone /\ imJob' = [imJob EXCEPT ![j] = new]
      BY <2>1, <2>3 DEF JobFields, OnJob, uiVars
    <3> QED BY <3>1, ZoneStays
  <2>14. imJob' = [imJob EXCEPT ![j] = new]
    BY <2>1 DEF OnJob
  <2> QED BY <2>7, <2>11, <2>12, <2>13, <2>14, OneJob
<1> QED BY <1>3, <1>4

LEMMA FlushMembersKeeps == ASSUME ImportInv, NEW j \in ImJobs, FlushMembers(j) PROVE ImportInv'
<1> DEFINE c == imJob[j]
           ids == {i \in c.added : ~ \E t \in ImTabs : <<t, i>> \in imMembers}
           members == imMembers \cup ({c.tab} \X ids)
           new == [c EXCEPT !.batch = <<>>, !.step = "look"]
<1>1. c.kind = "import" /\ c.step = "members" /\ UNCHANGED <<imTabs, imDisk, imStale>>
  BY DEF FlushMembers, OnJob, AtStep
<1>2. /\ JobShape(c, Len(imRows)) /\ imRows \in Seq(SoundRecs)
      /\ imMembers \subseteq ImTabs \X (1 .. Len(imRows)) /\ Len(imRows) \in Nat
  BY DEF ImportInv, ImportTypes
<1>3. CASE ~(c.tab \in imTabs /\ ids \subseteq ImIds(imRows))
  <2>1. OnJob(j, AnsweredWith(c, FALSE)) /\ SameStore
    BY <1>1, <1>3 DEF FlushMembers, SameStore
  <2> QED BY <1>1, <2>1, FailedKeeps
<1>4. CASE c.tab \in imTabs /\ ids \subseteq ImIds(imRows)
  <2>1. Store(imRows, members) /\ OnJob(j, new)
    BY <1>4 DEF FlushMembers
  <2>2. /\ new.step = "look" /\ DOMAIN new = JobFields /\ new.batch = <<>>
        /\ \A f \in JobFields \ {"step", "batch"} : new[f] = c[f]
    BY <1>2 DEF JobShape, JobFields
  <2> HIDE DEF new
  <2>3. new.kind = c.kind /\ new.window = c.window /\ new.tab = c.tab /\ new.added = c.added /\ new.given = c.given
    BY <2>2 DEF JobFields
  <2>4. c.added \subseteq 1 .. Len(imRows) /\ c.tab \in ImTabs
    BY <1>2, <1>4 DEF JobShape, ImportInv, ImportTypes
  <2>5. members \in SUBSET (ImTabs \X (1 .. Len(imRows))) /\ imMembers \subseteq members
    BY <1>2, <2>4
  <2>6. {c.tab} \X c.added \subseteq members
    <3> SUFFICES ASSUME NEW i \in c.added PROVE <<c.tab, i>> \in members
      OBVIOUS
    <3>1. CASE i \in ids
      BY <3>1
    <3>2. CASE i \notin ids
      <4>1. PICK t \in ImTabs : <<t, i>> \in imMembers
        BY <3>2
      <4>2. <<t, i>>[2] \in c.added => <<t, i>>[1] = c.tab
        BY <4>1 DEF ImportInv, AddedAreItsOwn
      <4> QED BY <4>1, <4>2
    <3> QED BY <3>1, <3>2
  <2>7. \A m \in members : m \in imMembers \/ (m[1] = c.tab /\ m[2] \in c.added)
    OBVIOUS
  <2> HIDE DEF members, ids
  <2>8. LibraryGoesOn
    BY <1>1, <1>2, <2>1, <2>5, StoreGoesOn, LoudNow
  <2>9. imRows' = imRows /\ imMembers' = members
    BY <2>1 DEF Store
  <2>10. FitsNext(new)
    <3>1. JobShape(new, Len(imRows'))
      BY <1>2, <2>2, <2>9 DEF JobShape, JobFields
    <3>2. new.given \subseteq Reached'
      BY <1>1, <2>3, <2>8 DEF ImportInv, GivenArrives, OnTheWay, LibraryGoesOn
    <3>3. {new.tab} \X (new.added \cap ImIds(imRows)') \subseteq imMembers'
      BY <2>3, <2>6, <2>9
    <3> QED BY <2>2, <3>1, <3>2, <3>3 DEF FitsNext
  <2>11. AddedAreItsOwn'
    <3>1. DOMAIN imJob = ImJobs /\ imJob' = [imJob EXCEPT ![j] = new]
      BY <2>1 DEF ImportInv, ImportTypes, OnJob
    <3>2. imJob'[j] = new /\ \A k \in ImJobs \ {j} : imJob'[k] = imJob[k]
      BY <3>1
    <3>3. \A k \in ImJobs : imJob'[k].added = imJob[k].added /\ imJob'[k].tab = imJob[k].tab
      BY <2>3, <3>2
    <3>4. \A k, l \in ImJobs : k # l => imJob'[k].added \cap imJob'[l].added = {}
      BY <3>3 DEF ImportInv, AddedAreItsOwn
    <3>5. ASSUME NEW k \in ImJobs, NEW m \in members, m[2] \in imJob[k].added PROVE m[1] = imJob[k].tab
      <4>1. CASE m \in imMembers
        BY <3>5, <4>1 DEF ImportInv, AddedAreItsOwn
      <4>2. CASE m[1] = c.tab /\ m[2] \in c.added
        BY <3>5, <4>2 DEF ImportInv, AddedAreItsOwn
      <4> QED BY <2>7, <4>1, <4>2
    <3> QED BY <2>9, <3>3, <3>4, <3>5 DEF AddedAreItsOwn
  <2>12. ZoneShows'
    <3>1. UNCHANGED imZone /\ imJob' = [imJob EXCEPT ![j] = new]
      BY <2>1 DEF OnJob, uiVars
    <3> QED BY <2>3, <3>1, ZoneStays
  <2>13. imJob' = [imJob EXCEPT ![j] = new]
    BY <2>1 DEF OnJob
  <2> QED BY <2>8, <2>10, <2>11, <2>12, <2>13, OneJob
<1> QED BY <1>3, <1>4

-----------------------------------------------------------------------------
(* A refresh, the sidebar and the disk. *)

LEMMA OthersKeep ==
  ASSUME ImportInv, LibraryGoesOn, UNCHANGED <<imJob, imZone>>, imMembers' \subseteq imMembers
  PROVE  ImportInv'
<1>1. AddedAreItsOwn'
  BY OwnUnchanged
<1>2. ZoneShows'
  BY DEF ImportInv, ZoneShows
<1> QED BY <1>1, <1>2, JobsGoOn

\* Rows that keep their number and their loudness, and are there as before.
LEMMA RowsMove ==
  ASSUME ImportInv, NEW rows \in Seq(SoundRecs), Len(rows) = Len(imRows),
         \A i \in 1 .. Len(imRows) : /\ rows[i] # NoSound => imRows[i] # NoSound
                                     /\ rows[i].loud = imRows[i].loud /\ rows[i].path = imRows[i].path,
         Store(rows, imMembers), UNCHANGED <<imTabs, imDisk, imStale, imJob, imZone>>
  PROVE  ImportInv'
<1>1. /\ imMembers \in SUBSET (ImTabs \X (1 .. Len(rows))) /\ Len(imRows) \in Nat
  BY DEF ImportInv, ImportTypes
<1>2. \A i \in 1 .. Len(rows) : rows[i] # NoSound =>
        rows[i].loud \in {ImNone, rows[i].path} \/ i \in imStale'
  BY LoudNow
<1>3. LibraryGoesOn
  BY <1>1, <1>2, StoreGoesOn
<1> QED BY <1>3, OthersKeep DEF Store

LEMMA PlaceKeeps == ASSUME ImportInv, PlaceSounds PROVE ImportInv'
<1>1. PICK move \in {<<"staged", "live">>, <<"live", "hidden">>, <<"hidden", "live">>} :
        Store(Moved(move[1], move[2]), imMembers)
  BY DEF PlaceSounds
<1>2. UNCHANGED <<imTabs, imDisk, imStale, imJob, imZone>>
  BY DEF PlaceSounds, uiVars
<1> DEFINE rows == Moved(move[1], move[2])
<1>3. imRows \in Seq(SoundRecs) /\ DOMAIN imRows = 1 .. Len(imRows) /\ Len(imRows) \in Nat
  BY DEF ImportInv, ImportTypes
<1>4. move[1] \in {"staged", "live", "hidden"} /\ move[2] \in {"live", "hidden"}
  OBVIOUS
<1>5. DOMAIN rows = 1 .. Len(imRows)
      /\ \A i \in 1 .. Len(imRows) : rows[i] = IF imRows[i].place = move[1] THEN [imRows[i] EXCEPT !.place = move[2]]
                                               ELSE imRows[i]
  BY <1>3 DEF Moved
<1>6. ASSUME NEW r \in SoundRecs
      PROVE  /\ [r EXCEPT !.place = move[2]] \in SoundRecs
             /\ [r EXCEPT !.place = move[2]].loud = r.loud /\ [r EXCEPT !.place = move[2]].path = r.path
             /\ (r.place = move[1] => r # NoSound)
  BY <1>4 DEF SoundRecs, NoSound
<1>7. \A i \in 1 .. Len(imRows) : imRows[i] \in SoundRecs
  BY <1>3
<1>8. rows \in Seq(SoundRecs) /\ Len(rows) = Len(imRows)
  <2>1. rows = [i \in 1 .. Len(imRows) |-> rows[i]]
    BY <1>3 DEF Moved
  <2>2. \A i \in 1 .. Len(imRows) : rows[i] \in SoundRecs
    BY <1>5, <1>6, <1>7
  <2> HIDE DEF rows
  <2> QED BY <1>3, <2>1, <2>2
<1>9. Store(rows, imMembers)
  BY <1>1
<1> HIDE DEF rows
<1>10. \A i \in 1 .. Len(imRows) : /\ rows[i] # NoSound => imRows[i] # NoSound
                                   /\ rows[i].loud = imRows[i].loud /\ rows[i].path = imRows[i].path
  BY <1>5, <1>6, <1>7
<1> QED BY <1>2, <1>8, <1>9, <1>10, RowsMove

LEMMA StageKeeps == ASSUME ImportInv, NEW f \in ImFiles, StageSound(f) PROVE ImportInv'
<1>1. UNCHANGED <<imTabs, imDisk, imStale, imJob, imZone>>
  BY DEF StageSound, uiVars
<1>2. /\ imRows \in Seq(SoundRecs) /\ DOMAIN imRows = 1 .. Len(imRows) /\ Len(imRows) \in Nat
      /\ imMembers \subseteq ImTabs \X (1 .. Len(imRows))
  BY DEF ImportInv, ImportTypes
<1>3. CASE f \in StoredPaths(imRows)
  <2> DEFINE Staged(r) == [r EXCEPT !.standalone = FALSE, !.place = IF @ = "none" THEN "staged" ELSE @]
             rows == [i \in DOMAIN imRows |-> IF imRows[i].path # f THEN imRows[i] ELSE Staged(imRows[i])]
  <2>1. Store(rows, imMembers)
    BY <1>3 DEF StageSound
  <2>2. ASSUME NEW r \in SoundRecs
        PROVE  Staged(r) \in SoundRecs /\ Staged(r).loud = r.loud /\ Staged(r).path = r.path
               /\ (r.path = f => r # NoSound)
    <3> DEFINE place == IF r.place = "none" THEN "staged" ELSE r.place
    <3>1. place \in {"none", "staged", "live", "hidden"}
      BY DEF SoundRecs
    <3>2. Staged(r) = [r EXCEPT !.standalone = FALSE, !.place = place]
      BY DEF SoundRecs
    <3> HIDE DEF place
    <3>3. Staged(r) \in SoundRecs /\ Staged(r).loud = r.loud /\ Staged(r).path = r.path
      BY <3>1, <3>2 DEF SoundRecs
    <3>4. r.path = f => r # NoSound
      BY ImportAssumption DEF NoSound
    <3> QED BY <3>3, <3>4
  <2> HIDE DEF Staged
  <2>3. \A i \in 1 .. Len(imRows) : rows[i] = IF imRows[i].path # f THEN imRows[i] ELSE Staged(imRows[i])
    BY <1>2
  <2>4. \A i \in 1 .. Len(imRows) : imRows[i] \in SoundRecs
    BY <1>2
  <2>5. rows \in Seq(SoundRecs) /\ Len(rows) = Len(imRows)
    <3>1. rows = [i \in 1 .. Len(imRows) |-> rows[i]]
      BY <1>2
    <3>2. \A i \in 1 .. Len(imRows) : rows[i] \in SoundRecs
      BY <2>2, <2>3, <2>4
    <3> HIDE DEF rows
    <3> QED BY <1>2, <3>1, <3>2
  <2> HIDE DEF rows
  <2>6. \A i \in 1 .. Len(imRows) : /\ rows[i] # NoSound => imRows[i] # NoSound
                                    /\ rows[i].loud = imRows[i].loud /\ rows[i].path = imRows[i].path
    BY <2>2, <2>3, <2>4
  <2> QED BY <1>1, <2>1, <2>5, <2>6, RowsMove
<1>4. CASE f \notin StoredPaths(imRows)
  <2> DEFINE rows == Append(imRows, SoundRow(f, FALSE))
  <2>1. Store(rows, imMembers)
    BY <1>4 DEF StageSound
  <2>2. SoundRow(f, FALSE) \in SoundRecs /\ SoundRow(f, FALSE).loud = ImNone
    BY DEF SoundRow, NoSound, SoundRecs
  <2>3. /\ rows \in Seq(SoundRecs) /\ Len(rows) = Len(imRows) + 1
        /\ rows[Len(rows)] = SoundRow(f, FALSE)
        /\ \A i \in 1 .. Len(imRows) : rows[i] = imRows[i]
    <3> DEFINE row == SoundRow(f, FALSE)
    <3>1. row \in SoundRecs
      BY <2>2
    <3>2. rows = Append(imRows, row)
      OBVIOUS
    <3> HIDE DEF rows, row
    <3>3. /\ rows \in Seq(SoundRecs) /\ Len(rows) = Len(imRows) + 1
          /\ \A i \in 1 .. Len(imRows) : rows[i] = imRows[i]
      BY <1>2, <3>1, <3>2, AppendProperties
    <3>4. rows[Len(imRows) + 1] = row
      BY <1>2, <3>1, <3>2, AppendProperties
    <3> QED BY <3>3, <3>4 DEF row
  <2> HIDE DEF rows
  <2>4. /\ imMembers \in SUBSET (ImTabs \X (1 .. Len(rows))) /\ Len(imRows) <= Len(rows)
        /\ \A i \in 1 .. Len(rows) : i \in 1 .. Len(imRows) \/ i = Len(rows)
    BY <1>2, <2>3
  <2>5. \A i \in 1 .. Len(rows) : rows[i] # NoSound =>
          rows[i].loud \in {ImNone, rows[i].path} \/ i \in imStale'
    <3> SUFFICES ASSUME NEW i \in 1 .. Len(rows), rows[i] # NoSound
                 PROVE  rows[i].loud \in {ImNone, rows[i].path} \/ i \in imStale'
      OBVIOUS
    <3>1. CASE i \in 1 .. Len(imRows)
      BY <1>1, <2>3, <3>1, LoudNow
    <3>2. CASE i = Len(rows)
      BY <2>2, <2>3, <3>2
    <3> QED BY <2>4, <3>1, <3>2
  <2>6. LibraryGoesOn
    BY <1>1, <2>1, <2>3, <2>4, <2>5, StoreGoesOn
  <2> QED BY <1>1, <2>1, <2>6, OthersKeep DEF Store
<1> QED BY <1>3, <1>4

LEMMA TabKeeps == ASSUME ImportInv, NEW t \in ImTabs, DeleteImportTab(t) PROVE ImportInv'
<1> DEFINE members == {m \in imMembers : m[1] # t}
<1>1. /\ Store(imRows, members) /\ imTabs' = imTabs \ {t}
      /\ UNCHANGED <<imDisk, imStale, imJob, imZone>>
  BY DEF DeleteImportTab, uiVars
<1>2. /\ imRows \in Seq(SoundRecs) /\ Len(imRows) \in Nat /\ members \in SUBSET (ImTabs \X (1 .. Len(imRows)))
  BY DEF ImportInv, ImportTypes
<1>3. \A u \in imTabs', i \in 1 .. Len(imRows) : <<u, i>> \in imMembers => <<u, i>> \in members
  BY <1>1
<1>4. members \subseteq imMembers
  OBVIOUS
<1> HIDE DEF members
<1>5. LibraryGoesOn
  BY <1>1, <1>2, <1>3, LoudNow, StoreGoesOn
<1> QED BY <1>1, <1>4, <1>5, OthersKeep DEF Store

LEMMA VanishKeeps == ASSUME ImportInv, NEW f \in ImFiles, FileVanishes(f) PROVE ImportInv'
<1>1. imDisk' \subseteq imDisk /\ UNCHANGED <<imTabs, imJob, imZone>> /\ SameStore
  BY DEF FileVanishes, uiVars
<1>2. LibraryGoesOn
  BY <1>1, LibraryStays
<1> QED BY <1>1, <1>2, OthersKeep DEF SameStore

-----------------------------------------------------------------------------
(* The invariant. *)

LEMMA ImportStart == ImInit => ImportInv
<1> SUFFICES ASSUME ImInit PROVE ImportInv
  OBVIOUS
<1>1. PICK f \in ImFiles : imRows \in {<<SoundRow(f, TRUE)>>, <<[SoundRow(f, FALSE) EXCEPT !.place = "hidden"]>>}
  BY DEF ImInit
<1>2. \A g \in ImFiles, own \in BOOLEAN : SoundRow(g, own) \in SoundRecs /\ SoundRow(g, own).loud = ImNone
  BY DEF SoundRow, NoSound, SoundRecs
<1>3. \A r \in SoundRecs : /\ [r EXCEPT !.place = "hidden"] \in SoundRecs
                           /\ [r EXCEPT !.place = "hidden"].loud = r.loud
  BY DEF SoundRecs
<1>4. PICK r \in SoundRecs : imRows = <<r>> /\ r.loud = ImNone
  BY <1>1, <1>2, <1>3
<1>5. imRows \in Seq(SoundRecs) /\ Len(imRows) = 1
  BY <1>4
<1>6. /\ imMembers = {} /\ imTabs = ImTabs /\ imDisk = ImFiles /\ imJob = [j \in ImJobs |-> ImIdle]
      /\ imZone = "hidden" /\ imStale = {}
  BY DEF ImInit
<1>7. /\ ImIdle.step = "none" /\ ImIdle.added = {} /\ DOMAIN ImIdle = JobFields /\ ImIdle.kind = "none"
      /\ JobShape(ImIdle, 1)
  BY DEF ImIdle, JobFields, JobShape, NoSound, SoundRecs
<1>8. ImportTypes
  BY <1>5, <1>6, <1>7 DEF ImportTypes
<1>9. GivenArrives /\ AddedAreMembers /\ AddedAreItsOwn /\ ZoneShows /\ SeenLoudness
  BY <1>6, <1>7 DEF GivenArrives, AddedAreMembers, AddedAreItsOwn, ZoneShows, SeenLoudness, OnTheWay
<1>10. LoudnessIsOfItsFile
  BY <1>4, <1>5 DEF LoudnessIsOfItsFile, ImIds
<1> QED BY <1>8, <1>9, <1>10 DEF ImportInv

LEMMA ImportsGoOn == ImportInv /\ [ImNext]_imVars => ImportInv'
<1> SUFFICES ASSUME ImportInv, [ImNext]_imVars PROVE ImportInv'
  OBVIOUS
<1>1. CASE UNCHANGED imVars
  <2>1. SameStore /\ UNCHANGED <<imTabs, imDisk, imJob, imZone>>
    BY <1>1 DEF imVars, SameStore
  <2>2. LibraryGoesOn
    BY <2>1, LibraryStays
  <2> QED BY <2>1, <2>2, OthersKeep DEF SameStore
<1>2. CASE ImNext
  <2>1. ASSUME \/ \E paths \in ImDrops, tab \in imTabs \cup {ImNone}, window \in BOOLEAN : DropFiles(paths, tab, window)
               \/ \E i \in ImIds(imRows) : RenameSound(i) \/ AnalyzeSound(i) \/ RemoveSounds(<<i>>)
               \/ \E i \in ImIds(imRows), f \in ImFiles : LocateSound(i, f)
               \/ RemoveSounds(SetToSeq(ImIds(imRows)))
        PROVE  ImportInv'
    BY <2>1, CommandKeeps
  <2>2. ASSUME NEW j \in ImJobs,
               \/ TakeCommandAnswer(j) \/ JobFails(j)
               \/ BeginImport(j) \/ LookUpFile(j) \/ LookedUpAll(j) \/ FlushSounds(j) \/ FlushMembers(j)
               \/ ReadSound(j) \/ UpdateSound(j) \/ WriteLoudness(j)
               \/ DeleteSound(j) \/ DeletedAll(j)
        PROVE  ImportInv'
    BY <2>2, AnswerKeeps, JobFailsKeeps, BeginImportKeeps, LookUpKeeps, LookedUpKeeps, FlushSoundsKeeps,
       FlushMembersKeeps, ReadKeeps, UpdateKeeps, WriteLoudnessKeeps, DeleteKeeps, DeletedKeeps
  <2>3. ASSUME \/ \E f \in ImFiles : StageSound(f) \/ FileVanishes(f)
               \/ PlaceSounds
               \/ \E t \in ImTabs : DeleteImportTab(t)
        PROVE  ImportInv'
    BY <2>3, StageKeeps, VanishKeeps, PlaceKeeps, TabKeeps
  <2>4. CASE DragEnters \/ DragLeaves \/ RejectDrop \/ HideZone
    BY <2>4, WindowKeeps
  <2> QED BY <1>2, <2>1, <2>2, <2>3, <2>4 DEF ImNext
<1> QED BY <1>1, <1>2

\* What the commands on single sounds say is true, for any number of them under
\* way, of files and of tabs: after an import's Ok each dropped file that exists
\* is in the library or left it meanwhile, in the tab that was shown, and a
\* loudness is that of the sound's own file unless a command wrote it from what
\* it had read before the file changed.
THEOREM SingleSoundCommandsAreTrue == ImSpec => []SoundCommandsAreTrue
<1>1. ImportInv => SoundCommandsAreTrue
  <2> SUFFICES ASSUME ImportInv PROVE SoundCommandsAreTrue
    OBVIOUS
  <2>1. ASSUME NEW j \in ImJobs, imJob[j].kind = "import", imJob[j].step = "answer", imJob[j].ok
        PROVE  /\ imJob[j].given \subseteq LiveFiles(imRows, imMembers) \cup imLost
               /\ imJob[j].tab \in imTabs =>
                    {imJob[j].tab} \X (imJob[j].added \cap ImIds(imRows)) \subseteq imMembers
    BY <2>1 DEF ImportInv, GivenArrives, AddedAreMembers, OnTheWay, Reached
  <2>2. ImportsAnswerTruly
    BY <2>1 DEF ImportInv, ZoneShows, ImportsAnswerTruly
  <2> QED BY <2>2 DEF ImportInv, SoundCommandsAreTrue
<1> QED BY <1>1, ImportStart, ImportsGoOn, PTL DEF ImSpec

(***************************************************************************)
(* The folder tree.                                                        *)
(***************************************************************************)

\* Every row of folder_prefs says whether the folder is hidden, and those of
\* the folders in ftHidden say that they are.
PrefsSayHidden == \A f \in DOMAIN ftPrefs : "hidden" \in DOMAIN ftPrefs[f]
HiddenInv ==
  /\ PrefsSayHidden
  /\ ftHidden \subseteq FtFolders
  /\ \A f \in ftHidden : IsHidden(f)

\* A row that is written has the columns of the one it replaces.
LEMMA PrefHasHidden ==
  ASSUME PrefsSayHidden, NEW f, NEW position
  PROVE /\ "hidden" \in DOMAIN PrefOf(f)
        /\ "hidden" \in DOMAIN [PrefOf(f) EXCEPT !.position = position]
        /\ [PrefOf(f) EXCEPT !.position = position].hidden = PrefOf(f).hidden
        /\ IsHidden(f) => PrefOf(f).hidden
<1>1. "hidden" \in DOMAIN PrefOf(f)
  BY DEF PrefsSayHidden, PrefOf, NoPrefs
<1>2. IsHidden(f) => PrefOf(f).hidden
  BY DEF IsHidden, PrefOf
<1> DEFINE row == PrefOf(f)
<1> HIDE DEF row
<1>3. "hidden" \in DOMAIN row =>
        /\ "hidden" \in DOMAIN [row EXCEPT !.position = position]
        /\ [row EXCEPT !.position = position].hidden = row.hidden
  OBVIOUS
<1> QED BY <1>1, <1>2, <1>3 DEF row

LEMMA PrefsKept ==
  ASSUME PrefsSayHidden, NEW changed, ftPrefs' = Upsert(ftPrefs, changed),
         \A f \in DOMAIN changed : "hidden" \in DOMAIN changed[f]
  PROVE /\ PrefsSayHidden'
        /\ \A f : IsHidden(f) /\ (f \in DOMAIN changed => changed[f].hidden) => IsHidden(f)'
        /\ \A f \in DOMAIN changed : changed[f].hidden => IsHidden(f)'
<1>1. DOMAIN ftPrefs' = DOMAIN changed \cup DOMAIN ftPrefs
  BY DEF Upsert
<1>2. \A f \in DOMAIN ftPrefs' : ftPrefs'[f] = IF f \in DOMAIN changed THEN changed[f] ELSE ftPrefs[f]
  BY DEF Upsert
<1> QED BY <1>1, <1>2 DEF PrefsSayHidden, IsHidden

\* New positions hide no folder and show none.
LEMMA PlacesHideNothing ==
  ASSUME HiddenInv, NEW place, Placed(place), ftHidden' = ftHidden
  PROVE HiddenInv'
<1> DEFINE changed == [f \in DOMAIN place |-> [PrefOf(f) EXCEPT !.position = place[f]]]
<1>1. ftPrefs' = Upsert(ftPrefs, changed)
  BY DEF Placed
<1>2. \A f \in DOMAIN place : changed[f] = [PrefOf(f) EXCEPT !.position = place[f]]
  OBVIOUS
<1>3. DOMAIN changed = DOMAIN place
  OBVIOUS
<1> HIDE DEF changed
<1>4. \A f \in DOMAIN changed : "hidden" \in DOMAIN changed[f] /\ (IsHidden(f) => changed[f].hidden)
  BY <1>2, <1>3, PrefHasHidden DEF HiddenInv
<1>5. PrefsSayHidden' /\ \A f : IsHidden(f) => IsHidden(f)'
  BY <1>1, <1>4, PrefsKept DEF HiddenInv
<1> QED BY <1>5 DEF HiddenInv

LEMMA HidingFolders == ASSUME HiddenInv, HideFolder \/ UnhideFolder PROVE HiddenInv'
<1>1. PICK f \in FtFolders, hidden \in BOOLEAN :
        SetHidden(f, hidden) /\ ftHidden' = IF hidden THEN ftHidden \cup {f} ELSE ftHidden \ {f}
  <2>1. CASE HideFolder
    <3>1. PICK f \in FtFolders : SetHidden(f, TRUE) /\ ftHidden' = ftHidden \cup {f}
      BY <2>1 DEF HideFolder
    <3> QED BY <3>1
  <2>2. CASE UnhideFolder
    <3>1. PICK f \in FtFolders : SetHidden(f, FALSE) /\ ftHidden' = ftHidden \ {f}
      BY <2>2 DEF UnhideFolder
    <3> QED BY <3>1
  <2> QED BY <2>1, <2>2
<1> DEFINE row == PrefOf(f)
           new == [row EXCEPT !.hidden = hidden]
           changed == [g \in {f} |-> new]
<1>2. ftPrefs' = Upsert(ftPrefs, changed)
  BY <1>1 DEF SetHidden
<1>3. "hidden" \in DOMAIN row
  BY PrefHasHidden DEF HiddenInv
<1>4. DOMAIN changed = {f} /\ changed[f] = new
  OBVIOUS
<1> HIDE DEF changed, row
<1>5. "hidden" \in DOMAIN new /\ new.hidden = hidden
  BY <1>3
<1> HIDE DEF new
<1>6. /\ PrefsSayHidden'
      /\ \A g : IsHidden(g) /\ g # f => IsHidden(g)'
      /\ hidden => IsHidden(f)'
  BY <1>2, <1>4, <1>5, PrefsKept DEF HiddenInv
<1> QED BY <1>1, <1>6 DEF HiddenInv

LEMMA FoldersCustomised == ASSUME HiddenInv, CustomiseFolder PROVE HiddenInv'
<1>1. PICK f \in FtFolders : ftPrefs' = Upsert(ftPrefs, [g \in {f} |-> PrefOf(g)])
  BY DEF CustomiseFolder
<1>2. ftHidden' = ftHidden
  BY DEF CustomiseFolder
<1> DEFINE changed == [g \in {f} |-> PrefOf(g)]
<1>3. DOMAIN changed = {f} /\ changed[f] = PrefOf(f)
  OBVIOUS
<1>4. ftPrefs' = Upsert(ftPrefs, changed)
  BY <1>1
<1> HIDE DEF changed
<1>5. "hidden" \in DOMAIN PrefOf(f) /\ (IsHidden(f) => PrefOf(f).hidden)
  BY PrefHasHidden DEF HiddenInv
<1>6. PrefsSayHidden' /\ \A g : IsHidden(g) => IsHidden(g)'
  BY <1>3, <1>4, <1>5, PrefsKept DEF HiddenInv
<1> QED BY <1>2, <1>6 DEF HiddenInv

LEMMA FoldersMoved == ASSUME HiddenInv, MoveFolder \/ ReorderFolder PROVE HiddenInv'
<1>1. CASE MoveFolder
  <2>1. (\E place : Placed(place)) /\ ftHidden' = ftHidden
    BY <1>1 DEF MoveFolder
  <2> QED BY <2>1, PlacesHideNothing
<1>2. CASE ReorderFolder
  <2>1. ftHidden' = ftHidden /\ ((\E place : Placed(place)) \/ ftPrefs' = ftPrefs)
    BY <1>2 DEF ReorderFolder, PlacesShifted
  <2>2. CASE \E place : Placed(place)
    BY <2>1, <2>2, PlacesHideNothing
  <2>3. CASE ftPrefs' = ftPrefs
    BY <2>1, <2>3 DEF HiddenInv, PrefsSayHidden, IsHidden
  <2> QED BY <2>1, <2>2, <2>3
<1> QED BY <1>1, <1>2

\* A published scan drops the rows of the folders it did not find, and those
\* folders from ftHidden.
LEMMA ScanKeepsHidden == ASSUME HiddenInv, FtFinish PROVE HiddenInv'
<1>1. CASE UNCHANGED <<ftPrefs, ftHidden>>
  BY <1>1 DEF HiddenInv, PrefsSayHidden, IsHidden
<1>2. CASE /\ ftPrefs' = Restrict(LegacyPrefs, DOMAIN LegacyPrefs \cap ftStaged.folders)
           /\ ftHidden' = ftHidden \cap ftStaged.folders
  <2> DEFINE folders == {ftLegacy[t].folder : t \in Reconciled}
             changed == [f \in folders |-> [PrefOf(f) EXCEPT !.position = 1]]
             found == ftStaged.folders
             prefs == Upsert(ftPrefs, changed)
  <2>1. LegacyPrefs = prefs
    BY DEF LegacyPrefs
  <2>2. DOMAIN changed = folders /\ \A f \in folders : changed[f] = [PrefOf(f) EXCEPT !.position = 1]
    OBVIOUS
  <2> HIDE DEF folders, changed
  <2>3. \A f \in DOMAIN changed : "hidden" \in DOMAIN changed[f] /\ (IsHidden(f) => changed[f].hidden)
    BY <2>2, PrefHasHidden DEF HiddenInv
  <2>4. /\ DOMAIN prefs = DOMAIN changed \cup DOMAIN ftPrefs
        /\ \A f \in DOMAIN prefs : prefs[f] = IF f \in DOMAIN changed THEN changed[f] ELSE ftPrefs[f]
    BY DEF Upsert
  <2> HIDE DEF prefs, found
  <2>5. /\ DOMAIN ftPrefs' = DOMAIN prefs \cap found
        /\ \A f \in DOMAIN ftPrefs' : ftPrefs'[f] = prefs[f]
    BY <1>2, <2>1 DEF Restrict, found
  <2>6. PrefsSayHidden'
    BY <2>3, <2>4, <2>5 DEF HiddenInv, PrefsSayHidden
  <2>7. \A f \in found : IsHidden(f) => IsHidden(f)'
    BY <2>3, <2>4, <2>5 DEF IsHidden
  <2>8. ftHidden' = ftHidden \cap found
    BY <1>2 DEF found
  <2> QED BY <2>6, <2>7, <2>8 DEF HiddenInv
<1> QED BY <1>1, <1>2 DEF FtFinish, ftTree

LEMMA HiddenStep == ASSUME HiddenInv, [FtNext]_ftVars PROVE HiddenInv'
<1>1. CASE HideFolder \/ UnhideFolder
  BY <1>1, HidingFolders
<1>2. CASE CustomiseFolder
  BY <1>2, FoldersCustomised
<1>3. CASE MoveFolder \/ ReorderFolder
  BY <1>3, FoldersMoved
<1>4. CASE FtFinish
  BY <1>4, ScanKeepsHidden
<1>5. CASE RemoveRoot
  <2>1. DOMAIN ftPrefs' = {} /\ ftHidden' = {}
    BY <1>5 DEF RemoveRoot, NoRows
  <2> QED BY <2>1 DEF HiddenInv, PrefsSayHidden, IsHidden
<1>6. CASE UNCHANGED <<ftPrefs, ftHidden>>
  BY <1>6 DEF HiddenInv, PrefsSayHidden, IsHidden
<1>7. CASE FtStage
  <2>1. UNCHANGED <<ftPrefs, ftHidden>>
    BY <1>7 DEF FtStage, PrefsAfterScan, KeepPrefs
  <2> QED BY <2>1, <1>6
<1>8. CASE FtBegin \/ FtCancel \/ DiskChanges \/ DropBetween \/ DropInto \/ CombineFolders \/ Dismiss
  <2>1. UNCHANGED <<ftPrefs, ftHidden>>
    BY <1>8 DEF FtBegin, FtCancel, DiskChanges, DropBetween, DropInto, CombineFolders, Dismiss, ftTree
  <2> QED BY <2>1, <1>6
<1>9. CASE AddToTab \/ RemoveFromTab \/ DeleteTab
  <2>1. \E tabs : EditsTabs(tabs)
    BY <1>9 DEF AddToTab, RemoveFromTab, DeleteTab
  <2>2. UNCHANGED <<ftPrefs, ftHidden>>
    BY <2>1 DEF EditsTabs, ftTree
  <2> QED BY <2>2, <1>6
<1>10. CASE UNCHANGED ftVars
  <2>1. UNCHANGED <<ftPrefs, ftHidden>>
    BY <1>10 DEF ftVars, ftTree
  <2> QED BY <2>1, <1>6
<1> QED BY <1>1, <1>2, <1>3, <1>4, <1>5, <1>7, <1>8, <1>9, <1>10 DEF FtNext

LEMMA HiddenInvSuffices == ASSUME HiddenInv PROVE HiddenFoldersStayHidden
<1> SUFFICES ASSUME NEW f \in ftHidden
             PROVE /\ ~Shown(f)
                   /\ \A s \in FtSounds :
                        f \in FtFolderOf[s] /\ LiveSound(s) =>
                          s \in ftStandalone \/ \E t \in DOMAIN ftTabs : s \in ftTabs[t]
  BY DEF HiddenFoldersStayHidden
<1>1. f \in FtFolders /\ IsHidden(f)
  BY DEF HiddenInv
<1>2. ~Shown(f)
  BY <1>1, FolderTreeAssumption DEF Shown
<1> QED BY <1>1, <1>2 DEF LiveSound

\* A refresh, a drop or any other edit does not bring a hidden folder back.
THEOREM HiddenStaysHidden == FtSpec => []HiddenFoldersStayHidden
<1>1. FtInit => HiddenInv
  BY DEF FtInit, HiddenInv, PrefsSayHidden, NoRows
<1>2. HiddenInv /\ [FtNext]_ftVars => HiddenInv'
  BY HiddenStep
<1>3. HiddenInv => HiddenFoldersStayHidden
  BY HiddenInvSuffices
<1> QED BY <1>1, <1>2, <1>3, PTL DEF FtSpec

-----------------------------------------------------------------------------
(***************************************************************************)
(* The order of the folders.                                               *)
(*                                                                         *)
(* What shows a folder before another is its position and, where two have  *)
(* the same, its id.  The order is total because no two rows have one id:  *)
(* a scan gives each new folder the number after all it has given, parents *)
(* before what is in them.  A drop then renumbers the siblings by how many *)
(* of them are shown before each.                                          *)
(***************************************************************************)

\* Where a folder is shown among others, for any tables.
PlaceIn(prefs, f) == IF f \in DOMAIN prefs THEN prefs[f].position ELSE 0
Precedes(prefs, rows, f, g) ==
  PlaceIn(prefs, f) < PlaceIn(prefs, g) \/ (PlaceIn(prefs, f) = PlaceIn(prefs, g) /\ rows[f] < rows[g])

\* Positions are numbers, and no two folders have one id.
PrefRecs == [hidden : BOOLEAN, position : Int]
PrefTypes(prefs) == \A f \in DOMAIN prefs : prefs[f] \in PrefRecs
IdsDiffer(rows) ==
  /\ rows \in [DOMAIN rows -> Nat \ {0}] /\ DOMAIN rows \subseteq FtFolders
  /\ \E last \in Nat : \A f \in DOMAIN rows : rows[f] <= last
  /\ \A f, g \in DOMAIN rows : rows[f] = rows[g] => f = g

TreeInv ==
  /\ ftDisk \subseteq FtSounds
  /\ PrefTypes(ftPrefs) /\ IdsDiffer(ftRows)
  /\ ftPresent \cup ftStaged.folders \subseteq DOMAIN ftRows
  /\ ftAsked.kind = "reorder" => ftAsked.place \in Int

LEMMA PlacesAreNumbers == ASSUME NEW prefs, PrefTypes(prefs), NEW f PROVE PlaceIn(prefs, f) \in Int
BY DEF PrefTypes, PrefRecs, PlaceIn

LEMMA OneIsFirst ==
  ASSUME NEW prefs, NEW rows, PrefTypes(prefs), IdsDiffer(rows)
  PROVE /\ \A f \in DOMAIN rows : ~Precedes(prefs, rows, f, f)
        /\ \A f, g \in DOMAIN rows : f # g => (Precedes(prefs, rows, f, g) <=> ~Precedes(prefs, rows, g, f))
        /\ \A f, g, h \in DOMAIN rows : Precedes(prefs, rows, f, g) /\ Precedes(prefs, rows, g, h)
                                          => Precedes(prefs, rows, f, h)
<1> DEFINE p == [f \in DOMAIN rows |-> PlaceIn(prefs, f)]
<1>1. \A f \in DOMAIN rows : p[f] \in Int /\ rows[f] \in Int
  BY PlacesAreNumbers DEF IdsDiffer
<1>2. \A f, g \in DOMAIN rows :
        Precedes(prefs, rows, f, g) <=> p[f] < p[g] \/ (p[f] = p[g] /\ rows[f] < rows[g])
  BY DEF Precedes
<1>3. \A f, g \in DOMAIN rows : rows[f] = rows[g] => f = g
  BY DEF IdsDiffer
<1> HIDE DEF p
<1> QED BY <1>1, <1>2, <1>3

LEMMA FolderSetsAreFinite ==
  ASSUME NEW S, S \subseteq FtFolders
  PROVE IsFiniteSet(S) /\ Cardinality(S) \in Nat
BY FolderTreeAssumption, FS_Subset, FS_CardinalityType

LEMMA SmallerSets ==
  ASSUME NEW S, NEW T, NEW x, T \subseteq FtFolders, S \subseteq T, x \in T, x \notin S
  PROVE Cardinality(S) < Cardinality(T)
<1>1. IsFiniteSet(T) /\ S \in SUBSET T /\ Cardinality(S) \in Nat /\ Cardinality(T) \in Nat
  BY FolderSetsAreFinite
<1>2. Cardinality(S) <= Cardinality(T) /\ (Cardinality(T) = Cardinality(S) => T = S)
  BY <1>1, FS_Subset
<1>3. T # S
  OBVIOUS
<1> QED BY <1>1, <1>2, <1>3

\* A folder further down has more folders before it.
LEMMA FurtherDown ==
  ASSUME NEW prefs, NEW rows, PrefTypes(prefs), IdsDiffer(rows), NEW S, S \subseteq DOMAIN rows,
         NEW f \in S, NEW g \in S, Precedes(prefs, rows, f, g)
  PROVE Cardinality({h \in S : Precedes(prefs, rows, h, f)}) < Cardinality({h \in S : Precedes(prefs, rows, h, g)})
<1> DEFINE Of(k) == {h \in S : Precedes(prefs, rows, h, k)}
<1>1. f \in DOMAIN rows /\ g \in DOMAIN rows /\ S \subseteq FtFolders
  BY DEF IdsDiffer
<1>2. f \in Of(g) /\ f \notin Of(f)
  BY <1>1, OneIsFirst
<1>3. Of(f) \subseteq Of(g)
  BY <1>1, OneIsFirst
<1>4. Of(g) \subseteq FtFolders
  BY <1>1
<1> HIDE DEF Of
<1>5. Cardinality(Of(f)) < Cardinality(Of(g))
  BY <1>2, <1>3, <1>4, SmallerSets
<1> QED BY <1>5 DEF Of

\* Folders that have the places between the others make room for the one dropped there.
LEMMA OthersKeepTheirOrder ==
  ASSUME NEW prefs, NEW rows, NEW after, PrefTypes(prefs), PrefTypes(after), IdsDiffer(rows),
         NEW S, S \subseteq DOMAIN rows, NEW target \in Int,
         \A f \in S : LET n == Cardinality({h \in S : Precedes(prefs, rows, h, f)})
                      IN PlaceIn(after, f) = IF n < target THEN n ELSE n + 1,
         NEW f \in S, NEW g \in S
  PROVE Precedes(prefs, rows, f, g) <=> Precedes(after, rows, f, g)
<1> DEFINE n(k) == Cardinality({h \in S : Precedes(prefs, rows, h, k)})
<1>1. S \subseteq FtFolders /\ f \in DOMAIN rows /\ g \in DOMAIN rows
  BY DEF IdsDiffer
<1>2. ASSUME NEW k \in S PROVE n(k) \in Nat /\ PlaceIn(after, k) = IF n(k) < target THEN n(k) ELSE n(k) + 1
  BY <1>1, FolderSetsAreFinite
<1>3. ASSUME NEW k \in S, NEW l \in S, Precedes(prefs, rows, k, l) PROVE n(k) < n(l)
  BY <1>3, FurtherDown
<1> HIDE DEF n
<1>4. ASSUME NEW k \in S, NEW l \in S, Precedes(prefs, rows, k, l) PROVE Precedes(after, rows, k, l)
  <2>1. n(k) < n(l)
    BY <1>3, <1>4
  <2>2. PlaceIn(after, k) < PlaceIn(after, l)
    BY <1>2, <2>1
  <2> QED BY <2>2 DEF Precedes
<1>5. CASE f = g
  BY <1>1, <1>5, OneIsFirst
<1>6. CASE f # g
  BY <1>1, <1>4, <1>6, OneIsFirst
<1> QED BY <1>5, <1>6

\* The steps.

LEMMA PrefOfIs ==
  ASSUME PrefTypes(ftPrefs), NEW f
  PROVE PrefOf(f) \in PrefRecs /\ PrefOf(f).position = PlaceIn(ftPrefs, f)
<1>1. PrefOf(f) \in PrefRecs
  BY DEF PrefTypes, PrefRecs, PrefOf, NoPrefs
<1>2. PrefOf(f).position = PlaceIn(ftPrefs, f)
  BY DEF PrefOf, NoPrefs, PlaceIn
<1> QED BY <1>1, <1>2

LEMMA PositionIsWritten ==
  ASSUME PrefTypes(ftPrefs), NEW f, NEW position \in Int
  PROVE /\ [PrefOf(f) EXCEPT !.position = position] \in PrefRecs
        /\ [PrefOf(f) EXCEPT !.position = position].position = position
<1> DEFINE row == PrefOf(f)
<1>1. row \in PrefRecs
  BY PrefOfIs
<1> HIDE DEF row
<1>2. /\ [row EXCEPT !.position = position] \in PrefRecs
      /\ [row EXCEPT !.position = position].position = position
  BY <1>1 DEF PrefRecs
<1> QED BY <1>2 DEF row

LEMMA HiddenIsWritten ==
  ASSUME PrefTypes(ftPrefs), NEW f, NEW hidden \in BOOLEAN
  PROVE /\ [PrefOf(f) EXCEPT !.hidden = hidden] \in PrefRecs
        /\ [PrefOf(f) EXCEPT !.hidden = hidden].position = PlaceIn(ftPrefs, f)
<1> DEFINE row == PrefOf(f)
<1>1. row \in PrefRecs /\ row.position = PlaceIn(ftPrefs, f)
  BY PrefOfIs
<1> HIDE DEF row
<1>2. /\ [row EXCEPT !.hidden = hidden] \in PrefRecs
      /\ [row EXCEPT !.hidden = hidden].position = row.position
  BY <1>1 DEF PrefRecs
<1> QED BY <1>1, <1>2 DEF row

LEMMA UpsertPlaces ==
  ASSUME NEW prefs, NEW changed, PrefTypes(prefs), \A f \in DOMAIN changed : changed[f] \in PrefRecs
  PROVE /\ PrefTypes(Upsert(prefs, changed))
        /\ \A f : PlaceIn(Upsert(prefs, changed), f) =
                    IF f \in DOMAIN changed THEN changed[f].position ELSE PlaceIn(prefs, f)
<1> DEFINE after == Upsert(prefs, changed)
<1>1. /\ DOMAIN after = DOMAIN prefs \cup DOMAIN changed
      /\ \A f \in DOMAIN after : after[f] = IF f \in DOMAIN changed THEN changed[f] ELSE prefs[f]
  BY DEF Upsert
<1> HIDE DEF after
<1>2. PrefTypes(after)
  BY <1>1 DEF PrefTypes
<1>3. \A f : PlaceIn(after, f) = IF f \in DOMAIN changed THEN changed[f].position ELSE PlaceIn(prefs, f)
  BY <1>1 DEF PlaceIn
<1> QED BY <1>2, <1>3 DEF after

LEMMA PlacedWhere ==
  ASSUME PrefTypes(ftPrefs), NEW place, Placed(place), \A f \in DOMAIN place : place[f] \in Int
  PROVE /\ PrefTypes(ftPrefs')
        /\ \A f : PlaceIn(ftPrefs', f) = IF f \in DOMAIN place THEN place[f] ELSE PlaceIn(ftPrefs, f)
<1> DEFINE changed == [f \in DOMAIN place |-> [PrefOf(f) EXCEPT !.position = place[f]]]
<1>1. ftPrefs' = Upsert(ftPrefs, changed)
  BY DEF Placed
<1>2. DOMAIN changed = DOMAIN place /\ \A f \in DOMAIN place : changed[f] = [PrefOf(f) EXCEPT !.position = place[f]]
  OBVIOUS
<1> HIDE DEF changed
<1>3. \A f \in DOMAIN changed : changed[f] \in PrefRecs /\ changed[f].position = place[f]
  <2> SUFFICES ASSUME NEW f \in DOMAIN place
               PROVE changed[f] \in PrefRecs /\ changed[f].position = place[f]
    BY <1>2
  <2>1. place[f] \in Int
    OBVIOUS
  <2>2. changed[f] = [PrefOf(f) EXCEPT !.position = place[f]]
    BY <1>2
  <2> QED BY <2>1, <2>2, PositionIsWritten
<1> QED BY <1>1, <1>2, <1>3, UpsertPlaces

MovesOne ==
  \E moved \in FtFolders :
    \A f, g \in (ftPresent \cap ftPresent') \ {moved} :
      g \in Siblings(f) => (ShownBefore(f, g) <=> ShownBefore(f, g)')

LEMMA MovesOneIs ==
  ASSUME NEW moved \in FtFolders,
         \A f, g \in (ftPresent \cap ftPresent') \ {moved} :
           g \in Siblings(f) => (Precedes(ftPrefs, ftRows, f, g) <=> Precedes(ftPrefs', ftRows', f, g))
  PROVE MovesOne
<1>1. \A f, g : ShownBefore(f, g) <=> Precedes(ftPrefs, ftRows, f, g)
  BY DEF ShownBefore, Precedes, PositionOf, PlaceIn
<1>2. \A f, g : ShownBefore(f, g)' <=> Precedes(ftPrefs', ftRows', f, g)
  BY DEF ShownBefore, Precedes, PositionOf, PlaceIn
<1> QED BY <1>1, <1>2 DEF MovesOne

LEMMA NothingMoves ==
  ASSUME \A f \in ftPresent \cap ftPresent' :
           PlaceIn(ftPrefs', f) = PlaceIn(ftPrefs, f) /\ ftRows'[f] = ftRows[f]
  PROVE MovesOne
<1>1. FtFolderTab \in FtFolders
  BY FolderTreeAssumption
<1>2. \A f, g \in ftPresent \cap ftPresent' :
        Precedes(ftPrefs, ftRows, f, g) <=> Precedes(ftPrefs', ftRows', f, g)
  BY DEF Precedes
<1> QED BY <1>1, <1>2, MovesOneIs

LEMMA PlaceAmongIs ==
  ASSUME TreeInv, NEW f, NEW S, S \subseteq ftPresent
  PROVE /\ PlaceAmong(f, S) \in Nat
        /\ PlaceAmong(f, S) = Cardinality({h \in S : Precedes(ftPrefs, ftRows, h, f)})
<1>1. {g \in S : ShownBefore(g, f)} \subseteq FtFolders
  BY DEF TreeInv, IdsDiffer
<1>2. \A g : ShownBefore(g, f) <=> Precedes(ftPrefs, ftRows, g, f)
  BY DEF ShownBefore, Precedes, PositionOf, PlaceIn
<1>3. {g \in S : ShownBefore(g, f)} = {h \in S : Precedes(ftPrefs, ftRows, h, f)}
  BY <1>2
<1> QED BY <1>1, <1>3, FolderSetsAreFinite DEF PlaceAmong

\* The user hides a folder, shows it again, expands or renames it.
LEMMA RowsRewritten == ASSUME TreeInv, HideFolder \/ UnhideFolder \/ CustomiseFolder PROVE TreeInv' /\ MovesOne
<1>1. \E f \in FtFolders : \/ \E hidden \in BOOLEAN : SetHidden(f, hidden)
                             \/ ftPrefs' = Upsert(ftPrefs, [g \in {f} |-> PrefOf(g)])
  BY DEF HideFolder, UnhideFolder, CustomiseFolder
<1>2. UNCHANGED <<ftDisk, ftRows, ftPresent, ftStaged, ftAsked>>
  BY DEF HideFolder, UnhideFolder, CustomiseFolder, EditsTree, FtEdit, ftScan
<1>3. PrefTypes(ftPrefs)
  BY DEF TreeInv
<1>4. PICK f \in FtFolders, row \in PrefRecs :
        ftPrefs' = Upsert(ftPrefs, [g \in {f} |-> row]) /\ row.position = PlaceIn(ftPrefs, f)
  <2>1. CASE \E f \in FtFolders : \E hidden \in BOOLEAN : SetHidden(f, hidden)
    <3>1. PICK f \in FtFolders : \E hidden \in BOOLEAN : SetHidden(f, hidden)
      BY <2>1
    <3>2. PICK hidden \in BOOLEAN : SetHidden(f, hidden)
      BY <3>1
    <3> DEFINE row == [PrefOf(f) EXCEPT !.hidden = hidden]
    <3>3. row \in PrefRecs /\ row.position = PlaceIn(ftPrefs, f)
      BY <1>3, HiddenIsWritten
    <3>4. [g \in {f} |-> [PrefOf(g) EXCEPT !.hidden = hidden]] = [g \in {f} |-> row]
      OBVIOUS
    <3>5. ftPrefs' = Upsert(ftPrefs, [g \in {f} |-> row])
      BY <3>2, <3>4 DEF SetHidden
    <3> HIDE DEF row
    <3> QED BY <3>3, <3>5
  <2>2. CASE \E f \in FtFolders : ftPrefs' = Upsert(ftPrefs, [g \in {f} |-> PrefOf(g)])
    <3>1. PICK f \in FtFolders : ftPrefs' = Upsert(ftPrefs, [g \in {f} |-> PrefOf(g)])
      BY <2>2
    <3> DEFINE row == PrefOf(f)
    <3>2. row \in PrefRecs /\ row.position = PlaceIn(ftPrefs, f)
      BY <1>3, PrefOfIs
    <3>3. [g \in {f} |-> PrefOf(g)] = [g \in {f} |-> row]
      OBVIOUS
    <3>4. ftPrefs' = Upsert(ftPrefs, [g \in {f} |-> row])
      BY <3>1, <3>3
    <3> HIDE DEF row
    <3> QED BY <3>2, <3>4
  <2> QED BY <1>1, <2>1, <2>2
<1> DEFINE changed == [g \in {f} |-> row]
<1>5. DOMAIN changed = {f} /\ changed[f] = row /\ ftPrefs' = Upsert(ftPrefs, changed)
  BY <1>4
<1> HIDE DEF changed
<1>6. PrefTypes(ftPrefs') /\ \A g : PlaceIn(ftPrefs', g) = PlaceIn(ftPrefs, g)
  BY <1>3, <1>4, <1>5, UpsertPlaces
<1>7. MovesOne
  BY <1>2, <1>6, NothingMoves
<1> QED BY <1>2, <1>6, <1>7 DEF TreeInv

\* Move Up and Move Down: two folders change places.
LEMMA RowsSwapped == ASSUME TreeInv, MoveFolder PROVE TreeInv'
<1>1. PICK f \in FtFolders, g \in FtFolders :
        Placed([h \in {f, g} |-> IF h = f THEN PlaceAmong(g, Siblings(f)) ELSE PlaceAmong(f, Siblings(f))])
  BY DEF MoveFolder, Siblings, TreeInv, IdsDiffer
<1> DEFINE place == [h \in {f, g} |-> IF h = f THEN PlaceAmong(g, Siblings(f)) ELSE PlaceAmong(f, Siblings(f))]
<1>2. Siblings(f) \subseteq ftPresent
  BY DEF Siblings
<1>3. \A h \in DOMAIN place : place[h] \in Int
  <2>1. PlaceAmong(g, Siblings(f)) \in Nat /\ PlaceAmong(f, Siblings(f)) \in Nat
    BY <1>2, PlaceAmongIs
  <2> QED BY <2>1
<1>4. Placed(place)
  BY <1>1
<1> HIDE DEF place
<1>5. PrefTypes(ftPrefs')
  BY <1>3, <1>4, PlacedWhere DEF TreeInv
<1>6. UNCHANGED <<ftDisk, ftRows, ftPresent, ftStaged, ftAsked>>
  BY DEF MoveFolder, EditsTree, FtEdit, ftScan
<1> QED BY <1>5, <1>6 DEF TreeInv

\* A drop writes the places of all siblings.
LEMMA RowsShifted == ASSUME TreeInv, ReorderFolder PROVE TreeInv' /\ MovesOne
<1>1. UNCHANGED <<ftDisk, ftRows, ftPresent, ftStaged>> /\ ftAsked' = NotAsked
  BY DEF ReorderFolder, ftScan
<1>2. CASE ftPrefs' = ftPrefs
  <2>1. MovesOne
    BY <1>1, <1>2, NothingMoves
  <2> QED BY <1>1, <1>2, <2>1 DEF TreeInv, NotAsked
<1>3. CASE ftAsked.folder \in ftPresent /\ PlacesShifted(ftAsked.folder, ftAsked.place)
  <2> DEFINE moved == ftAsked.folder
             siblings == Siblings(moved)
             others == siblings \ {moved}
             last == Cardinality(siblings) - 1
             target == IF ftAsked.place < last THEN ftAsked.place ELSE last
             n(g) == PlaceAmong(g, others)
             place == [g \in siblings |-> IF g = moved THEN target ELSE IF n(g) < target THEN n(g) ELSE n(g) + 1]
  <2>1. Placed(place)
    BY <1>3 DEF PlacesShifted
  <2>2. siblings \subseteq ftPresent /\ others \subseteq ftPresent /\ ftPresent \subseteq DOMAIN ftRows
        /\ ftPresent \subseteq FtFolders
    BY DEF Siblings, TreeInv, IdsDiffer
  <2>3. target \in Int
    <3>1. Cardinality(siblings) \in Nat
      BY <2>2, FolderSetsAreFinite
    <3>2. ftAsked.place \in Int
      BY DEF ReorderFolder, TreeInv
    <3> QED BY <3>1, <3>2
  <2>4. \A g : n(g) \in Nat /\ n(g) = Cardinality({h \in others : Precedes(ftPrefs, ftRows, h, g)})
    BY <2>2, PlaceAmongIs
  <2>5. DOMAIN place = siblings
    OBVIOUS
  <2>6. \A g \in siblings : place[g] = IF g = moved THEN target ELSE IF n(g) < target THEN n(g) ELSE n(g) + 1
    OBVIOUS
  <2>7. \A g : g \in others <=> g \in siblings /\ g # moved
    OBVIOUS
  <2>8. moved \in FtFolders
    BY <1>3, <2>2
  <2>9. \A f, g \in ftPresent : g \in Siblings(f) => (f \in siblings <=> g \in siblings)
    BY DEF Siblings
  <2> HIDE DEF place, target, n, others, siblings, moved
  <2>10. \A g \in DOMAIN place : place[g] \in Int
    BY <2>3, <2>4, <2>5, <2>6
  <2>11. PrefTypes(ftPrefs') /\ \A f : PlaceIn(ftPrefs', f) = IF f \in siblings THEN place[f] ELSE PlaceIn(ftPrefs, f)
    BY <2>1, <2>5, <2>10, PlacedWhere DEF TreeInv
  <2>12. \A f \in others :
           LET k == Cardinality({h \in others : Precedes(ftPrefs, ftRows, h, f)})
           IN PlaceIn(ftPrefs', f) = IF k < target THEN k ELSE k + 1
    BY <2>4, <2>6, <2>7, <2>11
  <2>13. \A f, g \in others : Precedes(ftPrefs, ftRows, f, g) <=> Precedes(ftPrefs', ftRows, f, g)
    <3>1. others \subseteq DOMAIN ftRows
      BY <2>2
    <3>2. PrefTypes(ftPrefs) /\ IdsDiffer(ftRows)
      BY DEF TreeInv
    <3>3. PrefTypes(ftPrefs')
      BY <2>11
    <3> QED BY <2>3, <2>12, <3>1, <3>2, <3>3, OthersKeepTheirOrder
  <2>14. \A f, g \in ftPresent : f \notin siblings /\ g \notin siblings =>
           (Precedes(ftPrefs, ftRows, f, g) <=> Precedes(ftPrefs', ftRows, f, g))
    BY <2>11 DEF Precedes
  <2>15. \A f, g \in (ftPresent \cap ftPresent') \ {moved} :
           g \in Siblings(f) => (Precedes(ftPrefs, ftRows, f, g) <=> Precedes(ftPrefs', ftRows', f, g))
    BY <1>1, <2>7, <2>9, <2>13, <2>14
  <2>16. MovesOne
    BY <2>8, <2>15, MovesOneIs
  <2> QED BY <1>1, <2>11, <2>16 DEF TreeInv, NotAsked
<1> QED BY <1>2, <1>3 DEF ReorderFolder

\* The places that a drop reads are numbers.
LEMMA DropAsked == ASSUME TreeInv, DropBetween PROVE TreeInv'
<1>1. UNCHANGED <<ftDisk, ftPrefs, ftRows, ftPresent, ftStaged>>
  BY DEF DropBetween, EditsTree, FtEdit, ftScan, ftTree
<1>2. PICK f \in FtFolders, g \in FtFolders, after \in BOOLEAN :
        LET place(h) == PlaceAmong(h, {k \in Siblings(f) : Shown(k)})
            raw == IF after THEN place(g) + 1 ELSE place(g)
        IN ftAsked' = [kind |-> "reorder", folder |-> f, place |-> IF place(f) < raw THEN raw - 1 ELSE raw]
  BY DEF DropBetween
<1> DEFINE place(h) == PlaceAmong(h, {k \in Siblings(f) : Shown(k)})
           raw == IF after THEN place(g) + 1 ELSE place(g)
<1>3. ftAsked' = [kind |-> "reorder", folder |-> f, place |-> IF place(f) < raw THEN raw - 1 ELSE raw]
  BY <1>2
<1>4. {k \in Siblings(f) : Shown(k)} \subseteq ftPresent
  BY DEF Siblings
<1>5. place(f) \in Nat /\ place(g) \in Nat
  BY <1>4, PlaceAmongIs
<1> HIDE DEF place
<1>6. (IF place(f) < raw THEN raw - 1 ELSE raw) \in Int
  BY <1>5
<1>7. ftAsked'.place \in Int
  BY <1>3, <1>6
<1> QED BY <1>1, <1>7 DEF TreeInv

LEMMA MaxIsLast ==
  ASSUME NEW S \in SUBSET Nat, S # {}, NEW last \in Nat, \A n \in S : n <= last
  PROVE Max(S) \in Nat /\ \A n \in S : n <= Max(S)
<1> DEFINE bounds == {b \in Nat : \A n \in S : n <= b}
<1>1. PICK b \in bounds : \A d \in bounds : b <= d
  <2>1. bounds \in SUBSET Nat /\ bounds # {}
    OBVIOUS
  <2> QED BY <2>1, LeastExists
<1>2. b \in S
  <2> SUFFICES ASSUME b \notin S PROVE FALSE
    OBVIOUS
  <2>1. PICK n \in S : TRUE
    OBVIOUS
  <2>2. \A m \in S : m \in Nat /\ m <= b /\ m # b
    OBVIOUS
  <2>3. b - 1 \in Nat
    BY <2>1, <2>2
  <2>4. \A m \in S : m <= b - 1
    BY <2>2
  <2>5. b - 1 \in bounds
    BY <2>3, <2>4
  <2> QED BY <1>1, <2>5
<1>3. \E x \in S : \A y \in S : x >= y
  BY <1>2
<1> HIDE DEF bounds
<1>4. Max(S) \in S /\ \A y \in S : Max(S) >= y
  BY <1>3 DEF Max
<1> QED BY <1>4

\* Of two folders that a file is in, one lies deeper.
LEMMA Deeper ==
  ASSUME NEW f \in FtFolders, NEW g \in FtFolders, f \in FtAbove[g], f # g
  PROVE Cardinality(FtAbove[f]) < Cardinality(FtAbove[g])
<1>1. FtAbove[f] \subseteq FtAbove[g] /\ g \in FtAbove[g] /\ g \notin FtAbove[f] /\ FtAbove[g] \subseteq FtFolders
  BY FolderTreeAssumption
<1> QED BY <1>1, SmallerSets

\* Folders that get rows get ids of their own.
LEMMA EnsuredIds ==
  ASSUME IdsDiffer(ftRows), NEW s \in FtSounds
  PROVE LET rows == FoldersEnsured(FtFolderOf[s])
        IN /\ IdsDiffer(rows) /\ DOMAIN rows = DOMAIN ftRows \cup FtFolderOf[s]
           /\ \A f \in DOMAIN ftRows : rows[f] = ftRows[f]
<1> DEFINE new == FtFolderOf[s] \ DOMAIN ftRows
           last == IF ftRows = NoRows THEN 0 ELSE Max(Range(ftRows))
           after(f) == {g \in new : Cardinality(FtAbove[g]) <= Cardinality(FtAbove[f])}
           n(f) == Cardinality(after(f))
           rows == FoldersEnsured(FtFolderOf[s])
<1>1. /\ DOMAIN rows = DOMAIN ftRows \cup new
      /\ \A f \in DOMAIN rows : rows[f] = IF f \in new THEN last + n(f) ELSE ftRows[f]
      /\ rows = [f \in DOMAIN rows |-> rows[f]]
  BY DEF FoldersEnsured
<1>2. last \in Nat /\ \A f \in DOMAIN ftRows : ftRows[f] <= last
  <2>1. CASE ftRows = NoRows
    BY <2>1 DEF NoRows
  <2>2. CASE ftRows # NoRows
    <3>1. ftRows \in [DOMAIN ftRows -> Nat \ {0}]
      BY DEF IdsDiffer
    <3>2. DOMAIN ftRows # {}
      BY <2>2, <3>1 DEF NoRows
    <3>3. Range(ftRows) \in SUBSET Nat /\ Range(ftRows) # {} /\ \A f \in DOMAIN ftRows : ftRows[f] \in Range(ftRows)
      BY <3>1, <3>2 DEF Range
    <3>4. PICK b \in Nat : \A f \in DOMAIN ftRows : ftRows[f] <= b
      BY DEF IdsDiffer
    <3>5. \A i \in Range(ftRows) : i <= b
      BY <3>4 DEF Range
    <3>6. Max(Range(ftRows)) \in Nat /\ \A i \in Range(ftRows) : i <= Max(Range(ftRows))
      BY <3>3, <3>5, MaxIsLast
    <3> QED BY <2>2, <3>3, <3>6
  <2> QED BY <2>1, <2>2
<1>3. FtFolderOf[s] \subseteq FtFolders /\ new \subseteq FtFolders
  BY FolderTreeAssumption
<1>4. \A f \in new : Cardinality(FtAbove[f]) \in Nat
  BY <1>3, FolderTreeAssumption, FolderSetsAreFinite
<1>5. ASSUME NEW f \in new PROVE n(f) \in Nat \ {0} /\ n(f) <= Cardinality(FtFolders)
  <2>1. f \in after(f) /\ after(f) \subseteq FtFolders
    BY <1>3, <1>4
  <2> HIDE DEF after
  <2>2. Cardinality({}) < Cardinality(after(f)) /\ Cardinality({}) = 0
    BY <2>1, SmallerSets, FS_EmptySet
  <2>3. Cardinality(after(f)) \in Nat
    BY <2>1, FolderSetsAreFinite
  <2>4. Cardinality(after(f)) <= Cardinality(FtFolders)
    BY <2>1, FolderTreeAssumption, FS_Subset
  <2> QED BY <2>2, <2>3, <2>4
<1>6. ASSUME NEW f \in new, NEW g \in new, f \in FtAbove[g], f # g PROVE n(f) < n(g)
  <2>1. Cardinality(FtAbove[f]) < Cardinality(FtAbove[g])
    BY <1>3, <1>6, Deeper
  <2>2. after(f) \subseteq after(g) /\ g \in after(g) /\ g \notin after(f) /\ after(g) \subseteq FtFolders
    BY <1>3, <1>4, <2>1
  <2> HIDE DEF after
  <2> QED BY <2>2, SmallerSets
<1>7. \A f, g \in new : f \in FtAbove[g] \/ g \in FtAbove[f]
  BY FolderTreeAssumption
<1> HIDE DEF last, n, rows
<1>8. ASSUME NEW f \in new, NEW g \in new, f # g PROVE n(f) # n(g)
  <2>1. n(f) \in Nat /\ n(g) \in Nat
    BY <1>5
  <2>2. n(f) < n(g) \/ n(g) < n(f)
    BY <1>6, <1>7, <1>8
  <2> QED BY <2>1, <2>2
<1>9. Cardinality(FtFolders) \in Nat
  BY FolderSetsAreFinite
<1> HIDE DEF new
<1>10. DOMAIN ftRows \cap new = {} /\ DOMAIN rows = DOMAIN ftRows \cup FtFolderOf[s] /\ new \subseteq FtFolders
  BY <1>1, <1>3 DEF new
<1>11. \A f \in DOMAIN ftRows : ftRows[f] \in Nat \ {0}
  BY DEF IdsDiffer
<1>12. \A f \in DOMAIN rows : rows[f] \in Nat \ {0} /\ rows[f] <= last + Cardinality(FtFolders)
  BY <1>1, <1>2, <1>5, <1>9, <1>10, <1>11
<1>13. \A f, g \in DOMAIN rows : rows[f] = rows[g] => f = g
  <2> SUFFICES ASSUME NEW f \in DOMAIN rows, NEW g \in DOMAIN rows, f # g PROVE rows[f] # rows[g]
    OBVIOUS
  <2>1. CASE f \in new /\ g \in new
    BY <1>1, <1>2, <1>5, <1>8, <2>1
  <2>2. CASE f \notin new /\ g \notin new
    BY <1>1, <2>2 DEF IdsDiffer
  <2>3. CASE f \in new /\ g \notin new
    BY <1>1, <1>2, <1>5, <1>11, <2>3
  <2>4. CASE f \notin new /\ g \in new
    BY <1>1, <1>2, <1>5, <1>11, <2>4
  <2> QED BY <2>1, <2>2, <2>3, <2>4
<1>14. DOMAIN rows \subseteq FtFolders
  BY <1>1, <1>10 DEF IdsDiffer
<1>15. rows \in [DOMAIN rows -> Nat \ {0}]
  BY <1>1, <1>12
<1>16. last + Cardinality(FtFolders) \in Nat
  BY <1>2, <1>9
<1>17. IdsDiffer(rows)
  BY <1>12, <1>13, <1>14, <1>15, <1>16 DEF IdsDiffer
<1> QED BY <1>1, <1>10, <1>17 DEF rows

LEMMA Staging == ASSUME TreeInv, FtStage PROVE TreeInv' /\ MovesOne
<1>1. PICK s \in ftDisk :
        /\ ftRows' = FoldersEnsured(FtFolderOf[s])
        /\ ftStaged'.folders = ftStaged.folders \cup FtFolderOf[s]
  BY DEF FtStage
<1>2. UNCHANGED <<ftDisk, ftPrefs, ftPresent, ftAsked>>
  BY DEF FtStage, PrefsAfterScan, KeepPrefs
<1>3. s \in FtSounds /\ IdsDiffer(ftRows)
  BY DEF TreeInv
<1>4. /\ IdsDiffer(ftRows') /\ DOMAIN ftRows' = DOMAIN ftRows \cup FtFolderOf[s]
      /\ \A f \in DOMAIN ftRows : ftRows'[f] = ftRows[f]
  BY <1>1, <1>3, EnsuredIds
<1>5. MovesOne
  BY <1>2, <1>4, NothingMoves DEF TreeInv
<1> QED BY <1>1, <1>2, <1>4, <1>5 DEF TreeInv

LEMMA RestrictedRows ==
  ASSUME NEW rows, NEW found
  PROVE /\ DOMAIN Restrict(rows, DOMAIN rows \cap found) = DOMAIN rows \cap found
        /\ \A f \in DOMAIN rows \cap found : Restrict(rows, DOMAIN rows \cap found)[f] = rows[f]
        /\ Restrict(rows, DOMAIN rows \cap found) = [f \in DOMAIN rows \cap found |-> rows[f]]
BY DEF Restrict

\* A published scan drops the rows of the folders it did not find.
LEMMA Publishing == ASSUME TreeInv, FtFinish PROVE TreeInv' /\ (DOMAIN ftLegacy = {} => MovesOne)
<1>1. UNCHANGED <<ftDisk, ftAsked>>
  BY DEF FtFinish
<1>2. CASE UNCHANGED <<ftPrefs, ftRows, ftPresent, ftStaged>>
  <2>1. MovesOne
    BY <1>2, NothingMoves
  <2> QED BY <1>1, <1>2, <2>1 DEF TreeInv
<1>3. CASE /\ ftPrefs' = Restrict(LegacyPrefs, DOMAIN LegacyPrefs \cap ftStaged.folders)
           /\ ftRows' = Restrict(ftRows, DOMAIN ftRows \cap ftStaged.folders)
           /\ ftPresent' = ftStaged.folders /\ ftStaged' = NothingStaged
  <2> DEFINE folders == {ftLegacy[t].folder : t \in Reconciled}
             changed == [f \in folders |-> [PrefOf(f) EXCEPT !.position = 1]]
             prefs == Upsert(ftPrefs, changed)
             found == ftStaged.folders
  <2>1. LegacyPrefs = prefs
    BY DEF LegacyPrefs
  <2>2. DOMAIN changed = folders /\ \A f \in folders : changed[f] = [PrefOf(f) EXCEPT !.position = 1]
    OBVIOUS
  <2>3. DOMAIN ftLegacy = {} => folders = {}
    BY DEF Reconciled
  <2> HIDE DEF folders, changed
  <2>4. PrefTypes(ftPrefs)
    BY DEF TreeInv
  <2>5. \A f \in DOMAIN changed : changed[f] \in PrefRecs
    <3> SUFFICES ASSUME NEW f \in DOMAIN changed PROVE changed[f] \in PrefRecs
      OBVIOUS
    <3>1. [PrefOf(f) EXCEPT !.position = 1] \in PrefRecs
      BY <2>4, PositionIsWritten
    <3> QED BY <2>2, <3>1
  <2>6. PrefTypes(prefs) /\ (DOMAIN ftLegacy = {} => \A f : PlaceIn(prefs, f) = PlaceIn(ftPrefs, f))
    BY <2>2, <2>3, <2>4, <2>5, UpsertPlaces
  <2> HIDE DEF prefs, found
  <2>7. DOMAIN ftPrefs' = DOMAIN prefs \cap found /\ \A f \in DOMAIN ftPrefs' : ftPrefs'[f] = prefs[f]
    <3>1. ftPrefs' = Restrict(prefs, DOMAIN prefs \cap found)
      BY <1>3, <2>1 DEF found
    <3> QED BY <3>1 DEF Restrict
  <2>8. PrefTypes(ftPrefs') /\ \A f \in found : PlaceIn(ftPrefs', f) = PlaceIn(prefs, f)
    BY <2>6, <2>7 DEF PrefTypes, PlaceIn
  <2>9. /\ DOMAIN ftRows' = DOMAIN ftRows \cap found /\ \A f \in DOMAIN ftRows' : ftRows'[f] = ftRows[f]
        /\ ftRows' = [f \in DOMAIN ftRows \cap found |-> ftRows[f]]
    <3>1. ftRows' = Restrict(ftRows, DOMAIN ftRows \cap found)
      BY <1>3 DEF found
    <3> QED BY <3>1 DEF Restrict
  <2>10. IdsDiffer(ftRows')
    <3>1. IdsDiffer(ftRows)
      BY DEF TreeInv
    <3>2. PICK b \in Nat : \A f \in DOMAIN ftRows : ftRows[f] <= b
      BY <3>1 DEF IdsDiffer
    <3>3. \A f \in DOMAIN ftRows' : ftRows'[f] <= b
      BY <2>9, <3>2
    <3> QED BY <2>9, <3>1, <3>3 DEF IdsDiffer
  <2>11. ftPresent' = found /\ ftStaged'.folders = {} /\ found \subseteq DOMAIN ftRows
    BY <1>3 DEF NothingStaged, found, TreeInv
  <2>12. DOMAIN ftLegacy = {} => MovesOne
    BY <2>6, <2>8, <2>9, <2>11, NothingMoves
  <2> QED BY <1>1, <2>8, <2>9, <2>10, <2>11, <2>12 DEF TreeInv
<1> QED BY <1>2, <1>3 DEF FtFinish, ftTree

LEMMA TreeStep ==
  ASSUME TreeInv, [FtNext]_ftVars
  PROVE TreeInv' /\ (<<ftPrefs, ftRows>>' # <<ftPrefs, ftRows>> => MovesOne \/ DOMAIN ftLegacy # {} \/ MoveFolder)
<1>1. CASE HideFolder \/ UnhideFolder \/ CustomiseFolder
  BY <1>1, RowsRewritten
<1>2. CASE MoveFolder
  BY <1>2, RowsSwapped
<1>3. CASE ReorderFolder
  BY <1>3, RowsShifted
<1>4. CASE FtStage
  BY <1>4, Staging
<1>5. CASE FtFinish
  BY <1>5, Publishing
<1>6. CASE DropBetween
  <2>1. UNCHANGED <<ftPrefs, ftRows>>
    BY <1>6 DEF DropBetween, EditsTree, ftScan, ftTree
  <2> QED BY <1>6, <2>1, DropAsked
<1>7. CASE /\ UNCHANGED <<ftPrefs, ftRows, ftPresent>> /\ ftDisk' \subseteq FtSounds
           /\ ftStaged' = ftStaged \/ ftStaged' = NothingStaged
           /\ ftAsked' = ftAsked \/ ftAsked'.kind # "reorder"
  BY <1>7 DEF TreeInv, NothingStaged
<1>8. CASE FtBegin \/ FtCancel \/ DiskChanges
  <2>1. /\ UNCHANGED <<ftPrefs, ftRows, ftPresent, ftAsked>>
        /\ ftStaged' = ftStaged \/ ftStaged' = NothingStaged
        /\ ftDisk' \subseteq FtSounds
    BY <1>8 DEF FtBegin, FtCancel, DiskChanges, ftTree, ftScan, TreeInv
  <2> QED BY <1>7, <2>1
<1>9. CASE DropInto \/ CombineFolders \/ Dismiss
  <2>1. UNCHANGED <<ftPrefs, ftRows, ftPresent, ftStaged, ftDisk>>
    BY <1>9 DEF DropInto, CombineFolders, Dismiss, EditsTree, FtEdit, ftTree, ftScan
  <2>2. ftAsked'.kind # "reorder"
    BY <1>9 DEF DropInto, CombineFolders, Dismiss, NotAsked
  <2> QED BY <1>7, <2>1, <2>2 DEF TreeInv
<1>10. CASE AddToTab \/ RemoveFromTab \/ DeleteTab
  <2>1. \E tabs : EditsTabs(tabs)
    BY <1>10 DEF AddToTab, RemoveFromTab, DeleteTab
  <2>2. UNCHANGED <<ftPrefs, ftRows, ftPresent, ftStaged, ftDisk, ftAsked>>
    BY <2>1 DEF EditsTabs, FtEdit, ftTree, ftScan
  <2> QED BY <1>7, <2>2 DEF TreeInv
<1>11. CASE RemoveRoot
  <2>1. /\ DOMAIN ftPrefs' = {} /\ ftRows' = NoRows /\ ftPresent' = {} /\ ftStaged'.folders = {}
        /\ UNCHANGED <<ftAsked, ftDisk>>
    BY <1>11 DEF RemoveRoot, FtEdit, NoRows, NothingStaged
  <2>2. IdsDiffer(NoRows)
    BY DEF IdsDiffer, NoRows
  <2>3. MovesOne
    BY <2>1, NothingMoves
  <2> QED BY <2>1, <2>2, <2>3 DEF TreeInv, PrefTypes
<1>12. CASE UNCHANGED ftVars
  <2>1. UNCHANGED <<ftPrefs, ftRows, ftPresent, ftStaged, ftDisk, ftAsked>>
    BY <1>12 DEF ftVars, ftTree, ftScan
  <2> QED BY <1>7, <2>1 DEF TreeInv
<1> QED BY <1>1, <1>2, <1>3, <1>4, <1>5, <1>6, <1>8, <1>9, <1>10, <1>11, <1>12 DEF FtNext

\* Whatever the folders, in whatever order they are dropped, hidden and scanned.
THEOREM DropsMoveOneFolder == FtSpec => OneFolderMovesAtATime
<1>1. FtInit => TreeInv
  <2> SUFFICES ASSUME FtInit PROVE TreeInv
    OBVIOUS
  <2>1. /\ ftDisk \subseteq FtSounds /\ DOMAIN ftPrefs = {} /\ ftRows = NoRows /\ ftPresent = {}
        /\ ftStaged.folders = {} /\ ftAsked.kind = "nothing"
    BY DEF FtInit, NoRows, NothingStaged, NotAsked
  <2>2. IdsDiffer(NoRows)
    BY DEF IdsDiffer, NoRows
  <2> QED BY <2>1, <2>2 DEF TreeInv, PrefTypes
<1>2. TreeInv /\ [FtNext]_ftVars => TreeInv'
  BY TreeStep
<1>3. TreeInv /\ [FtNext]_ftVars =>
        [<<ftPrefs, ftRows>>' # <<ftPrefs, ftRows>> =>
           \/ \E moved \in FtFolders :
                \A f, g \in (ftPresent \cap ftPresent') \ {moved} :
                  g \in Siblings(f) => (ShownBefore(f, g) <=> ShownBefore(f, g)')
           \/ DOMAIN ftLegacy # {}
           \/ MoveFolder]_ftVars
  BY TreeStep DEF MovesOne
<1> QED BY <1>1, <1>2, <1>3, PTL DEF FtSpec, OneFolderMovesAtATime

-----------------------------------------------------------------------------
(***************************************************************************)
(* StoreSchema.                                                            *)
(*                                                                         *)
(* The library that is open has the latest schema and every hotkey, for    *)
(* any number of openers, sounds and keys. First what each statement and   *)
(* each migration makes of a file, statement by statement; a migration     *)
(* that comes late fails at a table or an index that is there. Then who    *)
(* still migrates is not ahead of the file, and who is past it has the     *)
(* latest.                                                                 *)
(***************************************************************************)

\* What the program of each version leaves in a file: its tables and its indexes.
TablesOf(v) ==
  CASE v = 0 -> {}
    [] v = 1 -> {"meta", "hotkey_column"}
    [] v = 2 -> {"meta", "hotkey_bindings"}
    [] v = 3 -> {"meta", "hotkey_bindings", "legacy_generated_tabs"}
    [] OTHER -> {"meta", "hotkey_bindings", "legacy_generated_tabs", "hidden_column"}
OnBindings(names) == {[name |-> i, on |-> "hotkey_bindings"] : i \in names}
IndexesOf(v) ==
  CASE v = 0 -> {}
    [] v = 1 -> {[name |-> "sounds_hotkey", on |-> "hotkey_column"]}
    [] v \in 2 .. 4 -> {[name |-> "active_normalized", on |-> "hotkey_bindings"]}
    [] v = 5 -> {[name |-> "active_lookup", on |-> "hotkey_bindings"],
                 [name |-> "target_tab", on |-> "hotkey_bindings"]}
    [] OTHER -> {[name |-> "active_lookup", on |-> "hotkey_bindings"],
                 [name |-> "sound_scope", on |-> "hotkey_bindings"],
                 [name |-> "target_tab", on |-> "hotkey_bindings"]}

File(v, id, tables, indexes, hotkeys) ==
  [version |-> v, flavor |-> v, id |-> id, tables |-> tables, indexes |-> indexes, hotkeys |-> hotkeys]
Schema(v, id, hotkeys) == File(v, id, TablesOf(v), IndexesOf(v), hotkeys)

Unscoped(hotkeys) == {[b EXCEPT !.scope = SsNone] : b \in hotkeys}

-----------------------------------------------------------------------------
(* What each statement does to a file. *)

LEMMA TableIsMade ==
  ASSUME NEW v, NEW id, NEW T, NEW I, NEW H, NEW t, t \notin T
  PROVE Then(Begun(File(v, id, T, I, H)), Table(t)) = Begun(File(v, id, T \cup {t}, I, H))
BY DEF Then, Begun, File, Table, Runs, Run

LEMMA TableIsDropped ==
  ASSUME NEW v, NEW id, NEW T, NEW I, NEW H, NEW t, t \in T
  PROVE Then(Begun(File(v, id, T, I, H)), DropTable(t))
          = Begun(File(v, id, T \ {t}, {i \in I : i.on # t}, H))
BY DEF Then, Begun, File, DropTable, Runs, Run

LEMMA TableIsRenamed ==
  ASSUME NEW v, NEW id, NEW T, NEW I, NEW H, NEW t, NEW u, t \in T, u \notin T
  PROVE Then(Begun(File(v, id, T, I, H)), Rename(t, u))
          = Begun(File(v, id, (T \ {t}) \cup {u}, {IF i.on = t THEN [i EXCEPT !.on = u] ELSE i : i \in I}, H))
BY DEF Then, Begun, File, Rename, Runs, Run

LEMMA IndexIsMade ==
  ASSUME NEW v, NEW id, NEW T, NEW I, NEW H, NEW i, NEW t, t \in T, \A j \in I : j.name # i
  PROVE Then(Begun(File(v, id, T, I, H)), Index(i, t))
          = Begun(File(v, id, T, I \cup {[name |-> i, on |-> t]}, H))
BY DEF Then, Begun, File, Index, Runs, Run, IndexNames

LEMMA IndexIsDropped ==
  ASSUME NEW v, NEW id, NEW T, NEW I, NEW H, NEW i, \E j \in I : j.name = i
  PROVE Then(Begun(File(v, id, T, I, H)), DropIndex(i))
          = Begun(File(v, id, T, {j \in I : j.name # i}, H))
BY DEF Then, Begun, File, DropIndex, Runs, Run, IndexNames

LEMMA HotkeysAreCopied ==
  ASSUME NEW v, NEW id, NEW T, NEW I, NEW H
  PROVE /\ Then(Begun(File(v, id, T, I, H)), Copy("column")) = Begun(File(v, id, T, I, AsSet))
        /\ Then(Begun(File(v, id, T, I, H)), Copy("unscoped")) = Begun(File(v, id, T, I, Unscoped(H)))
        /\ Then(Begun(File(v, id, T, I, H)), Copy("all")) = Begun(File(v, id, T, I, H))
BY DEF Then, Begun, File, Copy, Runs, Run, Copied, Unscoped

LEMMA VersionIsSet ==
  ASSUME NEW v, NEW id, NEW T, NEW I, NEW H, NEW w
  PROVE Then(Begun(File(v, id, T, I, H)), SetVersion(w)) = Begun(File(w, id, T, I, H))
BY DEF Then, Begun, File, SetVersion, Runs, Run

\* A statement that cannot run, and those after it.
LEMMA StatementFails ==
  ASSUME NEW v, NEW id, NEW T, NEW I, NEW H
  PROVE /\ \A t \in T : ~Then(Begun(File(v, id, T, I, H)), Table(t)).ok
        /\ \A i, t : (\E j \in I : j.name = i) => ~Then(Begun(File(v, id, T, I, H)), Index(i, t)).ok
BY DEF Then, Begun, File, Table, Index, Runs, IndexNames

LEMMA TransactionFails ==
  ASSUME NEW done, NEW s, ~done.ok
  PROVE ~Then(done, s).ok
BY DEF Then

LEMMA OneToTwoIs ==
  ASSUME NEW id, NEW H
  PROVE OneToTwo(Schema(1, id, H)) = Begun(Schema(2, id, AsSet))
<1>1. PICK t0, i0, d0 : t0 = {"meta", "hotkey_column"} /\ i0 = {[name |-> "sounds_hotkey", on |-> "hotkey_column"]} /\ d0 = Begun(File(1, id, t0, i0, H))
  OBVIOUS
<1>2. PICK t1 : t1 = {"meta", "hotkey_column", "hotkey_bindings"}
  OBVIOUS
<1>3. "hotkey_bindings" \notin t0 /\ t1 = t0 \cup {"hotkey_bindings"}
  BY <1>1, <1>2
<1>4. PICK d1 : d1 = Then(d0, Table("hotkey_bindings"))
  OBVIOUS
<1>5. d1 = Begun(File(1, id, t1, i0, H))
  BY <1>3, <1>1, <1>4, TableIsMade
<1>6. PICK d2 : d2 = Then(d1, Copy("column"))
  OBVIOUS
<1>7. d2 = Begun(File(1, id, t1, i0, AsSet))
  BY <1>5, <1>6, HotkeysAreCopied
<1>8. "hotkey_bindings" \in t1
  BY <1>2
<1>9. PICK i3 : i3 = {[name |-> "sounds_hotkey", on |-> "hotkey_column"], [name |-> "active_normalized", on |-> "hotkey_bindings"]}
  OBVIOUS
<1>10. (\A j \in i0 : j.name # "active_normalized") /\ i3 = i0 \cup {[name |-> "active_normalized", on |-> "hotkey_bindings"]}
  BY <1>1, <1>9
<1>11. PICK d3 : d3 = Then(d2, Index("active_normalized", "hotkey_bindings"))
  OBVIOUS
<1>12. d3 = Begun(File(1, id, t1, i3, AsSet))
  BY <1>8, <1>10, <1>7, <1>11, IndexIsMade
<1>13. PICK i4 : i4 = {[name |-> "active_normalized", on |-> "hotkey_bindings"]}
  OBVIOUS
<1>14. (\E j \in i3 : j.name = "sounds_hotkey") /\ i4 = {j \in i3 : j.name # "sounds_hotkey"}
  BY <1>9, <1>13
<1>15. PICK d4 : d4 = Then(d3, DropIndex("sounds_hotkey"))
  OBVIOUS
<1>16. d4 = Begun(File(1, id, t1, i4, AsSet))
  BY <1>14, <1>12, <1>15, IndexIsDropped
<1>17. PICK t5 : t5 = {"meta", "hotkey_bindings"}
  OBVIOUS
<1>18. "hotkey_column" \in t1 /\ t5 = t1 \ {"hotkey_column"}
  BY <1>2, <1>17
<1>19. PICK i5 : i5 = {[name |-> "active_normalized", on |-> "hotkey_bindings"]}
  OBVIOUS
<1>20. i5 = {i \in i4 : i.on # "hotkey_column"}
  BY <1>13, <1>19
<1>21. PICK d5 : d5 = Then(d4, DropTable("hotkey_column"))
  OBVIOUS
<1>22. d5 = Begun(File(1, id, t5, i5, AsSet))
  BY <1>18, <1>20, <1>16, <1>21, TableIsDropped
<1>23. PICK d6 : d6 = Then(d5, SetVersion(2))
  OBVIOUS
<1>24. d6 = Begun(File(2, id, t5, i5, AsSet))
  BY <1>22, <1>23, VersionIsSet
<1>25. Schema(1, id, H) = File(1, id, t0, i0, H)
  BY <1>1 DEF Schema, TablesOf, IndexesOf
<1>26. Schema(2, id, AsSet) = File(2, id, t5, i5, AsSet)
  BY <1>17, <1>19 DEF Schema, TablesOf, IndexesOf
<1>27. OneToTwo(Schema(1, id, H)) = d6
  BY <1>1, <1>25, <1>4, <1>6, <1>11, <1>15, <1>21, <1>23, Zenon DEF ++, OneToTwo
<1> QED BY <1>24, <1>26, <1>27

LEMMA TwoToThreeIs ==
  ASSUME NEW id, NEW H
  PROVE (Begun(Schema(2, id, H)) ++ Table("legacy_generated_tabs") ++ SetVersion(3)) = Begun(Schema(3, id, H))
<1>1. PICK t0, i0, d0 : t0 = {"meta", "hotkey_bindings"} /\ i0 = {[name |-> "active_normalized", on |-> "hotkey_bindings"]} /\ d0 = Begun(File(2, id, t0, i0, H))
  OBVIOUS
<1>2. PICK t1 : t1 = {"meta", "hotkey_bindings", "legacy_generated_tabs"}
  OBVIOUS
<1>3. "legacy_generated_tabs" \notin t0 /\ t1 = t0 \cup {"legacy_generated_tabs"}
  BY <1>1, <1>2
<1>4. PICK d1 : d1 = Then(d0, Table("legacy_generated_tabs"))
  OBVIOUS
<1>5. d1 = Begun(File(2, id, t1, i0, H))
  BY <1>3, <1>1, <1>4, TableIsMade
<1>6. PICK d2 : d2 = Then(d1, SetVersion(3))
  OBVIOUS
<1>7. d2 = Begun(File(3, id, t1, i0, H))
  BY <1>5, <1>6, VersionIsSet
<1>8. Schema(2, id, H) = File(2, id, t0, i0, H)
  BY <1>1 DEF Schema, TablesOf, IndexesOf
<1>9. Schema(3, id, H) = File(3, id, t1, i0, H)
  BY <1>2, <1>1 DEF Schema, TablesOf, IndexesOf
<1>10. (Begun(Schema(2, id, H)) ++ Table("legacy_generated_tabs") ++ SetVersion(3)) = d2
  BY <1>1, <1>8, <1>4, <1>6, Zenon DEF ++
<1> QED BY <1>7, <1>9, <1>10

LEMMA ThreeToFourIs ==
  ASSUME NEW id, NEW H
  PROVE (Begun(Schema(3, id, H)) ++ Table("hidden_column") ++ SetVersion(4)) = Begun(Schema(4, id, H))
<1>1. PICK t0, i0, d0 : t0 = {"meta", "hotkey_bindings", "legacy_generated_tabs"} /\ i0 = {[name |-> "active_normalized", on |-> "hotkey_bindings"]} /\ d0 = Begun(File(3, id, t0, i0, H))
  OBVIOUS
<1>2. PICK t1 : t1 = {"meta", "hotkey_bindings", "legacy_generated_tabs", "hidden_column"}
  OBVIOUS
<1>3. "hidden_column" \notin t0 /\ t1 = t0 \cup {"hidden_column"}
  BY <1>1, <1>2
<1>4. PICK d1 : d1 = Then(d0, Table("hidden_column"))
  OBVIOUS
<1>5. d1 = Begun(File(3, id, t1, i0, H))
  BY <1>3, <1>1, <1>4, TableIsMade
<1>6. PICK d2 : d2 = Then(d1, SetVersion(4))
  OBVIOUS
<1>7. d2 = Begun(File(4, id, t1, i0, H))
  BY <1>5, <1>6, VersionIsSet
<1>8. Schema(3, id, H) = File(3, id, t0, i0, H)
  BY <1>1 DEF Schema, TablesOf, IndexesOf
<1>9. Schema(4, id, H) = File(4, id, t1, i0, H)
  BY <1>2, <1>1 DEF Schema, TablesOf, IndexesOf
<1>10. (Begun(Schema(3, id, H)) ++ Table("hidden_column") ++ SetVersion(4)) = d2
  BY <1>1, <1>8, <1>4, <1>6, Zenon DEF ++
<1> QED BY <1>7, <1>9, <1>10

LEMMA FourToFiveIs ==
  ASSUME NEW id, NEW H
  PROVE FourToFive(Schema(4, id, H)) = Begun(Schema(5, id, Unscoped(H)))
<1>1. PICK t0, i0, d0 : t0 = {"meta", "hotkey_bindings", "legacy_generated_tabs", "hidden_column"} /\ i0 = {[name |-> "active_normalized", on |-> "hotkey_bindings"]} /\ d0 = Begun(File(4, id, t0, i0, H))
  OBVIOUS
<1>2. PICK t1 : t1 = {"meta", "legacy_generated_tabs", "hidden_column", "hotkey_bindings_v4"}
  OBVIOUS
<1>3. "hotkey_bindings" \in t0 /\ "hotkey_bindings_v4" \notin t0 /\ t1 = (t0 \ {"hotkey_bindings"}) \cup {"hotkey_bindings_v4"}
  BY <1>1, <1>2
<1>4. PICK i1 : i1 = {[name |-> "active_normalized", on |-> "hotkey_bindings_v4"]}
  OBVIOUS
<1>5. i1 = {IF i.on = "hotkey_bindings" THEN [i EXCEPT !.on = "hotkey_bindings_v4"] ELSE i : i \in i0}
  BY <1>1, <1>4
<1>6. PICK d1 : d1 = Then(d0, Rename("hotkey_bindings", "hotkey_bindings_v4"))
  OBVIOUS
<1>7. d1 = Begun(File(4, id, t1, i1, H))
  BY <1>3, <1>5, <1>1, <1>6, TableIsRenamed
<1>8. PICK t2 : t2 = {"meta", "legacy_generated_tabs", "hidden_column", "hotkey_bindings_v4", "hotkey_bindings"}
  OBVIOUS
<1>9. "hotkey_bindings" \notin t1 /\ t2 = t1 \cup {"hotkey_bindings"}
  BY <1>2, <1>8
<1>10. PICK d2 : d2 = Then(d1, Table("hotkey_bindings"))
  OBVIOUS
<1>11. d2 = Begun(File(4, id, t2, i1, H))
  BY <1>9, <1>7, <1>10, TableIsMade
<1>12. "hotkey_bindings" \in t2
  BY <1>8
<1>13. PICK i3 : i3 = {[name |-> "active_normalized", on |-> "hotkey_bindings_v4"], [name |-> "active_lookup", on |-> "hotkey_bindings"]}
  OBVIOUS
<1>14. (\A j \in i1 : j.name # "active_lookup") /\ i3 = i1 \cup {[name |-> "active_lookup", on |-> "hotkey_bindings"]}
  BY <1>4, <1>13
<1>15. PICK d3 : d3 = Then(d2, Index("active_lookup", "hotkey_bindings"))
  OBVIOUS
<1>16. d3 = Begun(File(4, id, t2, i3, H))
  BY <1>12, <1>14, <1>11, <1>15, IndexIsMade
<1>17. "hotkey_bindings" \in t2
  BY <1>8
<1>18. PICK i4 : i4 = {[name |-> "active_normalized", on |-> "hotkey_bindings_v4"], [name |-> "active_lookup", on |-> "hotkey_bindings"], [name |-> "target_tab", on |-> "hotkey_bindings"]}
  OBVIOUS
<1>19. (\A j \in i3 : j.name # "target_tab") /\ i4 = i3 \cup {[name |-> "target_tab", on |-> "hotkey_bindings"]}
  BY <1>13, <1>18
<1>20. PICK d4 : d4 = Then(d3, Index("target_tab", "hotkey_bindings"))
  OBVIOUS
<1>21. d4 = Begun(File(4, id, t2, i4, H))
  BY <1>17, <1>19, <1>16, <1>20, IndexIsMade
<1>22. PICK d5 : d5 = Then(d4, Copy("unscoped"))
  OBVIOUS
<1>23. d5 = Begun(File(4, id, t2, i4, Unscoped(H)))
  BY <1>21, <1>22, HotkeysAreCopied
<1>24. PICK t6 : t6 = {"meta", "legacy_generated_tabs", "hidden_column", "hotkey_bindings"}
  OBVIOUS
<1>25. "hotkey_bindings_v4" \in t2 /\ t6 = t2 \ {"hotkey_bindings_v4"}
  BY <1>8, <1>24
<1>26. PICK i6 : i6 = {[name |-> "active_lookup", on |-> "hotkey_bindings"], [name |-> "target_tab", on |-> "hotkey_bindings"]}
  OBVIOUS
<1>27. i6 = {i \in i4 : i.on # "hotkey_bindings_v4"}
  BY <1>18, <1>26
<1>28. PICK d6 : d6 = Then(d5, DropTable("hotkey_bindings_v4"))
  OBVIOUS
<1>29. d6 = Begun(File(4, id, t6, i6, Unscoped(H)))
  BY <1>25, <1>27, <1>23, <1>28, TableIsDropped
<1>30. PICK d7 : d7 = Then(d6, SetVersion(5))
  OBVIOUS
<1>31. d7 = Begun(File(5, id, t6, i6, Unscoped(H)))
  BY <1>29, <1>30, VersionIsSet
<1>32. Schema(4, id, H) = File(4, id, t0, i0, H)
  BY <1>1 DEF Schema, TablesOf, IndexesOf
<1>33. Schema(5, id, Unscoped(H)) = File(5, id, t6, i6, Unscoped(H))
  BY <1>24, <1>26 DEF Schema, TablesOf, IndexesOf
<1>34. FourToFive(Schema(4, id, H)) = d7
  BY <1>1, <1>32, <1>6, <1>10, <1>15, <1>20, <1>22, <1>28, <1>30, Zenon DEF ++, FourToFive
<1> QED BY <1>31, <1>33, <1>34

LEMMA FiveToSixIs ==
  ASSUME NEW id, NEW H
  PROVE FiveToSix(Schema(5, id, H)) = Begun(Schema(6, id, H))
<1>1. PICK t0, i0, d0 : t0 = {"meta", "hotkey_bindings", "legacy_generated_tabs", "hidden_column"} /\ i0 = {[name |-> "active_lookup", on |-> "hotkey_bindings"], [name |-> "target_tab", on |-> "hotkey_bindings"]} /\ d0 = Begun(File(5, id, t0, i0, H))
  OBVIOUS
<1>2. PICK t1 : t1 = {"meta", "legacy_generated_tabs", "hidden_column", "hotkey_bindings_v5"}
  OBVIOUS
<1>3. "hotkey_bindings" \in t0 /\ "hotkey_bindings_v5" \notin t0 /\ t1 = (t0 \ {"hotkey_bindings"}) \cup {"hotkey_bindings_v5"}
  BY <1>1, <1>2
<1>4. PICK i1 : i1 = {[name |-> "active_lookup", on |-> "hotkey_bindings_v5"], [name |-> "target_tab", on |-> "hotkey_bindings_v5"]}
  OBVIOUS
<1>5. i1 = {IF i.on = "hotkey_bindings" THEN [i EXCEPT !.on = "hotkey_bindings_v5"] ELSE i : i \in i0}
  BY <1>1, <1>4
<1>6. PICK d1 : d1 = Then(d0, Rename("hotkey_bindings", "hotkey_bindings_v5"))
  OBVIOUS
<1>7. d1 = Begun(File(5, id, t1, i1, H))
  BY <1>3, <1>5, <1>1, <1>6, TableIsRenamed
<1>8. PICK i2 : i2 = {[name |-> "target_tab", on |-> "hotkey_bindings_v5"]}
  OBVIOUS
<1>9. (\E j \in i1 : j.name = "active_lookup") /\ i2 = {j \in i1 : j.name # "active_lookup"}
  BY <1>4, <1>8
<1>10. PICK d2 : d2 = Then(d1, DropIndex("active_lookup"))
  OBVIOUS
<1>11. d2 = Begun(File(5, id, t1, i2, H))
  BY <1>9, <1>7, <1>10, IndexIsDropped
<1>12. PICK i3 : i3 = {}
  OBVIOUS
<1>13. (\E j \in i2 : j.name = "target_tab") /\ i3 = {j \in i2 : j.name # "target_tab"}
  BY <1>8, <1>12
<1>14. PICK d3 : d3 = Then(d2, DropIndex("target_tab"))
  OBVIOUS
<1>15. d3 = Begun(File(5, id, t1, i3, H))
  BY <1>13, <1>11, <1>14, IndexIsDropped
<1>16. PICK t4 : t4 = {"meta", "legacy_generated_tabs", "hidden_column", "hotkey_bindings_v5", "hotkey_bindings"}
  OBVIOUS
<1>17. "hotkey_bindings" \notin t1 /\ t4 = t1 \cup {"hotkey_bindings"}
  BY <1>2, <1>16
<1>18. PICK d4 : d4 = Then(d3, Table("hotkey_bindings"))
  OBVIOUS
<1>19. d4 = Begun(File(5, id, t4, i3, H))
  BY <1>17, <1>15, <1>18, TableIsMade
<1>20. "hotkey_bindings" \in t4
  BY <1>16
<1>21. PICK i5 : i5 = {[name |-> "active_lookup", on |-> "hotkey_bindings"]}
  OBVIOUS
<1>22. (\A j \in i3 : j.name # "active_lookup") /\ i5 = i3 \cup {[name |-> "active_lookup", on |-> "hotkey_bindings"]}
  BY <1>12, <1>21
<1>23. PICK d5 : d5 = Then(d4, Index("active_lookup", "hotkey_bindings"))
  OBVIOUS
<1>24. d5 = Begun(File(5, id, t4, i5, H))
  BY <1>20, <1>22, <1>19, <1>23, IndexIsMade
<1>25. "hotkey_bindings" \in t4
  BY <1>16
<1>26. PICK i6 : i6 = {[name |-> "active_lookup", on |-> "hotkey_bindings"], [name |-> "sound_scope", on |-> "hotkey_bindings"]}
  OBVIOUS
<1>27. (\A j \in i5 : j.name # "sound_scope") /\ i6 = i5 \cup {[name |-> "sound_scope", on |-> "hotkey_bindings"]}
  BY <1>21, <1>26
<1>28. PICK d6 : d6 = Then(d5, Index("sound_scope", "hotkey_bindings"))
  OBVIOUS
<1>29. d6 = Begun(File(5, id, t4, i6, H))
  BY <1>25, <1>27, <1>24, <1>28, IndexIsMade
<1>30. "hotkey_bindings" \in t4
  BY <1>16
<1>31. PICK i7 : i7 = {[name |-> "active_lookup", on |-> "hotkey_bindings"], [name |-> "sound_scope", on |-> "hotkey_bindings"], [name |-> "target_tab", on |-> "hotkey_bindings"]}
  OBVIOUS
<1>32. (\A j \in i6 : j.name # "target_tab") /\ i7 = i6 \cup {[name |-> "target_tab", on |-> "hotkey_bindings"]}
  BY <1>26, <1>31
<1>33. PICK d7 : d7 = Then(d6, Index("target_tab", "hotkey_bindings"))
  OBVIOUS
<1>34. d7 = Begun(File(5, id, t4, i7, H))
  BY <1>30, <1>32, <1>29, <1>33, IndexIsMade
<1>35. PICK d8 : d8 = Then(d7, Copy("all"))
  OBVIOUS
<1>36. d8 = Begun(File(5, id, t4, i7, H))
  BY <1>34, <1>35, HotkeysAreCopied
<1>37. PICK t9 : t9 = {"meta", "legacy_generated_tabs", "hidden_column", "hotkey_bindings"}
  OBVIOUS
<1>38. "hotkey_bindings_v5" \in t4 /\ t9 = t4 \ {"hotkey_bindings_v5"}
  BY <1>16, <1>37
<1>39. PICK i9 : i9 = {[name |-> "active_lookup", on |-> "hotkey_bindings"], [name |-> "sound_scope", on |-> "hotkey_bindings"], [name |-> "target_tab", on |-> "hotkey_bindings"]}
  OBVIOUS
<1>40. i9 = {i \in i7 : i.on # "hotkey_bindings_v5"}
  BY <1>31, <1>39
<1>41. PICK d9 : d9 = Then(d8, DropTable("hotkey_bindings_v5"))
  OBVIOUS
<1>42. d9 = Begun(File(5, id, t9, i9, H))
  BY <1>38, <1>40, <1>36, <1>41, TableIsDropped
<1>43. PICK d10 : d10 = Then(d9, SetVersion(6))
  OBVIOUS
<1>44. d10 = Begun(File(6, id, t9, i9, H))
  BY <1>42, <1>43, VersionIsSet
<1>45. Schema(5, id, H) = File(5, id, t0, i0, H)
  BY <1>1 DEF Schema, TablesOf, IndexesOf
<1>46. Schema(6, id, H) = File(6, id, t9, i9, H)
  BY <1>37, <1>39 DEF Schema, TablesOf, IndexesOf
<1>47. FiveToSix(Schema(5, id, H)) = d10
  BY <1>1, <1>45, <1>6, <1>10, <1>14, <1>18, <1>23, <1>28, <1>33, <1>35, <1>41, <1>43, Zenon DEF ++, FiveToSix, RenamedFive, HotkeyBindingsSchema
<1> QED BY <1>44, <1>46, <1>47

LEMMA CreateIs ==
  ASSUME NEW id, NEW H
  PROVE CreateSchema(Schema(0, id, H)) = Begun(Schema(6, id, H))
<1>1. PICK t0, i0, d0 : t0 = {} /\ i0 = {} /\ d0 = Begun(File(0, id, t0, i0, H))
  OBVIOUS
<1>2. PICK t1 : t1 = {"meta"}
  OBVIOUS
<1>3. "meta" \notin t0 /\ t1 = t0 \cup {"meta"}
  BY <1>1, <1>2
<1>4. PICK d1 : d1 = Then(d0, Table("meta"))
  OBVIOUS
<1>5. d1 = Begun(File(0, id, t1, i0, H))
  BY <1>3, <1>1, <1>4, TableIsMade
<1>6. PICK t2 : t2 = {"meta", "hotkey_bindings"}
  OBVIOUS
<1>7. "hotkey_bindings" \notin t1 /\ t2 = t1 \cup {"hotkey_bindings"}
  BY <1>2, <1>6
<1>8. PICK d2 : d2 = Then(d1, Table("hotkey_bindings"))
  OBVIOUS
<1>9. d2 = Begun(File(0, id, t2, i0, H))
  BY <1>7, <1>5, <1>8, TableIsMade
<1>10. "hotkey_bindings" \in t2
  BY <1>6
<1>11. PICK i3 : i3 = {[name |-> "active_lookup", on |-> "hotkey_bindings"]}
  OBVIOUS
<1>12. (\A j \in i0 : j.name # "active_lookup") /\ i3 = i0 \cup {[name |-> "active_lookup", on |-> "hotkey_bindings"]}
  BY <1>1, <1>11
<1>13. PICK d3 : d3 = Then(d2, Index("active_lookup", "hotkey_bindings"))
  OBVIOUS
<1>14. d3 = Begun(File(0, id, t2, i3, H))
  BY <1>10, <1>12, <1>9, <1>13, IndexIsMade
<1>15. "hotkey_bindings" \in t2
  BY <1>6
<1>16. PICK i4 : i4 = {[name |-> "active_lookup", on |-> "hotkey_bindings"], [name |-> "sound_scope", on |-> "hotkey_bindings"]}
  OBVIOUS
<1>17. (\A j \in i3 : j.name # "sound_scope") /\ i4 = i3 \cup {[name |-> "sound_scope", on |-> "hotkey_bindings"]}
  BY <1>11, <1>16
<1>18. PICK d4 : d4 = Then(d3, Index("sound_scope", "hotkey_bindings"))
  OBVIOUS
<1>19. d4 = Begun(File(0, id, t2, i4, H))
  BY <1>15, <1>17, <1>14, <1>18, IndexIsMade
<1>20. "hotkey_bindings" \in t2
  BY <1>6
<1>21. PICK i5 : i5 = {[name |-> "active_lookup", on |-> "hotkey_bindings"], [name |-> "sound_scope", on |-> "hotkey_bindings"], [name |-> "target_tab", on |-> "hotkey_bindings"]}
  OBVIOUS
<1>22. (\A j \in i4 : j.name # "target_tab") /\ i5 = i4 \cup {[name |-> "target_tab", on |-> "hotkey_bindings"]}
  BY <1>16, <1>21
<1>23. PICK d5 : d5 = Then(d4, Index("target_tab", "hotkey_bindings"))
  OBVIOUS
<1>24. d5 = Begun(File(0, id, t2, i5, H))
  BY <1>20, <1>22, <1>19, <1>23, IndexIsMade
<1>25. PICK t6 : t6 = {"meta", "hotkey_bindings", "legacy_generated_tabs"}
  OBVIOUS
<1>26. "legacy_generated_tabs" \notin t2 /\ t6 = t2 \cup {"legacy_generated_tabs"}
  BY <1>6, <1>25
<1>27. PICK d6 : d6 = Then(d5, Table("legacy_generated_tabs"))
  OBVIOUS
<1>28. d6 = Begun(File(0, id, t6, i5, H))
  BY <1>26, <1>24, <1>27, TableIsMade
<1>29. PICK t7 : t7 = {"meta", "hotkey_bindings", "legacy_generated_tabs", "hidden_column"}
  OBVIOUS
<1>30. "hidden_column" \notin t6 /\ t7 = t6 \cup {"hidden_column"}
  BY <1>25, <1>29
<1>31. PICK d7 : d7 = Then(d6, Table("hidden_column"))
  OBVIOUS
<1>32. d7 = Begun(File(0, id, t7, i5, H))
  BY <1>30, <1>28, <1>31, TableIsMade
<1>33. PICK d8 : d8 = Then(d7, SetVersion(6))
  OBVIOUS
<1>34. d8 = Begun(File(6, id, t7, i5, H))
  BY <1>32, <1>33, VersionIsSet
<1>35. Schema(0, id, H) = File(0, id, t0, i0, H)
  BY <1>1 DEF Schema, TablesOf, IndexesOf
<1>36. Schema(6, id, H) = File(6, id, t7, i5, H)
  BY <1>29, <1>21 DEF Schema, TablesOf, IndexesOf
<1>37. CreateSchema(Schema(0, id, H)) = d8
  BY <1>1, <1>35, <1>4, <1>8, <1>13, <1>18, <1>23, <1>27, <1>31, <1>33, Zenon DEF ++, CreateSchema, HotkeyBindingsSchema
<1> QED BY <1>34, <1>36, <1>37

LEMMA FourToFiveFails5 ==
  ASSUME NEW id, NEW H
  PROVE ~FourToFive(Schema(5, id, H)).ok
<1>1. PICK t0, i0, d0 : t0 = {"meta", "hotkey_bindings", "legacy_generated_tabs", "hidden_column"} /\ i0 = {[name |-> "active_lookup", on |-> "hotkey_bindings"], [name |-> "target_tab", on |-> "hotkey_bindings"]} /\ d0 = Begun(File(5, id, t0, i0, H))
  OBVIOUS
<1>2. PICK t1 : t1 = {"meta", "legacy_generated_tabs", "hidden_column", "hotkey_bindings_v4"}
  OBVIOUS
<1>3. "hotkey_bindings" \in t0 /\ "hotkey_bindings_v4" \notin t0 /\ t1 = (t0 \ {"hotkey_bindings"}) \cup {"hotkey_bindings_v4"}
  BY <1>1, <1>2
<1>4. PICK i1 : i1 = {[name |-> "active_lookup", on |-> "hotkey_bindings_v4"], [name |-> "target_tab", on |-> "hotkey_bindings_v4"]}
  OBVIOUS
<1>5. i1 = {IF i.on = "hotkey_bindings" THEN [i EXCEPT !.on = "hotkey_bindings_v4"] ELSE i : i \in i0}
  BY <1>1, <1>4
<1>6. PICK d1 : d1 = Then(d0, Rename("hotkey_bindings", "hotkey_bindings_v4"))
  OBVIOUS
<1>7. d1 = Begun(File(5, id, t1, i1, H))
  BY <1>3, <1>5, <1>1, <1>6, TableIsRenamed
<1>8. PICK t2 : t2 = {"meta", "legacy_generated_tabs", "hidden_column", "hotkey_bindings_v4", "hotkey_bindings"}
  OBVIOUS
<1>9. "hotkey_bindings" \notin t1 /\ t2 = t1 \cup {"hotkey_bindings"}
  BY <1>2, <1>8
<1>10. PICK d2 : d2 = Then(d1, Table("hotkey_bindings"))
  OBVIOUS
<1>11. d2 = Begun(File(5, id, t2, i1, H))
  BY <1>9, <1>7, <1>10, TableIsMade
<1>12. \E j \in i1 : j.name = "active_lookup"
  BY <1>4
<1>13. PICK d3 : d3 = Then(d2, Index("active_lookup", "hotkey_bindings"))
  OBVIOUS
<1>14. ~d3.ok
  BY <1>12, <1>11, <1>13, StatementFails
<1>15. PICK d4 : d4 = Then(d3, Index("target_tab", "hotkey_bindings"))
  OBVIOUS
<1>16. ~d4.ok
  BY <1>14, <1>15, TransactionFails
<1>17. PICK d5 : d5 = Then(d4, Copy("unscoped"))
  OBVIOUS
<1>18. ~d5.ok
  BY <1>16, <1>17, TransactionFails
<1>19. PICK d6 : d6 = Then(d5, DropTable("hotkey_bindings_v4"))
  OBVIOUS
<1>20. ~d6.ok
  BY <1>18, <1>19, TransactionFails
<1>21. PICK d7 : d7 = Then(d6, SetVersion(5))
  OBVIOUS
<1>22. ~d7.ok
  BY <1>20, <1>21, TransactionFails
<1>23. Schema(5, id, H) = File(5, id, t0, i0, H)
  BY <1>1 DEF Schema, TablesOf, IndexesOf
<1>24. FourToFive(Schema(5, id, H)) = d7
  BY <1>1, <1>23, <1>6, <1>10, <1>13, <1>15, <1>17, <1>19, <1>21, Zenon DEF ++, FourToFive
<1> QED BY <1>22, <1>24

LEMMA FourToFiveFails6 ==
  ASSUME NEW id, NEW H
  PROVE ~FourToFive(Schema(6, id, H)).ok
<1>1. PICK t0, i0, d0 : t0 = {"meta", "hotkey_bindings", "legacy_generated_tabs", "hidden_column"} /\ i0 = {[name |-> "active_lookup", on |-> "hotkey_bindings"], [name |-> "sound_scope", on |-> "hotkey_bindings"], [name |-> "target_tab", on |-> "hotkey_bindings"]} /\ d0 = Begun(File(6, id, t0, i0, H))
  OBVIOUS
<1>2. PICK t1 : t1 = {"meta", "legacy_generated_tabs", "hidden_column", "hotkey_bindings_v4"}
  OBVIOUS
<1>3. "hotkey_bindings" \in t0 /\ "hotkey_bindings_v4" \notin t0 /\ t1 = (t0 \ {"hotkey_bindings"}) \cup {"hotkey_bindings_v4"}
  BY <1>1, <1>2
<1>4. PICK i1 : i1 = {[name |-> "active_lookup", on |-> "hotkey_bindings_v4"], [name |-> "sound_scope", on |-> "hotkey_bindings_v4"], [name |-> "target_tab", on |-> "hotkey_bindings_v4"]}
  OBVIOUS
<1>5. i1 = {IF i.on = "hotkey_bindings" THEN [i EXCEPT !.on = "hotkey_bindings_v4"] ELSE i : i \in i0}
  BY <1>1, <1>4
<1>6. PICK d1 : d1 = Then(d0, Rename("hotkey_bindings", "hotkey_bindings_v4"))
  OBVIOUS
<1>7. d1 = Begun(File(6, id, t1, i1, H))
  BY <1>3, <1>5, <1>1, <1>6, TableIsRenamed
<1>8. PICK t2 : t2 = {"meta", "legacy_generated_tabs", "hidden_column", "hotkey_bindings_v4", "hotkey_bindings"}
  OBVIOUS
<1>9. "hotkey_bindings" \notin t1 /\ t2 = t1 \cup {"hotkey_bindings"}
  BY <1>2, <1>8
<1>10. PICK d2 : d2 = Then(d1, Table("hotkey_bindings"))
  OBVIOUS
<1>11. d2 = Begun(File(6, id, t2, i1, H))
  BY <1>9, <1>7, <1>10, TableIsMade
<1>12. \E j \in i1 : j.name = "active_lookup"
  BY <1>4
<1>13. PICK d3 : d3 = Then(d2, Index("active_lookup", "hotkey_bindings"))
  OBVIOUS
<1>14. ~d3.ok
  BY <1>12, <1>11, <1>13, StatementFails
<1>15. PICK d4 : d4 = Then(d3, Index("target_tab", "hotkey_bindings"))
  OBVIOUS
<1>16. ~d4.ok
  BY <1>14, <1>15, TransactionFails
<1>17. PICK d5 : d5 = Then(d4, Copy("unscoped"))
  OBVIOUS
<1>18. ~d5.ok
  BY <1>16, <1>17, TransactionFails
<1>19. PICK d6 : d6 = Then(d5, DropTable("hotkey_bindings_v4"))
  OBVIOUS
<1>20. ~d6.ok
  BY <1>18, <1>19, TransactionFails
<1>21. PICK d7 : d7 = Then(d6, SetVersion(5))
  OBVIOUS
<1>22. ~d7.ok
  BY <1>20, <1>21, TransactionFails
<1>23. Schema(6, id, H) = File(6, id, t0, i0, H)
  BY <1>1 DEF Schema, TablesOf, IndexesOf
<1>24. FourToFive(Schema(6, id, H)) = d7
  BY <1>1, <1>23, <1>6, <1>10, <1>13, <1>15, <1>17, <1>19, <1>21, Zenon DEF ++, FourToFive
<1> QED BY <1>22, <1>24

LEMMA FiveToSixFails6 ==
  ASSUME NEW id, NEW H
  PROVE ~FiveToSix(Schema(6, id, H)).ok
<1>1. PICK t0, i0, d0 : t0 = {"meta", "hotkey_bindings", "legacy_generated_tabs", "hidden_column"} /\ i0 = {[name |-> "active_lookup", on |-> "hotkey_bindings"], [name |-> "sound_scope", on |-> "hotkey_bindings"], [name |-> "target_tab", on |-> "hotkey_bindings"]} /\ d0 = Begun(File(6, id, t0, i0, H))
  OBVIOUS
<1>2. PICK t1 : t1 = {"meta", "legacy_generated_tabs", "hidden_column", "hotkey_bindings_v5"}
  OBVIOUS
<1>3. "hotkey_bindings" \in t0 /\ "hotkey_bindings_v5" \notin t0 /\ t1 = (t0 \ {"hotkey_bindings"}) \cup {"hotkey_bindings_v5"}
  BY <1>1, <1>2
<1>4. PICK i1 : i1 = {[name |-> "active_lookup", on |-> "hotkey_bindings_v5"], [name |-> "sound_scope", on |-> "hotkey_bindings_v5"], [name |-> "target_tab", on |-> "hotkey_bindings_v5"]}
  OBVIOUS
<1>5. i1 = {IF i.on = "hotkey_bindings" THEN [i EXCEPT !.on = "hotkey_bindings_v5"] ELSE i : i \in i0}
  BY <1>1, <1>4
<1>6. PICK d1 : d1 = Then(d0, Rename("hotkey_bindings", "hotkey_bindings_v5"))
  OBVIOUS
<1>7. d1 = Begun(File(6, id, t1, i1, H))
  BY <1>3, <1>5, <1>1, <1>6, TableIsRenamed
<1>8. PICK i2 : i2 = {[name |-> "sound_scope", on |-> "hotkey_bindings_v5"], [name |-> "target_tab", on |-> "hotkey_bindings_v5"]}
  OBVIOUS
<1>9. (\E j \in i1 : j.name = "active_lookup") /\ i2 = {j \in i1 : j.name # "active_lookup"}
  BY <1>4, <1>8
<1>10. PICK d2 : d2 = Then(d1, DropIndex("active_lookup"))
  OBVIOUS
<1>11. d2 = Begun(File(6, id, t1, i2, H))
  BY <1>9, <1>7, <1>10, IndexIsDropped
<1>12. PICK i3 : i3 = {[name |-> "sound_scope", on |-> "hotkey_bindings_v5"]}
  OBVIOUS
<1>13. (\E j \in i2 : j.name = "target_tab") /\ i3 = {j \in i2 : j.name # "target_tab"}
  BY <1>8, <1>12
<1>14. PICK d3 : d3 = Then(d2, DropIndex("target_tab"))
  OBVIOUS
<1>15. d3 = Begun(File(6, id, t1, i3, H))
  BY <1>13, <1>11, <1>14, IndexIsDropped
<1>16. PICK t4 : t4 = {"meta", "legacy_generated_tabs", "hidden_column", "hotkey_bindings_v5", "hotkey_bindings"}
  OBVIOUS
<1>17. "hotkey_bindings" \notin t1 /\ t4 = t1 \cup {"hotkey_bindings"}
  BY <1>2, <1>16
<1>18. PICK d4 : d4 = Then(d3, Table("hotkey_bindings"))
  OBVIOUS
<1>19. d4 = Begun(File(6, id, t4, i3, H))
  BY <1>17, <1>15, <1>18, TableIsMade
<1>20. "hotkey_bindings" \in t4
  BY <1>16
<1>21. PICK i5 : i5 = {[name |-> "sound_scope", on |-> "hotkey_bindings_v5"], [name |-> "active_lookup", on |-> "hotkey_bindings"]}
  OBVIOUS
<1>22. (\A j \in i3 : j.name # "active_lookup") /\ i5 = i3 \cup {[name |-> "active_lookup", on |-> "hotkey_bindings"]}
  BY <1>12, <1>21
<1>23. PICK d5 : d5 = Then(d4, Index("active_lookup", "hotkey_bindings"))
  OBVIOUS
<1>24. d5 = Begun(File(6, id, t4, i5, H))
  BY <1>20, <1>22, <1>19, <1>23, IndexIsMade
<1>25. \E j \in i5 : j.name = "sound_scope"
  BY <1>21
<1>26. PICK d6 : d6 = Then(d5, Index("sound_scope", "hotkey_bindings"))
  OBVIOUS
<1>27. ~d6.ok
  BY <1>25, <1>24, <1>26, StatementFails
<1>28. PICK d7 : d7 = Then(d6, Index("target_tab", "hotkey_bindings"))
  OBVIOUS
<1>29. ~d7.ok
  BY <1>27, <1>28, TransactionFails
<1>30. PICK d8 : d8 = Then(d7, Copy("all"))
  OBVIOUS
<1>31. ~d8.ok
  BY <1>29, <1>30, TransactionFails
<1>32. PICK d9 : d9 = Then(d8, DropTable("hotkey_bindings_v5"))
  OBVIOUS
<1>33. ~d9.ok
  BY <1>31, <1>32, TransactionFails
<1>34. PICK d10 : d10 = Then(d9, SetVersion(6))
  OBVIOUS
<1>35. ~d10.ok
  BY <1>33, <1>34, TransactionFails
<1>36. Schema(6, id, H) = File(6, id, t0, i0, H)
  BY <1>1 DEF Schema, TablesOf, IndexesOf
<1>37. FiveToSix(Schema(6, id, H)) = d10
  BY <1>1, <1>36, <1>6, <1>10, <1>14, <1>18, <1>23, <1>26, <1>28, <1>30, <1>32, <1>34, Zenon DEF ++, FiveToSix, RenamedFive, HotkeyBindingsSchema
<1> QED BY <1>35, <1>37


\* One that begins where the first of its statements has been run fails.
LEMMA FirstTableFails ==
  ASSUME NEW w, NEW id, NEW H, NEW t \in TablesOf(w)
  PROVE ~Then(Begun(Schema(w, id, H)), Table(t)).ok
BY StatementFails DEF Schema

LEMMA LateFails ==
  ASSUME NEW v \in 1 .. 5, NEW w \in 2 .. 6, v < w, NEW id, NEW H
  PROVE ~Migration(v, Schema(w, id, H)).ok
<1> DEFINE f == Schema(w, id, H)
<1>1. CASE v = 1
  <2>1. "hotkey_bindings" \in TablesOf(w)
    BY <1>1 DEF TablesOf
  <2>2. PICK d1, d2, d3, d4, d5, d6 :
          /\ d1 = Then(Begun(f), Table("hotkey_bindings")) /\ d2 = Then(d1, Copy("column"))
          /\ d3 = Then(d2, Index("active_normalized", "hotkey_bindings"))
          /\ d4 = Then(d3, DropIndex("sounds_hotkey")) /\ d5 = Then(d4, DropTable("hotkey_column"))
          /\ d6 = Then(d5, SetVersion(2))
    OBVIOUS
  <2>3. ~d1.ok
    BY <2>1, <2>2, FirstTableFails
  <2>4. ~d2.ok /\ ~d3.ok /\ ~d4.ok /\ ~d5.ok /\ ~d6.ok
    BY <2>2, <2>3, TransactionFails
  <2>5. OneToTwo(f) = d6
    BY <2>2, Zenon DEF OneToTwo, ++
  <2>6. Migration(v, f) = OneToTwo(f)
    BY <1>1 DEF Migration
  <2> QED BY <2>4, <2>5, <2>6
<1>2. CASE v = 2
  <2>1. "legacy_generated_tabs" \in TablesOf(w)
    BY <1>2 DEF TablesOf
  <2>2. ~Then(Then(Begun(f), Table("legacy_generated_tabs")), SetVersion(3)).ok
    BY <2>1, FirstTableFails, TransactionFails
  <2>3. Migration(v, f) = Then(Then(Begun(f), Table("legacy_generated_tabs")), SetVersion(3))
    BY <1>2 DEF Migration, ++
  <2> QED BY <2>2, <2>3
<1>3. CASE v = 3
  <2>1. "hidden_column" \in TablesOf(w)
    BY <1>3 DEF TablesOf
  <2>2. ~Then(Then(Begun(f), Table("hidden_column")), SetVersion(4)).ok
    BY <2>1, FirstTableFails, TransactionFails
  <2>3. Migration(v, f) = Then(Then(Begun(f), Table("hidden_column")), SetVersion(4))
    BY <1>3 DEF Migration, ++
  <2> QED BY <2>2, <2>3
<1>4. CASE v = 4
  <2>1. Migration(v, f) = FourToFive(f)
    BY <1>4 DEF Migration
  <2>2. w = 5 \/ w = 6
    BY <1>4
  <2> QED BY <2>1, <2>2, FourToFiveFails5, FourToFiveFails6
<1>5. CASE v = 5
  <2>1. Migration(v, f) = FiveToSix(f)
    BY <1>5 DEF Migration
  <2>2. w = 6
    BY <1>5
  <2> QED BY <2>1, <2>2, FiveToSixFails6
<1> QED BY <1>1, <1>2, <1>3, <1>4, <1>5

LEMMA LateCreateFails ==
  ASSUME NEW id, NEW H
  PROVE ~CreateSchema(Schema(6, id, H)).ok
<1> DEFINE f == Schema(6, id, H)
<1>1. PICK d1, d2, d3, d4, d5, d6, d7, d8 :
        /\ d1 = Then(Begun(f), Table("meta")) /\ d2 = Then(d1, Table("hotkey_bindings"))
        /\ d3 = Then(d2, Index("active_lookup", "hotkey_bindings"))
        /\ d4 = Then(d3, Index("sound_scope", "hotkey_bindings"))
        /\ d5 = Then(d4, Index("target_tab", "hotkey_bindings"))
        /\ d6 = Then(d5, Table("legacy_generated_tabs")) /\ d7 = Then(d6, Table("hidden_column"))
        /\ d8 = Then(d7, SetVersion(6))
  OBVIOUS
<1>2. "meta" \in TablesOf(6)
  BY DEF TablesOf
<1>3. ~d1.ok
  BY <1>1, <1>2, FirstTableFails
<1>4. ~d2.ok /\ ~d3.ok /\ ~d4.ok /\ ~d5.ok
  BY <1>1, <1>3, TransactionFails
<1>5. ~d6.ok /\ ~d7.ok /\ ~d8.ok
  BY <1>1, <1>4, TransactionFails
<1>6. CreateSchema(f) = d8
  BY <1>1, Zenon DEF CreateSchema, HotkeyBindingsSchema, ++
<1> QED BY <1>5, <1>6

\* One in its turn takes the file to the next schema and keeps the hotkeys:
\* only the second has them as rows, and only the fifth has them with a scope.
KeptBy(v, H) == CASE v = 1 -> AsSet [] v = 4 -> Unscoped(H) [] OTHER -> H
LEMMA MigrationIs ==
  ASSUME NEW v \in 1 .. 5, NEW id, NEW H
  PROVE Migration(v, Schema(v, id, H)) = Begun(Schema(v + 1, id, KeptBy(v, H)))
<1>1. CASE v = 1
  BY <1>1, OneToTwoIs DEF Migration, KeptBy
<1>2. CASE v = 2
  BY <1>2, TwoToThreeIs DEF Migration, KeptBy
<1>3. CASE v = 3
  BY <1>3, ThreeToFourIs DEF Migration, KeptBy
<1>4. CASE v = 4
  BY <1>4, FourToFiveIs DEF Migration, KeptBy
<1>5. CASE v = 5
  BY <1>5, FiveToSixIs DEF Migration, KeptBy
<1> QED BY <1>1, <1>2, <1>3, <1>4, <1>5

\* What an earlier version left.
LEMMA LeftByIs ==
  /\ \A v \in 1 .. 6 : LeftBy[v] = Schema(v, OurId, IF v = 1 THEN {} ELSE AsSet)
  /\ Unscoped(AsSet) = AsSet
<1>1. Unscoped(AsSet) = AsSet
  <2>1. \A b \in AsSet : [b EXCEPT !.scope = SsNone] = b
    BY DEF AsSet
  <2> QED BY <2>1 DEF Unscoped
<1>2. First = Schema(1, OurId, {})
  BY DEF First, Schema, File, TablesOf, IndexesOf
<1>3. ASSUME NEW v \in 1 .. 5, NEW H, NEW f, f = Schema(v, OurId, H)
      PROVE Migration(v, f).file = Schema(v + 1, OurId, KeptBy(v, H))
  BY <1>3, MigrationIs DEF Begun
<1>4. Second = Schema(2, OurId, AsSet)
  BY <1>2, <1>3 DEF Second, KeptBy
<1>5. Third = Schema(3, OurId, AsSet)
  BY <1>3, <1>4 DEF Third, KeptBy
<1>6. Fourth = Schema(4, OurId, AsSet)
  BY <1>3, <1>5 DEF Fourth, KeptBy
<1>7. Fifth = Schema(5, OurId, AsSet)
  BY <1>1, <1>3, <1>6 DEF Fifth, KeptBy
<1>8. Sixth = Schema(6, OurId, AsSet)
  BY <1>3, <1>7 DEF Sixth, KeptBy
<1>9. ASSUME NEW v \in 1 .. 6 PROVE LeftBy[v] = Schema(v, OurId, IF v = 1 THEN {} ELSE AsSet)
  BY <1>2, <1>4, <1>5, <1>6, <1>7, <1>8 DEF LeftBy
<1> QED BY <1>1, <1>9

-----------------------------------------------------------------------------
(* The invariant. *)

OpenerRecs ==
  [pc : {"closed", "create", "tables", "flavor", "migrate", "check", "id", "open"}, version : 0 .. 6, id : 0 .. 2]

\* Who still migrates is not ahead of the file, and who is past it has the latest.
Fits(opener, v) ==
  /\ opener.pc \in {"flavor", "migrate"} => opener.version \in 1 .. 5 /\ opener.version <= v /\ v <= 6
  /\ opener.pc \in {"create", "tables"} => v \in {0, 6}
  /\ opener.pc \in {"check", "id", "open"} => v = 6

FileFine ==
  /\ ssFile = Schema(ssFile.version, ssFile.id, ssFile.hotkeys)
  /\ ssFile.version \in 0 .. 7 /\ ssFile.id \in 0 .. 2
HotkeysFine ==
  /\ ssFile.version # 1 => ssFile.hotkeys = ssHotkeys
  /\ ssFile.version = 1 => ssHotkeys = AsSet
  /\ ssFile.version \in 1 .. 4 => Unscoped(ssHotkeys) = ssHotkeys
OpenersFine ==
  /\ ssOpener \in [SsOpeners -> OpenerRecs]
  /\ \A o \in SsOpeners : Fits(ssOpener[o], ssFile.version)
SchemaInv == FileFine /\ HotkeysFine /\ OpenersFine

LEMMA FieldsOfSchema ==
  ASSUME NEW v, NEW id, NEW H
  PROVE /\ Schema(v, id, H).version = v /\ Schema(v, id, H).flavor = v
        /\ Schema(v, id, H).id = id /\ Schema(v, id, H).hotkeys = H
        /\ Schema(v, id, H).tables = TablesOf(v) /\ Schema(v, id, H).indexes = IndexesOf(v)
        /\ \A i : [Schema(v, id, H) EXCEPT !.id = i] = Schema(v, i, H)
        /\ \A G : [Schema(v, id, H) EXCEPT !.hotkeys = G] = Schema(v, id, G)
BY DEF Schema, File

LEMMA LaterFile ==
  ASSUME NEW v, NEW id, NEW T, NEW I, NEW H, NEW w, NEW G
  PROVE Run([File(v, id, T, I, H) EXCEPT !.hotkeys = G], SetVersion(w)) = File(w, id, T, I, G)
<1>1. [File(v, id, T, I, H) EXCEPT !.hotkeys = G] = File(v, id, T, I, G)
  BY DEF File
<1>2. Run(File(v, id, T, I, G), SetVersion(w)) = File(w, id, T, I, G)
  BY DEF File, Run, SetVersion
<1> QED BY <1>1, <1>2

LEMMA StoredIs ==
  ASSUME NEW v \in 0 .. 7
  PROVE \E id, H : FileOf(v) = Schema(v, id, H) /\ (v = 1 => H = {}) /\ (v \in 2 .. 4 => H = AsSet)
<1>1. CASE v = 0
  <2>1. FileOf(v) = Schema(0, 0, {})
    BY <1>1 DEF FileOf, Empty, Schema, File, TablesOf, IndexesOf
  <2> QED BY <1>1, <2>1
<1>2. CASE v \in 1 .. 4
  <2>1. FileOf(v) = LeftBy[v]
    BY <1>2 DEF FileOf
  <2> QED BY <1>2, <2>1, LeftByIs
<1>3. CASE v \in 5 .. 7
  <2>1. PICK w \in {5, 6} : w = IF v = 5 THEN 5 ELSE Latest
    BY DEF Latest
  <2>2. LeftBy[w] = Schema(w, OurId, AsSet)
    BY <2>1, LeftByIs DEF Latest
  <2>3. PICK H : H = {[b EXCEPT !.scope = SsTab] : b \in LeftBy[w].hotkeys}
    OBVIOUS
  <2>4. FileOf(v) = Run([LeftBy[w] EXCEPT !.hotkeys = H], SetVersion(v))
    BY <1>3, <2>1, <2>3 DEF FileOf
  <2>5. TablesOf(w) = TablesOf(v) /\ IndexesOf(w) = IndexesOf(v)
    <3>1. v = 5 \/ v = 6 \/ v = 7
      BY <1>3
    <3> QED BY <2>1, <3>1 DEF TablesOf, IndexesOf, Latest
  <2>6. FileOf(v) = Schema(v, OurId, H)
    <3>1. LeftBy[w] = File(w, OurId, TablesOf(w), IndexesOf(w), AsSet)
      BY <2>2 DEF Schema
    <3>2. FileOf(v) = File(v, OurId, TablesOf(w), IndexesOf(w), H)
      BY <2>4, <3>1, LaterFile
    <3> QED BY <2>5, <3>2 DEF Schema
  <2> QED BY <1>3, <2>6
<1> QED BY <1>1, <1>2, <1>3

LEMMA SchemaStart == SsInit => SchemaInv
<1> SUFFICES ASSUME SsInit PROVE SchemaInv
  OBVIOUS
<1>1. PICK v \in SsVersions, i \in {0, OurId, ForeignId} : ssFile = [FileOf(v) EXCEPT !.id = i]
  BY DEF SsInit, StoredFiles
<1>2. v \in 0 .. 7 /\ i \in 0 .. 2
  BY StoreSchemaAssumption DEF OurId, ForeignId
<1>3. PICK id, H : FileOf(v) = Schema(v, id, H) /\ (v = 1 => H = {}) /\ (v \in 2 .. 4 => H = AsSet)
  BY <1>2, StoredIs
<1>4. ssFile = Schema(v, i, H)
  BY <1>1, <1>3, FieldsOfSchema
<1>5. ssFile.version = v /\ ssFile.id = i /\ ssFile.hotkeys = H
  BY <1>4, FieldsOfSchema
<1>6. FileFine
  BY <1>2, <1>4, <1>5 DEF FileFine
<1>7. ssHotkeys = IF v = 1 THEN AsSet ELSE H
  BY <1>5 DEF SsInit
<1>8. HotkeysFine
  BY <1>3, <1>5, <1>7, LeftByIs DEF HotkeysFine
<1>9. OpenersFine
  BY DEF SsInit, Closed, OpenersFine, OpenerRecs, Fits
<1> QED BY <1>6, <1>8, <1>9 DEF SchemaInv

-----------------------------------------------------------------------------
(* The steps. *)

\* Openers: one goes on, the others stay where they are, and the file has not
\* gone past them.
LEMMA OpenersGoOn ==
  ASSUME OpenersFine, NEW o \in SsOpeners, NEW next \in OpenerRecs, Fits(next, ssFile'.version),
         ssOpener' = [ssOpener EXCEPT ![o] = next],
         \A p \in SsOpeners : Fits(ssOpener[p], ssFile'.version) \/ p = o
  PROVE OpenersFine'
<1>1. ssOpener' \in [SsOpeners -> OpenerRecs]
  BY DEF OpenersFine
<1>2. ASSUME NEW p \in SsOpeners PROVE Fits(ssOpener[p], ssFile.version)'
  <2>1. PICK one : one = IF p = o THEN next ELSE ssOpener[p]
    OBVIOUS
  <2>2. ssOpener'[p] = one
    BY <2>1 DEF OpenersFine
  <2>3. Fits(one, ssFile'.version)
    BY <2>1
  <2>4. Fits(ssOpener'[p], ssFile'.version)
    BY <2>2, <2>3
  <2> QED BY <2>4 DEF Fits
<1> QED BY <1>1, <1>2 DEF OpenersFine

\* The file keeps its schema.
LEMMA OpenerMoves ==
  ASSUME SchemaInv, UNCHANGED <<ssFile, ssHotkeys>>, NEW o \in SsOpeners, NEW next \in OpenerRecs,
         Fits(next, ssFile.version), ssOpener' = [ssOpener EXCEPT ![o] = next]
  PROVE SchemaInv'
<1>1. FileFine' /\ HotkeysFine'
  BY DEF SchemaInv, FileFine, HotkeysFine
<1>2. ssFile'.version = ssFile.version
  OBVIOUS
<1>3. OpenersFine'
  BY <1>2, OpenersGoOn DEF SchemaInv, OpenersFine
<1> QED BY <1>1, <1>3 DEF SchemaInv

LEMMA ClosedFits == Closed \in OpenerRecs /\ \A v : Fits(Closed, v)
BY DEF Closed, OpenerRecs, Fits

LEMMA OpenerIs ==
  ASSUME SchemaInv, NEW o \in SsOpeners
  PROVE ssOpener[o] \in OpenerRecs /\ Fits(ssOpener[o], ssFile.version) /\ ssFile.version \in 0 .. 7 /\ ssFile.id \in 0 .. 2
BY DEF SchemaInv, OpenersFine, FileFine

LEMMA ReadVersionKeeps == ASSUME SchemaInv, NEW o \in SsOpeners, ReadVersion(o) PROVE SchemaInv'
<1>1. UNCHANGED <<ssFile, ssHotkeys>>
  BY DEF ReadVersion
<1>2. ssFile.version \in 0 .. 7 /\ ssFile.id \in 0 .. 2
  BY OpenerIs
<1>3. CASE ssOpener' = [ssOpener EXCEPT ![o] = Closed]
  BY <1>1, <1>3, ClosedFits, OpenerMoves
<1>4. CASE ssFile.version <= Latest
           /\ ssOpener' = [ssOpener EXCEPT ![o] =
                [pc |-> CASE ssFile.version = 0 -> "create"
                          [] ssFile.version = Latest -> "check"
                          [] OTHER -> "flavor",
                 version |-> ssFile.version, id |-> ssFile.id]]
  <2>1. PICK next : next = [pc |-> CASE ssFile.version = 0 -> "create"
                                     [] ssFile.version = Latest -> "check"
                                     [] OTHER -> "flavor",
                            version |-> ssFile.version, id |-> ssFile.id]
    OBVIOUS
  <2>2. next \in OpenerRecs /\ Fits(next, ssFile.version)
    BY <1>2, <1>4, <2>1 DEF OpenerRecs, Fits, Latest
  <2> QED BY <1>1, <1>4, <2>1, <2>2, OpenerMoves
<1> QED BY <1>2, <1>3, <1>4 DEF ReadVersion, Fails, Latest

\* A step that leaves an opener's version and id.
LEMMA OpenerAt ==
  ASSUME NEW opener \in OpenerRecs, NEW stage \in {"closed", "create", "tables", "flavor", "migrate", "check", "id", "open"}
  PROVE /\ [opener EXCEPT !.pc = stage] \in OpenerRecs
        /\ [opener EXCEPT !.pc = stage].pc = stage /\ [opener EXCEPT !.pc = stage].version = opener.version
        /\ [opener EXCEPT !.pc = stage].id = opener.id
BY DEF OpenerRecs

LEMMA ReadFlavorKeeps == ASSUME SchemaInv, NEW o \in SsOpeners, ReadFlavor(o) PROVE SchemaInv'
<1>1. UNCHANGED <<ssFile, ssHotkeys>> /\ ssOpener[o].pc = "flavor"
  BY DEF ReadFlavor, At
<1>2. CASE ssOpener' = [ssOpener EXCEPT ![o] = Closed]
  BY <1>1, <1>2, ClosedFits, OpenerMoves
<1>3. CASE ssOpener' = [ssOpener EXCEPT ![o].pc = "migrate"]
  <2>1. PICK next : next = [ssOpener[o] EXCEPT !.pc = "migrate"]
    OBVIOUS
  <2>2. next \in OpenerRecs /\ Fits(next, ssFile.version)
    BY <1>1, <2>1, OpenerIs, OpenerAt DEF Fits
  <2>3. ssOpener' = [ssOpener EXCEPT ![o] = next]
    BY <1>3, <2>1
  <2> QED BY <1>1, <2>2, <2>3, OpenerMoves
<1> QED BY <1>2, <1>3 DEF ReadFlavor, Fails, OpenerGoes

LEMMA CheckMetaKeeps == ASSUME SchemaInv, NEW o \in SsOpeners, CheckMeta(o) PROVE SchemaInv'
<1>1. UNCHANGED <<ssFile, ssHotkeys>> /\ ssOpener[o].pc = "check"
  BY DEF CheckMeta, At
<1>2. CASE ssOpener' = [ssOpener EXCEPT ![o] = Closed]
  BY <1>1, <1>2, ClosedFits, OpenerMoves
<1>3. CASE ssOpener' = [ssOpener EXCEPT ![o].pc = "id"]
  <2>1. PICK next : next = [ssOpener[o] EXCEPT !.pc = "id"]
    OBVIOUS
  <2>2. next \in OpenerRecs /\ Fits(next, ssFile.version)
    BY <1>1, <2>1, OpenerIs, OpenerAt DEF Fits
  <2>3. ssOpener' = [ssOpener EXCEPT ![o] = next]
    BY <1>3, <2>1
  <2> QED BY <1>1, <2>2, <2>3, OpenerMoves
<1> QED BY <1>2, <1>3 DEF CheckMeta, Fails, OpenerGoes

LEMMA OpenerEndsKeeps == ASSUME SchemaInv, NEW o \in SsOpeners, OpenerEnds(o) PROVE SchemaInv'
BY ClosedFits, OpenerMoves DEF OpenerEnds, Fails

\* An opener goes on and the file gets an id.
LEMMA IdIsWritten ==
  ASSUME SchemaInv, NEW o \in SsOpeners, ssHotkeys' = ssHotkeys,
         ssFile' = [ssFile EXCEPT !.id = OurId] \/ ssFile' = ssFile,
         NEW stage \in {"tables", "open"}, OpenerGoes(o, stage),
         stage = "tables" => ssOpener[o].pc = "create", stage = "open" => ssOpener[o].pc = "id"
  PROVE SchemaInv'
<1>1. PICK v, i, H : ssFile = Schema(v, i, H) /\ v \in 0 .. 7 /\ v = ssFile.version /\ H = ssFile.hotkeys /\ i = ssFile.id
  BY DEF SchemaInv, FileFine
<1>2. PICK j \in 0 .. 2 : ssFile' = Schema(v, j, H)
  BY <1>1, FieldsOfSchema DEF OurId, SchemaInv, FileFine
<1>3. ssFile'.version = v /\ ssFile'.id = j /\ ssFile'.hotkeys = H
  BY <1>2, FieldsOfSchema
<1>4. FileFine'
  BY <1>1, <1>2, <1>3 DEF FileFine
<1>5. HotkeysFine'
  BY <1>1, <1>3 DEF SchemaInv, HotkeysFine
<1>6. PICK next : next = [ssOpener[o] EXCEPT !.pc = stage]
  OBVIOUS
<1>7. next \in OpenerRecs /\ Fits(next, v)
  BY <1>1, <1>6, OpenerIs, OpenerAt DEF Fits
<1>8. OpenersFine'
  BY <1>1, <1>3, <1>6, <1>7, OpenersGoOn DEF SchemaInv, OpenersFine, OpenerGoes
<1> QED BY <1>4, <1>5, <1>8 DEF SchemaInv

\* The file gets the next schema, and nobody is ahead of it.
LEMMA SchemaIsNext ==
  ASSUME SchemaInv, NEW o \in SsOpeners, NEW v \in 0 .. 5, v = ssFile.version, NEW w \in 2 .. 6,
         w = IF v = 0 THEN 6 ELSE v + 1,
         NEW H, ssFile' = Schema(w, ssFile.id, H), H = ssHotkeys, v \in 1 .. 3 => Unscoped(H) = H,
         ssHotkeys' = ssHotkeys,
         NEW next \in OpenerRecs, Fits(next, w), ssOpener' = [ssOpener EXCEPT ![o] = next]
  PROVE SchemaInv'
<1>1. ssFile'.version = w /\ ssFile'.id = ssFile.id /\ ssFile'.hotkeys = H
  BY FieldsOfSchema
<1>2. FileFine'
  BY <1>1 DEF SchemaInv, FileFine
<1>3. HotkeysFine'
  BY <1>1 DEF HotkeysFine
<1>4. \A p \in SsOpeners : Fits(ssOpener[p], w)
  <2>1. ASSUME NEW p \in SsOpeners PROVE Fits(ssOpener[p], w)
    <3>1. PICK opener \in OpenerRecs : opener = ssOpener[p] /\ Fits(opener, v)
      BY OpenerIs
    <3>2. opener.version \in 0 .. 6
      BY <3>1 DEF OpenerRecs
    <3>3. Fits(opener, w)
      BY <3>1, <3>2 DEF Fits
    <3> QED BY <3>1, <3>3
  <2> QED BY <2>1
<1>5. OpenersFine'
  BY <1>1, <1>4, OpenersGoOn DEF SchemaInv
<1> QED BY <1>2, <1>3, <1>5 DEF SchemaInv

LEMMA CreateTablesKeeps == ASSUME SchemaInv, NEW o \in SsOpeners, CreateTables(o) PROVE SchemaInv'
<1>1. PICK v \in 0 .. 7, i \in 0 .. 2, H \in {ssFile.hotkeys} : ssFile = Schema(v, i, H) /\ v = ssFile.version /\ H = ssFile.hotkeys /\ i = ssFile.id
  BY DEF SchemaInv, FileFine
<1>2. ssOpener[o].pc = "tables" /\ ssHotkeys' = ssHotkeys
  BY DEF CreateTables, At
<1>3. v = 0 \/ v = 6
  BY <1>1, <1>2, OpenerIs DEF Fits
<1>4. CASE v = 6
  <2>1. ~CreateSchema(ssFile).ok
    BY <1>1, <1>4, LateCreateFails
  <2>2. ssOpener' = [ssOpener EXCEPT ![o] = Closed] /\ ssFile' = ssFile
    BY <2>1 DEF CreateTables, Applied, Fails
  <2> QED BY <1>2, <2>2, ClosedFits, OpenerMoves
<1>5. CASE v = 0
  <2>1. CreateSchema(ssFile) = Begun(Schema(6, i, H))
    BY <1>1, <1>5, CreateIs
  <2>2. PICK next : next = [ssOpener[o] EXCEPT !.pc = "id"]
    OBVIOUS
  <2>3. ssFile' = Schema(6, i, H) /\ ssOpener' = [ssOpener EXCEPT ![o] = next]
    BY <2>1, <2>2 DEF CreateTables, Applied, Begun
  <2>4. next \in OpenerRecs /\ Fits(next, 6)
    BY <2>2, OpenerIs, OpenerAt DEF Fits
  <2>5. H = ssHotkeys
    <3>1. v = ssFile.version /\ H = ssFile.hotkeys
      BY <1>1, Zenon
    <3>2. v # 1
      BY <1>5
    <3>3. ssFile.version # 1
      BY <3>1, <3>2
    <3> QED BY <3>1, <3>3 DEF SchemaInv, HotkeysFine
  <2>6. PICK from \in 0 .. 5, to \in 2 .. 6 : from = 0 /\ to = 6
    OBVIOUS
  <2>7. from = ssFile.version /\ to = (IF from = 0 THEN 6 ELSE from + 1) /\ ~(from \in 1 .. 3)
    <3>1. v = ssFile.version
      BY <1>1, Zenon
    <3>2. from = ssFile.version
      BY <1>5, <2>6, <3>1
    <3> QED BY <2>6, <3>2
  <2>8. ssFile' = Schema(to, ssFile.id, H) /\ Fits(next, to)
    BY <1>1, <2>3, <2>4, <2>6
  <2> QED BY <1>2, <2>3, <2>4, <2>5, <2>7, <2>8, SchemaIsNext
<1> QED BY <1>3, <1>4, <1>5

LEMMA MigrateKeeps == ASSUME SchemaInv, NEW o \in SsOpeners, Migrate(o) PROVE SchemaInv'
<1>1. PICK w \in 0 .. 7, i \in 0 .. 2, H \in {ssFile.hotkeys} : ssFile = Schema(w, i, H) /\ w = ssFile.version /\ H = ssFile.hotkeys /\ i = ssFile.id
  BY DEF SchemaInv, FileFine
<1>2. PICK opener \in OpenerRecs : opener = ssOpener[o] /\ opener.pc = "migrate" /\ Fits(opener, w)
  BY <1>1, OpenerIs DEF Migrate, At
<1>3. PICK v \in 1 .. 5 : v = opener.version /\ v <= w /\ w <= 6
  BY <1>2 DEF Fits
<1>4. w \in 1 .. 6
  BY <1>1, <1>3 DEF SchemaInv, FileFine
<1>5. ssHotkeys' = ssHotkeys
      /\ Applied(o, Migration(v, ssFile), [opener EXCEPT !.version = v + 1, !.pc = IF v + 1 = Latest THEN "id" ELSE "flavor"])
  BY <1>2, <1>3, Zenon DEF Migrate
<1>6. CASE v < w
  <2>1. ~Migration(v, ssFile).ok
    BY <1>1, <1>3, <1>4, <1>6, LateFails
  <2>2. ssOpener' = [ssOpener EXCEPT ![o] = Closed] /\ ssFile' = ssFile
    BY <1>5, <2>1 DEF Applied, Fails
  <2> QED BY <1>5, <2>2, ClosedFits, OpenerMoves
<1>7. CASE v = w
  <2>1. PICK K : K = KeptBy(v, H)
    OBVIOUS
  <2>2. Migration(v, ssFile) = Begun(Schema(v + 1, i, K))
    BY <1>1, <1>7, <2>1, MigrationIs
  <2>3. PICK next : next = [opener EXCEPT !.version = v + 1, !.pc = IF v + 1 = Latest THEN "id" ELSE "flavor"]
    OBVIOUS
  <2>4. ssFile' = Schema(v + 1, i, K) /\ ssOpener' = [ssOpener EXCEPT ![o] = next]
    BY <1>5, <2>2, <2>3 DEF Applied, Begun
  <2>5. next \in OpenerRecs /\ next.version = v + 1 /\ next.pc = IF v + 1 = 6 THEN "id" ELSE "flavor"
    <3>1. PICK stage : stage = IF v + 1 = 6 THEN "id" ELSE "flavor"
      OBVIOUS
    <3>2. next = [opener EXCEPT !.version = v + 1, !.pc = stage]
      BY <2>3, <3>1 DEF Latest
    <3>3. stage \in {"id", "flavor"} /\ v + 1 \in 0 .. 6
      BY <3>1
    <3>4. next \in OpenerRecs /\ next.version = v + 1 /\ next.pc = stage
      BY <1>2, <3>2, <3>3 DEF OpenerRecs
    <3> QED BY <3>1, <3>4
  <2>6. Fits(next, v + 1)
    BY <2>5 DEF Fits
  <2>7. K = ssHotkeys /\ (v \in 1 .. 3 => Unscoped(K) = K)
    <3>1. /\ v # 1 => H = ssHotkeys
          /\ v = 1 => ssHotkeys = AsSet
          /\ v \in 1 .. 4 => Unscoped(ssHotkeys) = ssHotkeys
      <4>1. v = ssFile.version /\ H = ssFile.hotkeys
        BY <1>1, <1>7
      <4> QED BY <4>1 DEF SchemaInv, HotkeysFine
    <3>2. (v = 1 /\ K = AsSet) \/ (v = 4 /\ K = Unscoped(H)) \/ (v # 1 /\ v # 4 /\ K = H)
      BY <2>1 DEF KeptBy
    <3>3. 4 \in 1 .. 4 /\ (v \in 1 .. 3 => v \in 1 .. 4) /\ 4 # 1
      OBVIOUS
    <3>4. K = ssHotkeys
      BY <3>1, <3>2, <3>3
    <3> QED BY <3>1, <3>3, <3>4
  <2>8. PICK x \in 2 .. 6 : x = v + 1 /\ v # 0 /\ v \in 0 .. 5
    OBVIOUS
  <2> QED BY <1>1, <1>5, <1>7, <2>4, <2>5, <2>6, <2>7, <2>8, SchemaIsNext
<1> QED BY <1>3, <1>4, <1>6, <1>7

LEMMA EditKeepsSchema == ASSUME SchemaInv, NEW o \in SsOpeners, Edit(o) PROVE SchemaInv'
<1>1. PICK s \in SsSounds :
        ssFile' = [ssFile EXCEPT !.hotkeys = {b \in @ : b.sound # s}
                                             \cup {[sound |-> s, active |-> TRUE, scope |-> SsTab]}]
  BY DEF Edit
<1>2. ssFile.version = 6 /\ ssHotkeys' = ssFile'.hotkeys /\ ssOpener' = ssOpener
  BY DEF Edit, Latest
<1>3. PICK i, H : ssFile = Schema(6, i, H) /\ i = ssFile.id
  BY <1>2 DEF SchemaInv, FileFine
<1>4. PICK G : ssFile' = Schema(6, i, G)
  <2>1. PICK G : G = {b \in ssFile.hotkeys : b.sound # s} \cup {[sound |-> s, active |-> TRUE, scope |-> SsTab]}
    OBVIOUS
  <2>2. ssFile' = [ssFile EXCEPT !.hotkeys = G]
    BY <1>1, <2>1
  <2>3. ssFile' = Schema(6, i, G)
    BY <1>3, <2>2 DEF Schema, File
  <2> QED BY <2>3
<1>5. ssFile'.version = 6 /\ ssFile'.id = i /\ ssFile'.hotkeys = G
  BY <1>4, FieldsOfSchema
<1>6. FileFine'
  BY <1>3, <1>4, <1>5 DEF SchemaInv, FileFine
<1>7. HotkeysFine'
  BY <1>2, <1>5 DEF HotkeysFine
<1>8. OpenersFine'
  BY <1>2, <1>5 DEF SchemaInv, OpenersFine, Fits
<1> QED BY <1>6, <1>7, <1>8 DEF SchemaInv

LEMMA SchemaStep == SchemaInv /\ [SsNext]_ssVars => SchemaInv'
<1> SUFFICES ASSUME SchemaInv, [SsNext]_ssVars PROVE SchemaInv'
  OBVIOUS
<1>1. CASE UNCHANGED ssVars
  BY <1>1 DEF ssVars, SchemaInv, FileFine, HotkeysFine, OpenersFine, Fits
<1>2. ASSUME NEW o \in SsOpeners,
             \/ ReadVersion(o) \/ WriteId(o) \/ CreateTables(o) \/ ReadFlavor(o) \/ Migrate(o)
             \/ CheckMeta(o) \/ OwnFile(o) \/ OpenerEnds(o) \/ Edit(o)
      PROVE SchemaInv'
  <2>1. CASE WriteId(o)
    BY <2>1, IdIsWritten DEF WriteId, At
  <2>2. CASE OwnFile(o)
    BY <2>2, IdIsWritten DEF OwnFile, At
  <2> QED
    BY <1>2, <2>1, <2>2, ReadVersionKeeps, CreateTablesKeeps, ReadFlavorKeeps, MigrateKeeps, CheckMetaKeeps,
       OpenerEndsKeeps, EditKeepsSchema
<1> QED BY <1>1, <1>2 DEF SsNext

LEMMA SchemaLosesNothing == SchemaInv => MigrationsLoseNothing
<1> SUFFICES ASSUME SchemaInv PROVE MigrationsLoseNothing
  OBVIOUS
<1>1. ASSUME NEW o \in SsOpeners, At(o, "open")
      PROVE /\ ssFile.version = Latest /\ ssFile.flavor = Latest
            /\ ssFile.tables = LeftBy[6].tables /\ ssFile.indexes = LeftBy[6].indexes
  <2>1. ssFile.version = 6
    BY <1>1, OpenerIs DEF At, Fits
  <2>2. PICK i, H : ssFile = Schema(6, i, H)
    BY <2>1 DEF SchemaInv, FileFine
  <2>3. ssFile.flavor = 6 /\ ssFile.tables = TablesOf(6) /\ ssFile.indexes = IndexesOf(6)
    BY <2>2, FieldsOfSchema
  <2>4. LeftBy[6] = Schema(6, OurId, AsSet)
    BY LeftByIs
  <2>5. LeftBy[6].tables = TablesOf(6) /\ LeftBy[6].indexes = IndexesOf(6)
    BY <2>4, FieldsOfSchema
  <2> QED BY <2>1, <2>3, <2>5 DEF Latest
<1> QED BY <1>1 DEF MigrationsLoseNothing, OpenedIsLatest, SchemaInv, HotkeysFine

\* Whoever has opened the library has it in the latest schema and with every
\* hotkey as the user has set it, for any number of openers, sounds and keys, and
\* however often they are killed or late (open_connection, the migrations).
THEOREM NothingIsLost == SsSpec => []MigrationsLoseNothing
<1> QED BY SchemaStart, SchemaStep, SchemaLosesNothing, PTL DEF SsSpec
=============================================================================
