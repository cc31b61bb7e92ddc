------------------------------ MODULE StoreSchema ------------------------------
(***************************************************************************)
(* Opening the library database: open_inner and open_connection of         *)
(* library_store.rs, with the schema and the migrations from the first to  *)
(* the sixth.                                                              *)
(*                                                                         *)
(* An opener reads the version, and then, for each migration it needs, the *)
(* flavor and only then begins the transaction that rewrites the tables.   *)
(* Between any two of these another session's opener may do the same, or   *)
(* be done and its user edit; an opener may be killed anywhere.  SQLite    *)
(* runs a transaction wholly or not at all, and stops it at the first      *)
(* statement that fails: a table, an index or a column that is there       *)
(* already, or not there.                                                  *)
(***************************************************************************)
EXTENDS Naturals, Sequences, FiniteSets

CONSTANTS
  SsOpeners,
  SsSounds,      \* sounds that had a hotkey in schema 1
  SsKeyOf,       \* the key of each one's hotkey, however it was spelled
  SsVersions,    \* the schemas the file may have at first; 0: none
  SsNone,        \* no scope
  SsTab,         \* a tab a hotkey may be limited to
  SsMaxEvents    \* bound: kills, failures, starts and edits

ASSUME StoreSchemaAssumption == SsVersions \subseteq 0 .. 7 /\ SsMaxEvents \in Nat

VARIABLES
  ssFile,     \* the database
  ssOpener,   \* the local variables of each opener
  ssHotkeys,  \* history: the hotkeys as the user has set them
  ssEvents

ssVars == <<ssFile, ssOpener, ssHotkeys, ssEvents>>

Latest == 6           \* DATABASE_SCHEMA_VERSION
OurId == 1            \* DATABASE_APPLICATION_ID
ForeignId == 2

\* Lowercase and trimmed, a hotkey that no other sound has works; the others
\* need the user's attention.
Unique(s) == \A t \in SsSounds \ {s} : SsKeyOf[t] # SsKeyOf[s]
AsSet == {[sound |-> s, active |-> Unique(s), scope |-> SsNone] : s \in SsSounds}

-----------------------------------------------------------------------------
(* Statements. A file has tables and columns, indexes on tables, and rows of *)
(* hotkeys; an index goes with its table, and keeps its name when the table  *)
(* is renamed.                                                               *)

Table(t) == [do |-> "table", name |-> t, on |-> t]
DropTable(t) == [do |-> "drop_table", name |-> t, on |-> t]
Rename(t, u) == [do |-> "rename", name |-> u, on |-> t]
Index(i, t) == [do |-> "index", name |-> i, on |-> t]
DropIndex(i) == [do |-> "drop_index", name |-> i, on |-> i]
Copy(what) == [do |-> "copy", name |-> what, on |-> "hotkey_bindings"]
SetVersion(v) == [do |-> "version", name |-> v, on |-> v]

IndexNames(file) == {i.name : i \in file.indexes}

\* Can the statement run?
Runs(file, s) ==
  CASE s.do = "table" -> s.name \notin file.tables
    [] s.do = "drop_table" -> s.name \in file.tables
    [] s.do = "rename" -> s.on \in file.tables /\ s.name \notin file.tables
    [] s.do = "index" -> s.on \in file.tables /\ s.name \notin IndexNames(file)
    [] s.do = "drop_index" -> s.name \in IndexNames(file)
    [] OTHER -> TRUE

\* What the copies do: the first migration makes rows of the column, the one
\* to schema 5 takes no scope over, which its source did not have.
Copied(file, what) ==
  CASE what = "column" -> AsSet
    [] what = "unscoped" -> {[b EXCEPT !.scope = SsNone] : b \in file.hotkeys}
    [] OTHER -> file.hotkeys

Run(file, s) ==
  CASE s.do = "table" -> [file EXCEPT !.tables = @ \cup {s.name}]
    [] s.do = "drop_table" ->
         [file EXCEPT !.tables = @ \ {s.name}, !.indexes = {i \in @ : i.on # s.name}]
    [] s.do = "rename" ->
         [file EXCEPT !.tables = (@ \ {s.on}) \cup {s.name},
                      !.indexes = {IF i.on = s.on THEN [i EXCEPT !.on = s.name] ELSE i : i \in @}]
    [] s.do = "index" -> [file EXCEPT !.indexes = @ \cup {[name |-> s.name, on |-> s.on]}]
    [] s.do = "drop_index" -> [file EXCEPT !.indexes = {i \in @ : i.name # s.name}]
    [] s.do = "copy" -> [file EXCEPT !.hotkeys = Copied(file, s.name)]
    [] OTHER -> [file EXCEPT !.version = s.name, !.flavor = s.name]

\* A transaction is its statements, one after the other, until one fails.
Begun(file) == [ok |-> TRUE, file |-> file]
Then(done, s) ==
  IF done.ok /\ Runs(done.file, s) THEN Begun(Run(done.file, s)) ELSE [ok |-> FALSE, file |-> done.file]
done ++ s == Then(done, s)

\* HOTKEY_BINDINGS_SCHEMA.
HotkeyBindingsSchema(done) ==
  done ++ Table("hotkey_bindings")
       ++ Index("active_lookup", "hotkey_bindings")
       ++ Index("sound_scope", "hotkey_bindings")
       ++ Index("target_tab", "hotkey_bindings")

\* create_schema: the other tables, which no migration touches, are "meta".
CreateSchema(file) ==
  HotkeyBindingsSchema(Begun(file) ++ Table("meta"))
    ++ Table("legacy_generated_tabs") ++ Table("hidden_column") ++ SetVersion(6)

\* migrate_schema_4_to_5.
FourToFive(file) ==
  Begun(file) ++ Rename("hotkey_bindings", "hotkey_bindings_v4")
              ++ Table("hotkey_bindings")
              ++ Index("active_lookup", "hotkey_bindings")
              ++ Index("target_tab", "hotkey_bindings")
              ++ Copy("unscoped")
              ++ DropTable("hotkey_bindings_v4") ++ SetVersion(5)

\* The renamed table keeps its indexes, whose names the new one claims.
RenamedFive(file) ==
  Begun(file) ++ Rename("hotkey_bindings", "hotkey_bindings_v5")
              ++ DropIndex("active_lookup") ++ DropIndex("target_tab")

\* Fault: it copies the columns that the one before it copies.
FiveToSixUnscoped(file) ==
  HotkeyBindingsSchema(RenamedFive(file))
    ++ Copy("unscoped") ++ DropTable("hotkey_bindings_v5") ++ SetVersion(6)

\* migrate_schema_5_to_6.
FiveToSix(file) ==
  HotkeyBindingsSchema(RenamedFive(file))
    ++ Copy("all") ++ DropTable("hotkey_bindings_v5") ++ SetVersion(6)

\* migrate_schema_1_to_2 .. migrate_schema_3_to_4, and these.
OneToTwo(file) ==
  Begun(file) ++ Table("hotkey_bindings") ++ Copy("column")
              ++ Index("active_normalized", "hotkey_bindings")
              ++ DropIndex("sounds_hotkey") ++ DropTable("hotkey_column") ++ SetVersion(2)
Migration(from, file) ==
  CASE from = 1 -> OneToTwo(file)
    [] from = 2 -> Begun(file) ++ Table("legacy_generated_tabs") ++ SetVersion(3)
    [] from = 3 -> Begun(file) ++ Table("hidden_column") ++ SetVersion(4)
    [] from = 4 -> FourToFive(file)
    [] OTHER -> FiveToSix(file)

-----------------------------------------------------------------------------
(* Files there may be. *)

Empty == [version |-> 0, flavor |-> 0, id |-> 0, tables |-> {}, indexes |-> {}, hotkeys |-> {}]
First ==
  [version |-> 1, flavor |-> 1, id |-> OurId, tables |-> {"meta", "hotkey_column"},
   indexes |-> {[name |-> "sounds_hotkey", on |-> "hotkey_column"]}, hotkeys |-> {}]

\* The file an earlier version of the program left.
Second == Migration(1, First).file
Third == Migration(2, Second).file
Fourth == Migration(3, Third).file
Fifth == Migration(4, Fourth).file
Sixth == Migration(5, Fifth).file
LeftBy == <<First, Second, Third, Fourth, Fifth, Sixth>>

\* A new file, one of each schema, with hotkeys limited to tabs where it has
\* them, and one of a later program; each with our application id, none or
\* another program's.
FileOf(v) ==
  CASE v = 0 -> Empty
    [] v \in 1 .. 4 -> LeftBy[v]
    [] OTHER -> Run([LeftBy[IF v = 5 THEN 5 ELSE Latest] EXCEPT
                       !.hotkeys = {[b EXCEPT !.scope = SsTab] : b \in @}], SetVersion(v))
StoredFiles == {[FileOf(v) EXCEPT !.id = i] : v \in SsVersions, i \in {0, OurId, ForeignId}}

Closed == [pc |-> "closed", version |-> 0, id |-> 0]

SsInit ==
  /\ ssFile \in StoredFiles
  /\ ssOpener = [o \in SsOpeners |-> Closed]
  /\ ssHotkeys = IF ssFile.version = 1 THEN AsSet ELSE ssFile.hotkeys
  /\ ssEvents = 0

SsHappens == ssEvents < SsMaxEvents /\ ssEvents' = ssEvents + 1
At(o, pc) == ssOpener[o].pc = pc
OpenerGoes(o, pc) == ssOpener' = [ssOpener EXCEPT ![o].pc = pc]
Fails(o) == ssOpener' = [ssOpener EXCEPT ![o] = Closed]

-----------------------------------------------------------------------------
(* open_connection. *)

\* A process starts and reads the version and the application id.
ReadVersion(o) ==
  /\ At(o, "closed") /\ SsHappens
  /\ LET refused == \/ ssFile.version # 0 /\ ssFile.id \notin {0, OurId}
                    \/ ssFile.version > Latest
     IN  IF refused THEN Fails(o)
         ELSE ssOpener' = [ssOpener EXCEPT ![o] =
                [pc |-> CASE ssFile.version = 0 -> "create"
                          [] ssFile.version = Latest -> "check"
                          [] OTHER -> "flavor",
                 version |-> ssFile.version, id |-> ssFile.id]]
  /\ UNCHANGED <<ssFile, ssHotkeys>>

\* create_schema: the application id is written first.
WriteId(o) ==
  /\ At(o, "create")
  /\ ssFile' = [ssFile EXCEPT !.id = OurId]
  /\ OpenerGoes(o, "tables")
  /\ UNCHANGED <<ssHotkeys, ssEvents>>

Applied(o, done, next) ==
  IF done.ok
  THEN /\ ssFile' = done.file
       /\ ssOpener' = [ssOpener EXCEPT ![o] = next]
  ELSE Fails(o) /\ UNCHANGED ssFile

CreateTables(o) ==
  /\ At(o, "tables")
  /\ Applied(o, CreateSchema(ssFile), [ssOpener[o] EXCEPT !.pc = "id"])
  /\ UNCHANGED <<ssHotkeys, ssEvents>>

\* Each migration looks at the flavor before it begins.
ReadFlavor(o) ==
  /\ At(o, "flavor")
  /\ IF ssFile.flavor = ssOpener[o].version THEN OpenerGoes(o, "migrate") ELSE Fails(o)
  /\ UNCHANGED <<ssFile, ssHotkeys, ssEvents>>

Migrate(o) ==
  LET v == ssOpener[o].version
  IN  /\ At(o, "migrate")
      /\ Applied(o, Migration(v, ssFile),
                 [ssOpener[o] EXCEPT !.version = v + 1, !.pc = IF v + 1 = Latest THEN "id" ELSE "flavor"])
      /\ UNCHANGED <<ssHotkeys, ssEvents>>

\* A file of the latest schema has to say so in its metadata too.
CheckMeta(o) ==
  /\ At(o, "check")
  /\ IF ssFile.flavor = Latest THEN OpenerGoes(o, "id") ELSE Fails(o)
  /\ UNCHANGED <<ssFile, ssHotkeys, ssEvents>>

\* The id a file lacked when its version was read is written.
OwnFile(o) ==
  /\ At(o, "id")
  /\ ssFile' = IF ssOpener[o].id = 0 THEN [ssFile EXCEPT !.id = OurId] ELSE ssFile
  /\ OpenerGoes(o, "open")
  /\ UNCHANGED <<ssHotkeys, ssEvents>>

\* The process is killed or closes, a request fails, or the database stays
\* locked for longer than busy_timeout.
OpenerEnds(o) ==
  /\ ~At(o, "closed") /\ SsHappens
  /\ Fails(o)
  /\ UNCHANGED <<ssFile, ssHotkeys>>

\* The user of an open library limits a hotkey to a tab, or adds the first.
Edit(o) ==
  /\ At(o, "open") /\ SsHappens
  /\ ssFile.version = Latest
  /\ \E s \in SsSounds :
       ssFile' = [ssFile EXCEPT !.hotkeys = {b \in @ : b.sound # s}
                                            \cup {[sound |-> s, active |-> TRUE, scope |-> SsTab]}]
  /\ ssHotkeys' = ssFile'.hotkeys
  /\ UNCHANGED ssOpener

SsNext ==
  \E o \in SsOpeners :
    \/ ReadVersion(o) \/ WriteId(o) \/ CreateTables(o) \/ ReadFlavor(o) \/ Migrate(o)
    \/ CheckMeta(o) \/ OwnFile(o) \/ OpenerEnds(o) \/ Edit(o)

SsSpec == SsInit /\ [][SsNext]_ssVars

-----------------------------------------------------------------------------
(* Properties. *)

SchemaTypeOK ==
  /\ ssFile.version \in 0 .. 7 /\ ssFile.flavor \in 0 .. 7 /\ ssFile.id \in 0 .. 2
  /\ \A i \in ssFile.indexes : i.on \in ssFile.tables
  /\ \A b \in ssFile.hotkeys : b.sound \in SsSounds /\ b.active \in BOOLEAN /\ b.scope \in {SsNone, SsTab}
  /\ ssOpener \in [SsOpeners ->
       [pc : {"closed", "create", "tables", "flavor", "migrate", "check", "id", "open"},
        version : 0 .. 6, id : 0 .. 2]]

\* Who has opened the library finds it in the latest schema, with every table
\* and index of it, whoever else migrates it, is late to it, or is killed at it.
OpenedIsLatest ==
  \A o \in SsOpeners : At(o, "open") =>
    /\ ssFile.version = Latest /\ ssFile.flavor = Latest
    /\ ssFile.tables = LeftBy[6].tables /\ ssFile.indexes = LeftBy[6].indexes

\* And no migration loses a hotkey or what the user has set of it: one that
\* begins after another opener's has ended, and its user has edited, fails
\* instead of doing its part a second time.
MigrationsLoseNothing ==
  /\ OpenedIsLatest
  /\ ssFile.version # 1 => ssFile.hotkeys = ssHotkeys
===============================================================================
