---------------------------- MODULE StoreSchema -----------------------------
(***************************************************************************)
(* Opening the local store (store/store.go OpenWithContext, migrate):      *)
(* processes of several releases open one database file, and whoever finds *)
(* it behind brings it up to its own release in one transaction.           *)
(*                                                                         *)
(* The file is a record: the stamped version, the newest release whose     *)
(* tables and columns exist, how the resources table is keyed, how its     *)
(* full-text index is keyed and filled, its rows, and the indexed rows.  A *)
(* transaction works on a copy that the commit publishes.                  *)
(***************************************************************************)
EXTENDS Integers, FiniteSets

CONSTANTS
    Opener,         \* processes that open the store
    Release,        \* the StoreSchemaVersion values they may be built with
    Found,          \* stamped versions the file may have at first; 0: none
    Row,            \* rows of the resources table
    Opens           \* bound: times each process opens the store

CompositeKeyRelease == 2    \* resources keyed by type and id, FTS rowids with it
ContentRelease == 4         \* resourcesFTSContentSchemaVersion

NoOpener == "no opener"

ASSUME SchemaAssumption ==
    /\ NoOpener \notin Opener
    /\ Release \subseteq Nat /\ Found \subseteq Nat /\ Opens \in Nat
    /\ \A r \in Release : r >= ContentRelease

VARIABLES
    file,           \* the committed database
    holder,         \* the process inside BEGIN IMMEDIATE, or none
    work,           \* that transaction's view of the database
    opener          \* each process: its release, its step, what it has read

schemaVars == <<file, holder, work, opener>>

Database == [version : Found \cup Release, tables : Found \cup Release,
             key : {"absent", "id", "pair"}, ftsKey : {"absent", "id", "pair"},
             content : {"absent", "raw", "leaves"},
             rows : SUBSET Row, indexed : SUBSET Row]

\* What the releases before leave behind: version 0 is an empty file, or a
\* store from before versions were stamped.
Shapes(v) ==
    {d \in Database :
        /\ d.version = v /\ d.tables = v
        /\ d.key \in (IF v = 0 THEN {"absent", "id"}
                      ELSE IF v < CompositeKeyRelease THEN {"id", "pair"} ELSE {"pair"})
        /\ d.ftsKey = (IF d.key = "absent" THEN "absent"
                       ELSE IF v <= CompositeKeyRelease THEN "id" ELSE "pair")
        /\ d.content = (IF d.key = "absent" THEN "absent"
                        ELSE IF v < ContentRelease THEN "raw" ELSE "leaves")
        /\ d.rows \in (IF d.key = "absent" THEN {{}} ELSE {Row})
        /\ d.indexed = d.rows}

Shut(r, left) == [release |-> r, step |-> "shut", seen |-> 0, left |-> left]

SchemaInit ==
    /\ file \in UNION {Shapes(v) : v \in Found}
    /\ holder = NoOpener
    /\ work = file
    /\ opener \in [Opener -> {Shut(r, Opens) : r \in Release}]

-----------------------------------------------------------------------------

AtStep(p, step) == opener[p].step = step
GoTo(p, step) == opener' = [opener EXCEPT ![p].step = step]

\* rejectNewerSchemaBeforeJournalMode.  A probe that fails is left to the
\* normal open to report.
Preflight(p) ==
    /\ AtStep(p, "shut") /\ opener[p].left > 0
    /\ \E answered \in BOOLEAN :
         opener' = [opener EXCEPT ![p].left = @ - 1,
                      ![p].step = IF answered /\ file.version > opener[p].release
                                  THEN "shut" ELSE "connected"]
    /\ UNCHANGED <<file, holder, work>>

\* migrate, before the lock.
ReadVersion(p) ==
    /\ AtStep(p, "connected")
    /\ opener' = [opener EXCEPT ![p].seen = file.version,
                    ![p].step = IF file.version > opener[p].release
                                THEN "shut" ELSE "waiting"]
    /\ UNCHANGED <<file, holder, work>>

\* BEGIN IMMEDIATE: one writer at a time; the others are told the file is busy.
BeginMigration(p) ==
    /\ AtStep(p, "waiting") /\ holder = NoOpener
    /\ holder' = p /\ work' = file
    /\ GoTo(p, "locked")
    /\ UNCHANGED file

\* retryOnBusy gives up at the deadline, or when its context ends.
BusyTooLong(p) ==
    /\ AtStep(p, "waiting") /\ holder # NoOpener
    /\ GoTo(p, "shut")
    /\ UNCHANGED <<file, holder, work>>

\* Broken: the transaction is left open.
AbandonOpen(p) == GoTo(p, "shut") /\ UNCHANGED <<file, holder, work>>

Abandon(p) == holder' = NoOpener /\ work' = file /\ GoTo(p, "shut") /\ UNCHANGED file

\* Broken: the version read before the lock is believed.
RereadUnchecked(p) ==
    /\ AtStep(p, "locked")
    /\ opener' = [opener EXCEPT ![p].seen = work.version, ![p].step = "keys"]
    /\ UNCHANGED <<file, holder, work>>

\* The version is read again inside the lock.
Reread(p) ==
    /\ AtStep(p, "locked")
    /\ IF work.version > opener[p].release
       THEN Abandon(p)
       ELSE /\ opener' = [opener EXCEPT ![p].seen = work.version, ![p].step = "keys"]
            /\ UNCHANGED <<file, holder, work>>

\* rebuildResourcesFTS: drop, create and fill from every resources row.
Rebuilt(d) == [d EXCEPT !.ftsKey = "pair", !.content = "leaves", !.indexed = d.rows]

\* The table is copied into one with the composite key, dropped and replaced.
Rekeyed(d) == IF d.key = "pair" THEN d ELSE [d EXCEPT !.key = "pair"]

CompositeKey(d) == IF d.key = "absent" THEN d ELSE Rebuilt(Rekeyed(d))
FTSRowIDs(d) == IF d.key = "absent" THEN d ELSE Rebuilt(d)
FTSContent(d) == IF d.key = "absent" THEN d ELSE Rebuilt(d)

Keyed(d, seen) == IF seen < CompositeKeyRelease THEN CompositeKey(d)
                  ELSE IF seen = CompositeKeyRelease THEN FTSRowIDs(d) ELSE d

MigrateKeys(p) ==
    /\ AtStep(p, "keys")
    /\ work' = Keyed(work, opener[p].seen)
    /\ GoTo(p, "tables")
    /\ UNCHANGED <<file, holder>>

\* backfillColumns, the CREATE ... IF NOT EXISTS statements and migrateExtras.
Tabled(d, release) ==
    [d EXCEPT !.tables = IF release > @ THEN release ELSE @,
              !.key = IF @ = "absent" THEN "pair" ELSE @,
              !.ftsKey = IF @ = "absent" THEN "pair" ELSE @,
              !.content = IF @ = "absent" THEN "leaves" ELSE @]

CreateTables(p) ==
    /\ AtStep(p, "tables")
    /\ work' = Tabled(work, opener[p].release)
    /\ GoTo(p, "content")
    /\ UNCHANGED <<file, holder>>

\* Broken: off by one.
NeedsContentBefore(seen) == seen < ContentRelease - 1

NeedsContent(seen) == seen < ContentRelease

MigrateContent(p) ==
    /\ AtStep(p, "content")
    /\ work' = IF NeedsContent(opener[p].seen) THEN FTSContent(work) ELSE work
    /\ GoTo(p, "stamp")
    /\ UNCHANGED <<file, holder>>

Stamp(p) ==
    /\ AtStep(p, "stamp")
    /\ work' = [work EXCEPT !.version = opener[p].release]
    /\ GoTo(p, "commit")
    /\ UNCHANGED <<file, holder>>

CommitMigration(p) ==
    /\ AtStep(p, "commit")
    /\ file' = work
    /\ holder' = NoOpener
    /\ GoTo(p, "open")
    /\ UNCHANGED work

Migrating == {"locked", "keys", "tables", "content", "stamp", "commit"}

\* A statement fails, the context ends, the commit stays busy to the deadline:
\* ROLLBACK.  The death of the process has the same effect on the file.
FailMigration(p) == opener[p].step \in Migrating /\ Abandon(p)

\* upsertGenericResourceTx by a process with the store open.  The full-text
\* row may fail to be written: that is only a warning.
UpsertRow(p) ==
    /\ AtStep(p, "open") /\ holder = NoOpener
    /\ \E r \in Row \ file.rows, found \in BOOLEAN :
         file' = [file EXCEPT !.rows = @ \cup {r},
                              !.indexed = IF found THEN @ \cup {r} ELSE @ \ {r}]
    /\ UNCHANGED <<holder, work, opener>>

Close(p) == AtStep(p, "open") /\ GoTo(p, "shut") /\ UNCHANGED <<file, holder, work>>

Migrate(p) == Reread(p) \/ MigrateKeys(p) \/ CreateTables(p) \/ MigrateContent(p)
              \/ Stamp(p) \/ CommitMigration(p)

SchemaNext == \E p \in Opener :
    \/ Preflight(p) \/ ReadVersion(p) \/ BeginMigration(p) \/ BusyTooLong(p)
    \/ Migrate(p) \/ FailMigration(p) \/ UpsertRow(p) \/ Close(p)

SchemaSpec == SchemaInit /\ [][SchemaNext]_schemaVars

-----------------------------------------------------------------------------

OpenerState ==
    [release : Release, seen : {0} \cup Found \cup Release, left : 0 .. Opens,
     step : {"shut", "connected", "waiting", "open"} \cup Migrating]

SchemaTypeOK ==
    /\ file \in Database /\ work \in Database
    /\ \A p \in Opener : opener[p].step \in Migrating <=> holder = p
    /\ holder \in Opener \cup {NoOpener}
    /\ opener \in [Opener -> OpenerState]

\* A committed version says what the file holds: from the composite-key release
\* on the table and its index are keyed by type and id, from the content release
\* on the index holds leaf values, and the tables of the stamped release exist.
\* No failed, killed or interleaved migration may leave a stamp ahead of its work,
\* and a process whose open succeeded finds the tables of its own release and a
\* composite key, whatever other releases do to the file afterwards.
SchemaMatchesStamp ==
    /\ file.version > CompositeKeyRelease => file.key = "pair" /\ file.ftsKey = "pair"
    /\ file.version >= ContentRelease => file.content = "leaves"
    /\ file.tables >= file.version
    /\ \A p \in Opener : AtStep(p, "open") =>
         file.tables >= opener[p].release /\ file.key = "pair" /\ file.ftsKey = "pair"

\* No migration loses a row, or drops one from the index that it was in; and no
\* process lowers the stamped version, nor rewrites a file that is stamped for a
\* release newer than its own, even when the stamp appears between its two reads.
MigrationKeeps ==
    [][/\ file.rows \subseteq file'.rows /\ file.indexed \subseteq file'.indexed
       /\ file'.version >= file.version
       /\ \A p \in Opener : holder = p /\ file' # file => opener[p].release >= file.version
      ]_schemaVars
=============================================================================
