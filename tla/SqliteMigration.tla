--------------------------- MODULE SqliteMigration ---------------------------
(***************************************************************************)
(* Opening one of the local SQLite databases (sqlite_migrations.py and      *)
(* sqlite_runtime.py).  Every store object migrates its database when it is *)
(* made: under a file lock shared by all processes it repairs what an       *)
(* interrupted migration left, judges the recorded schema, takes a verified *)
(* backup of existing tables, leaves a marker that names the backup, and    *)
(* brings the schema to the version of this build in one transaction.       *)
(*                                                                          *)
(*   closed -> starting -> waiting -> recovering                            *)
(*   [-> restoring -> recovered] -> checking [-> copying -> verifying]      *)
(*   -> marking -> migrating -> unmarking -> open                           *)
(*                                 (or, on an error, abandoning -> closed)  *)
(***************************************************************************)
EXTENDS Processes, Integers, Sequences, FiniteSets

CONSTANTS
    Target,        \* schema version of this build
    Retention,     \* backups kept per database
    Rows,          \* what rows of the domain table can be (a set)
    MaxTries,      \* bound: attempts of one process to open the database
    MaxDamage,     \* bound: faults of the disk under the database
    TempLeft       \* a marker write may fail and leave its temporary file

ASSUME MigrationAssumption ==
    /\ Target \in Nat \ {0} /\ Retention \in 1..50
    /\ MaxTries \in Nat /\ MaxDamage \in Nat
    /\ TempLeft \in BOOLEAN

\* The singleton row of rygnal_schema_metadata.
SchemaRecord == [component: {"ours", "other"}, version: 1..(Target + 1), checksum: {"ours", "other"}]
NoRecord == [component |-> "none", version |-> 0, checksum |-> "none"]
ReadyRecord == [component |-> "ours", version |-> Target, checksum |-> "ours"]

\* The domain table: missing, without the column a migration adds, complete,
\* or without a column that no migration adds.
Table == {"none", "legacy", "current", "broken"}

Database == [sound: BOOLEAN, table: Table, record: SchemaRecord \cup {NoRecord},
             version: 0..(Target + 1), rows: Seq(Rows)]

MigrationPC == {"closed", "starting", "waiting", "recovering", "restoring", "recovered", "checking",
                "copying", "verifying", "marking", "migrating", "unmarking",
                "abandoning", "open", "dead"}

VARIABLES
    db,        \* the database file
    backups,   \* backup files, oldest first: [id, good, content]
    made,      \* number of backups ever begun
    marker,    \* the migration marker: "none", or the backup id it names, or 0
    mlock,     \* the process that holds the migration lock
    mig,       \* [Procs -> MigrationPC]
    tries,     \* [Procs -> attempts so far]
    temp,      \* processes whose temporary marker file was left behind
    damage     \* disk faults so far

migrationVars == <<db, backups, made, marker, mlock, mig, tries, temp, damage>>

NoMarker == -1
NoBackup == 0

MigrationInit ==
    /\ backups = <<>> /\ made = 0 /\ damage = 0
    /\ marker = NoMarker /\ temp = {}
    /\ mlock = NoProc
    /\ mig = [p \in Procs |-> "closed"]
    /\ tries = [p \in Procs |-> 0]

----------------------------------------------------------------------------
MStep(p, from, to) ==
    /\ mig[p] = from
    /\ mig' = [mig EXCEPT ![p] = to]

\* Fault: an exception leaves the lock behind.
RaiseHolding(p, from) == MStep(p, from, "closed") /\ UNCHANGED mlock

\* An exception leaves the with-block of the lock.
Raise(p, from) == MStep(p, from, "closed") /\ mlock' = NoProc

\* migrate_sqlite_schema is called: argument checks, no symlink on the path.
StartOpen(p) ==
    /\ p \in alive /\ tries[p] < MaxTries
    /\ tries' = [tries EXCEPT ![p] = @ + 1]
    /\ MStep(p, "closed", "starting")
    /\ UNCHANGED <<db, backups, made, marker, mlock, temp, damage>>

\* initialize_sqlite_database, 100 attempts to switch to WAL mode beside other
\* processes; then the mode and the owner of the file.  Nothing is locked yet.
EnableWal(p) ==
    /\ MStep(p, "starting", "waiting") \/ MStep(p, "starting", "closed")
    /\ UNCHANGED <<db, backups, made, marker, mlock, tries, temp, damage>>

\* flock(LOCK_EX); the kernel drops it when the holder dies.
LockMigration(p) ==
    /\ mlock = NoProc /\ mlock' = p
    /\ MStep(p, "waiting", "recovering")
    /\ UNCHANGED <<db, backups, made, marker, tries, temp, damage>>

BackupNamed(n) == {b \in 1..Len(backups) : backups[b].id = n}

\* _recover_interrupted_migration: without a marker there is nothing to do,
\* over a sound database the marker is dropped, over a damaged one the named
\* backup is put back, and a backup that is not there is an error.
RecoverMigration(p) ==
    /\ \/ /\ marker = NoMarker \/ db.sound
          /\ MStep(p, "recovering", "checking")
          /\ marker' = NoMarker
          /\ UNCHANGED mlock
       \/ /\ marker # NoMarker /\ ~db.sound
          /\ IF BackupNamed(marker) = {}
             THEN Raise(p, "recovering")
             ELSE MStep(p, "recovering", "restoring") /\ UNCHANGED mlock
          /\ UNCHANGED marker
    /\ UNCHANGED <<db, backups, made, tries, temp, damage>>

\* The backup is copied beside the database and moved over it.
RestoreBackup(p) ==
    /\ MStep(p, "restoring", "recovered")
    /\ \E b \in BackupNamed(marker) : db' = backups[b].content
    /\ UNCHANGED <<backups, made, marker, mlock, tries, temp, damage>>

DropRestoreMarker(p) ==
    /\ MStep(p, "recovered", "checking")
    /\ marker' = NoMarker
    /\ UNCHANGED <<db, backups, made, mlock, tries, temp, damage>>

----------------------------------------------------------------------------
\* Fault: the recorded version of a newer build is not looked at.
SchemaRefusedOlder ==
    \/ ~db.sound
    \/ db.record # NoRecord /\ db.record.component # "ours"
    \/ db.record.version = Target /\ db.record.checksum # "ours"

\* Damaged, newer than this build, another store's, or changed since.
SchemaRefused ==
    \/ ~db.sound
    \/ db.version > Target
    \/ db.record # NoRecord /\ db.record.component # "ours"
    \/ db.record.version > Target
    \/ db.record.version = Target /\ db.record.checksum # "ours"

\* validate(): every required column is there.
SchemaValid(t) == t = "current"

\* apply(): CREATE TABLE IF NOT EXISTS and the one column that is added.
ApplySchema(t) == IF t \in {"none", "legacy"} THEN "current" ELSE t

AtTarget == db.record.version = Target

\* The schema is refused, or is already this build's, or has to be migrated,
\* with a backup when there are tables to lose.
CheckSchema(p) ==
    /\ \/ /\ SchemaRefused \/ (AtTarget /\ ~SchemaValid(db.table))
          /\ Raise(p, "checking")
       \/ /\ ~SchemaRefused /\ AtTarget /\ SchemaValid(db.table)
          /\ MStep(p, "checking", "open") /\ mlock' = NoProc
       \/ /\ ~SchemaRefused /\ ~AtTarget
          /\ MStep(p, "checking", IF db.table = "none" THEN "marking" ELSE "copying")
          /\ UNCHANGED mlock
    /\ UNCHANGED <<db, backups, made, marker, tries, temp, damage>>

\* A new file appears in the backup directory; it is good when the copy ends.
BeginBackup(p) ==
    /\ MStep(p, "copying", "verifying")
    /\ made' = made + 1
    /\ backups' = Append(backups, [id |-> made + 1, good |-> FALSE, content |-> db])
    /\ UNCHANGED <<db, marker, mlock, tries, temp, damage>>

\* Fault: the oldest files are kept and the newest go.
LatestKept(s) == SubSeq(s, 1, IF Len(s) > Retention THEN Retention ELSE Len(s))

\* Everything but the newest `retention` files is deleted.
Latest(s) == SubSeq(s, IF Len(s) > Retention THEN Len(s) - Retention + 1 ELSE 1, Len(s))

\* The copy ends, is checked and old backups are deleted; a copy of damaged
\* pages does not pass integrity_check and stays behind.
FinishBackup(p) ==
    LET copy == [backups[Len(backups)] EXCEPT !.good = db.sound, !.content = db]
        all  == [backups EXCEPT ![Len(backups)] = copy]
    IN  /\ \/ /\ db.sound
              /\ MStep(p, "verifying", "marking") /\ UNCHANGED mlock
              /\ backups' = Latest(all)
           \/ /\ ~db.sound
              /\ Raise(p, "verifying")
              /\ backups' = all
        /\ UNCHANGED <<db, made, marker, tries, temp, damage>>

\* The backup this attempt took: the newest one, if it took one.
Taken == IF db.table = "none" THEN NoBackup ELSE made

\* _write_migration_marker: a temporary file named after the process is
\* created exclusively, written and renamed; when that fails it stays behind
\* and the next attempt of the same process cannot create it.
WriteMarker(p) ==
    /\ \/ /\ p \notin temp
          /\ MStep(p, "marking", "migrating") /\ marker' = Taken
          /\ UNCHANGED <<mlock, temp>>
       \/ /\ p \in temp \/ TempLeft
          /\ Raise(p, "marking") /\ temp' = temp \cup {p}
          /\ UNCHANGED marker
    /\ UNCHANGED <<db, backups, made, tries, damage>>

\* BEGIN EXCLUSIVE ... COMMIT: schema, metadata, history and user_version
\* change together, or nothing does and the attempt is abandoned.
Migrate(p) ==
    LET t == ApplySchema(db.table) IN
    /\ \/ /\ db.sound /\ SchemaValid(t)
          /\ db' = [db EXCEPT !.table = t, !.record = ReadyRecord, !.version = Target]
          /\ MStep(p, "migrating", "unmarking")
       \/ MStep(p, "migrating", "abandoning") /\ UNCHANGED db
    /\ UNCHANGED <<backups, made, marker, mlock, tries, temp, damage>>

\* The marker is removed after the commit; the snapshot that is read then is
\* returned, whatever it says, and the lock is dropped.
FinishMigration(p) ==
    /\ MStep(p, "unmarking", "open")
    /\ marker' = NoMarker /\ mlock' = NoProc
    /\ UNCHANGED <<db, backups, made, tries, temp, damage>>

AbandonMigration(p) ==
    /\ Raise(p, "abandoning")
    /\ marker' = NoMarker
    /\ UNCHANGED <<db, backups, made, tries, temp, damage>>

MigrationStep(p) ==
    \/ EnableWal(p) \/ LockMigration(p) \/ RecoverMigration(p) \/ RestoreBackup(p)
    \/ DropRestoreMarker(p) \/ CheckSchema(p) \/ BeginBackup(p) \/ FinishBackup(p)
    \/ WriteMarker(p) \/ Migrate(p) \/ FinishMigration(p) \/ AbandonMigration(p)

\* The process dies: its lock is released, its files stay.
MigrationExit(p) ==
    /\ mig' = [mig EXCEPT ![p] = "dead"]
    /\ mlock' = IF mlock = p THEN NoProc ELSE mlock
    /\ UNCHANGED <<db, backups, made, marker, tries, temp, damage>>

\* Pages of the database file are damaged.
DamageDatabase ==
    /\ db.sound /\ damage < MaxDamage
    /\ db' = [db EXCEPT !.sound = FALSE]
    /\ damage' = damage + 1
    /\ UNCHANGED <<backups, made, marker, mlock, mig, tries, temp>>

----------------------------------------------------------------------------
MigrationTypeOK ==
    /\ db \in Database
    /\ \A b \in 1..Len(backups) : backups[b] \in [id: 1..made, good: BOOLEAN, content: Database]
    /\ marker \in 0..made \cup {NoMarker}
    /\ mlock \in Procs \cup {NoProc}
    /\ mig \in [Procs -> MigrationPC]
    /\ temp \subseteq Procs

\* Restoring loses nothing: as long as a marker asks for a restore, the backup
\* it names exists, was verified, and holds every row of the database (without
\* a backup there are no rows to lose), so that no event was stored between the backup and a restore from it
\* (_recover_interrupted_migration replaces the whole file).
RestoreLosesNothing ==
    marker # NoMarker =>
        \/ marker = NoBackup /\ db.rows = <<>>
        \/ \E b \in BackupNamed(marker) :
              /\ backups[b].good /\ backups[b].content.sound
              /\ backups[b].content.rows = db.rows

\* A database that is not this build's to migrate.
Foreign(d) ==
    \/ d.version > Target
    \/ d.record # NoRecord /\ d.record.component # "ours"
    \/ d.record.version > Target
    \/ d.record.version = Target /\ d.record.checksum # "ours"

\* A database that belongs to another store, to a newer build or to a schema
\* with another checksum is left as it is by everybody who tries to open it.
ForeignSchemaUntouched ==
    [][Foreign(db) => /\ db'.record = db.record /\ db'.table = db.table
                      /\ db'.version = db.version /\ db'.rows = db.rows]_db

=============================================================================
