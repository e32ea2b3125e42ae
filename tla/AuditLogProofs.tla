--------------------------- MODULE AuditLogProofs ----------------------------
(***************************************************************************)
(* Proofs about AuditLog and SqliteMigration, for any number of processes   *)
(* and events, any target version and any retention.                        *)
(***************************************************************************)
EXTENDS AuditLog, SequenceTheorems, FunctionTheorems, FiniteSetTheorems, TLAPS

LoggerKinds == {"store", "plain"}

WriterPC == {"ready", "appending", "locking", "reading", "writing", "releasing", "dead"}

WriterState == [pc: WriterPC, ev: Event \cup {NoEvent}]

Line == Event \cup {Torn, Garbage}

Backup == [id: Nat \ {0}, good: BOOLEAN, content: Database]

MigrationTyped ==
    /\ db \in Database
    /\ backups \in Seq(Backup)
    /\ made \in Nat
    /\ marker \in Nat \cup {NoMarker}
    /\ mlock \in Procs \cup {NoProc}
    /\ mig \in [Procs -> MigrationPC]
    /\ temp \subseteq Procs

JsonlTyped ==
    /\ kind \in [Procs -> LoggerKinds]
    /\ lines \in Seq(Line)
    /\ flock \in Procs \cup {NoProc}
    /\ wr \in [Procs -> WriterState]
    /\ issued \in Nat
    /\ acked \subseteq [kind: LoggerKinds, ev: Event \cup {NoEvent}]

\* A writer past the beginning has an event of its own.
EventInv == \A p \in Procs : wr[p].pc \notin {"ready", "dead"} => wr[p].ev \in Event

----------------------------------------------------------------------------
\* What the migration lock protects

Locked == {"recovering", "restoring", "recovered", "checking", "copying", "verifying", "marking",
           "migrating", "unmarking", "abandoning"}

HolderInv == \A p \in Procs : mig[p] \in Locked => mlock = p

\* Rows need their table.
TableInv(d) == d.table = "none" => d.rows = <<>>

\* Every backup, whole or not, is of a database this build may migrate; they
\* are numbered in the order in which they were begun.
BackupsInv ==
    /\ \A i \in 1..Len(backups) :
          /\ backups[i].id <= made
          /\ ~Foreign(backups[i].content) /\ TableInv(backups[i].content)
    /\ \A i, j \in 1..Len(backups) : i < j => backups[i].id < backups[j].id

\* The backup of that number is there, was verified and holds every row.
Covered(n) ==
    /\ BackupNamed(n) # {}
    /\ \A b \in BackupNamed(n) :
          /\ backups[b].good /\ backups[b].content.sound
          /\ backups[b].content.rows = db.rows

Ready == db.record = ReadyRecord /\ db.version <= Target /\ db.table # "none"

\* Nobody uses a database before it is migrated, or while a marker could ask
\* for it to be restored.
UseInv ==
    \A p \in Procs :
        /\ wr[p].pc = "appending" => mig[p] = "open" /\ kind[p] = "store"
        /\ mig[p] = "open" => Ready /\ marker = NoMarker

MarkerInv ==
    marker # NoMarker => ~Foreign(db) /\ ((marker = NoBackup /\ db.rows = <<>>) \/ Covered(marker))

\* What the holder of the lock, at c, has found out and done so far.
PhaseAt(c) ==
    /\ c \in {"restoring", "recovered"} => marker # NoMarker
    /\ c \in {"checking", "copying", "verifying", "marking"} => marker = NoMarker
    /\ c \in {"copying", "verifying", "marking", "migrating"} => ~AtTarget /\ ~Foreign(db)
    /\ c = "verifying" => backups # <<>> /\ backups[Len(backups)].id = made
    /\ c = "marking" => db.table = "none" \/ Covered(made)
    /\ c = "unmarking" => Ready

PhaseInv == \A p \in Procs : PhaseAt(mig[p])

MigrationInv ==
    /\ MigrationTyped /\ HolderInv /\ TableInv(db) /\ BackupsInv
    /\ UseInv /\ MarkerInv /\ PhaseInv

----------------------------------------------------------------------------
\* The chain of the store

\* Verifies, without subsequences.
Chained(s) == \A i \in 1..Len(s) : s[i].prev = IF i = 1 THEN 0 ELSE s[i - 1].id

\* A logger with a store goes on to the mirror with an event that is stored.
StoredInv ==
    /\ Chained(db.rows)
    /\ \A p \in Procs : kind[p] = "store" /\ wr[p].pc \in {"locking", "writing", "releasing"}
                            => Contains(db.rows, wr[p].ev)
    /\ \A p \in Procs : wr[p].pc = "reading" => kind[p] = "plain"
    /\ \A a \in acked : a.kind = "store" => Contains(db.rows, a.ev)

\* The mirror of loggers that all have the store holds nothing else.
MirrorInv ==
    AllStore => \A i \in 1..Len(lines) : WellFormed(lines[i]) => Contains(db.rows, lines[i])

----------------------------------------------------------------------------
\* What the lock of the JSONL file protects

FileLockInv == \A p \in Procs : wr[p].pc \in {"reading", "writing", "releasing"} => flock = p

Whole(s) == \A i \in 1..Len(s) : WellFormed(s[i])

\* A plain logger writes at the end of a whole chain.
PlainInv ==
    AllPlain =>
        /\ \/ Whole(lines) /\ Chained(lines)
           \/ \E s \in Seq(Line) : lines = Append(s, Torn) /\ Whole(s) /\ Chained(s)
        /\ \A p \in Procs : wr[p].pc = "writing" => Whole(lines) /\ wr[p].ev.prev = TailHash(lines)
        /\ \A p \in Procs : wr[p].pc = "releasing" => Contains(lines, wr[p].ev)
        /\ \A a \in acked : Contains(lines, a.ev)

AuditInv ==
    /\ MigrationInv /\ JsonlTyped /\ EventInv /\ StoredInv /\ MirrorInv /\ FileLockInv /\ PlainInv

----------------------------------------------------------------------------
\* Opening the database

LEMMA MStepFacts ==
    ASSUME MigrationTyped, NEW p \in Procs, NEW from, NEW to \in MigrationPC, MStep(p, from, to)
    PROVE  /\ mig[p] = from /\ mig'[p] = to
           /\ mig' \in [Procs -> MigrationPC]
           /\ \A q \in Procs \ {p} : mig'[q] = mig[q]
  BY DEF MStep, MigrationTyped

\* The holder of the lock is alone with it, and has not begun to log.
LEMMA HolderAlone ==
    ASSUME MigrationInv, NEW p \in Procs, mig[p] \in Locked
    PROVE  /\ mlock = p
           /\ \A q \in Procs \ {p} : mig[q] \notin Locked
           /\ wr[p].pc # "appending"
  BY DEF MigrationInv, HolderInv, UseInv, Locked

\* A step of the holder.  The others are waiting for the lock, or have the
\* database open, which is then as they opened it.
LEMMA HolderKeepsInv ==
    ASSUME MigrationInv, NEW p \in Procs, NEW from \in Locked, NEW to \in MigrationPC,
           MStep(p, from, to), UNCHANGED <<kind, wr>>,
           db' \in Database, backups' \in Seq(Backup), made' \in Nat,
           marker' \in Nat \cup {NoMarker}, temp' \subseteq Procs,
           mlock' = mlock \/ (mlock' = NoProc /\ to \notin Locked),
           TableInv(db'), BackupsInv', MarkerInv', PhaseAt(to)',
           (Ready /\ marker = NoMarker) \/ to = "open" => Ready' /\ marker' = NoMarker
    PROVE  MigrationInv'
  <1>1. /\ mig[p] = from /\ mig'[p] = to
        /\ mig' \in [Procs -> MigrationPC]
        /\ \A q \in Procs \ {p} : mig'[q] = mig[q]
    BY MStepFacts DEF MigrationInv
  <1>2. /\ mlock = p
        /\ \A q \in Procs \ {p} : mig[q] \notin Locked
        /\ wr[p].pc # "appending"
    BY <1>1, HolderAlone
  <1>3. MigrationTyped'
    BY <1>1 DEF MigrationInv, MigrationTyped
  <1>4. HolderInv'
    BY <1>1, <1>2 DEF HolderInv
  <1>5. UseInv'
    <2>1. SUFFICES ASSUME NEW q \in Procs
          PROVE  /\ wr[q].pc = "appending" => mig'[q] = "open" /\ kind[q] = "store"
                 /\ mig'[q] = "open" => Ready' /\ marker' = NoMarker
      BY DEF UseInv
    <2>2. CASE q = p
      BY <1>1, <1>2, <2>2
    <2>3. CASE q # p
      BY <1>1, <2>3 DEF MigrationInv, UseInv
    <2>4. QED
      BY <2>2, <2>3
  <1>6. PhaseInv'
    <2>1. SUFFICES ASSUME NEW q \in Procs
          PROVE  PhaseAt(mig[q])'
      BY DEF PhaseInv
    <2>2. CASE q = p
      BY <1>1, <2>2 DEF PhaseAt
    <2>3. CASE q # p
      BY <1>1, <1>2, <2>3 DEF PhaseAt, Locked
    <2>4. QED
      BY <2>2, <2>3
  <1>7. QED
    BY <1>3, <1>4, <1>5, <1>6 DEF MigrationInv, TableInv

\* What depends on the database, its backups and the marker alone.
LEMMA FilesSame ==
    ASSUME MigrationInv, UNCHANGED <<db, backups, made, marker>>
    PROVE  /\ db' \in Database /\ backups' \in Seq(Backup) /\ made' \in Nat
           /\ marker' \in Nat \cup {NoMarker}
           /\ TableInv(db') /\ BackupsInv' /\ MarkerInv'
           /\ \A c \in MigrationPC : PhaseAt(c)' <=> PhaseAt(c)
           /\ Ready' <=> Ready
  BY DEF MigrationInv, MigrationTyped, TableInv, BackupsInv, MarkerInv, Covered, BackupNamed,
         PhaseAt, Ready, AtTarget, Foreign

\* The same with the marker dropped.
LEMMA MarkerDropped ==
    ASSUME MigrationInv, UNCHANGED <<db, backups, made>>, marker' = NoMarker
    PROVE  /\ db' \in Database /\ backups' \in Seq(Backup) /\ made' \in Nat
           /\ marker' \in Nat \cup {NoMarker}
           /\ TableInv(db') /\ BackupsInv' /\ MarkerInv'
           /\ Ready' <=> Ready
  BY DEF MigrationInv, MigrationTyped, TableInv, BackupsInv, MarkerInv, Ready

\* Before the lock is taken nothing is touched.
LEMMA ArrivalKeepsInv ==
    ASSUME MigrationInv, NEW p \in Procs, StartOpen(p) \/ EnableWal(p) \/ LockMigration(p),
           UNCHANGED <<kind, wr>>
    PROVE  MigrationInv'
  <1>1. ASSUME NEW from \in {"closed", "starting", "waiting"},
               NEW to \in {"starting", "waiting", "closed", "recovering"},
               MStep(p, from, to), UNCHANGED <<db, backups, made, marker, temp>>,
               (to # "recovering" /\ UNCHANGED mlock) \/ (mlock = NoProc /\ mlock' = p)
        PROVE  MigrationInv'
    <2>2. to \in MigrationPC
      BY DEF MigrationPC
    <2>3. /\ mig[p] = from /\ mig'[p] = to
          /\ mig' \in [Procs -> MigrationPC]
          /\ \A q \in Procs \ {p} : mig'[q] = mig[q]
      BY <1>1, <2>2, MStepFacts DEF MigrationInv
    <2>4. /\ db' \in Database /\ backups' \in Seq(Backup) /\ made' \in Nat
          /\ marker' \in Nat \cup {NoMarker}
          /\ TableInv(db') /\ BackupsInv' /\ MarkerInv'
          /\ \A c \in MigrationPC : PhaseAt(c)' <=> PhaseAt(c)
          /\ Ready' <=> Ready
      BY <1>1, FilesSame
    <2>5. MigrationTyped'
      BY <1>1, <2>3, <2>4 DEF MigrationInv, MigrationTyped
    <2>6. HolderInv'
      BY <1>1, <2>3, ProcAssumption DEF MigrationInv, HolderInv, Locked
    <2>7. UseInv'
      BY <1>1, <2>3, <2>4 DEF MigrationInv, UseInv
    <2>8. PhaseInv'
      <3>1. PhaseAt(to)'
        BY DEF PhaseAt
      <3>2. SUFFICES ASSUME NEW q \in Procs
            PROVE  PhaseAt(mig[q])'
        BY DEF PhaseInv
      <3>3. CASE q = p
        BY <2>3, <3>1, <3>3 DEF PhaseAt
      <3>4. CASE q # p
        <4>1. mig'[q] = mig[q] /\ mig[q] \in MigrationPC /\ PhaseAt(mig[q])
          BY <2>3, <3>4 DEF MigrationInv, MigrationTyped, PhaseInv
        <4>2. PICK c \in MigrationPC : c = mig[q]
          BY <4>1
        <4>3. PhaseAt(c)
          BY <4>1, <4>2 DEF PhaseAt
        <4>4. PhaseAt(c)'
          BY <2>4, <4>3
        <4>5. QED
          BY <4>1, <4>2, <4>4 DEF PhaseAt
      <3>5. QED
        BY <3>3, <3>4
    <2>9. QED
      BY <2>4, <2>5, <2>6, <2>7, <2>8 DEF MigrationInv, TableInv
  <1>2. CASE StartOpen(p)
    BY <1>1, <1>2 DEF StartOpen
  <1>3. CASE EnableWal(p)
    BY <1>1, <1>3 DEF EnableWal
  <1>4. CASE LockMigration(p)
    BY <1>1, <1>4 DEF LockMigration
  <1>5. QED
    BY <1>2, <1>3, <1>4

\* Without a marker, or over a sound database, nothing is restored.
LEMMA RecoverKeepsInv ==
    ASSUME MigrationInv, NEW p \in Procs, RecoverMigration(p), UNCHANGED <<kind, wr>>
    PROVE  MigrationInv'
  <1>0. temp' \subseteq Procs /\ UNCHANGED <<db, backups, made>>
    BY DEF RecoverMigration, MigrationInv, MigrationTyped
  <1>1. "recovering" \in Locked /\ "checking" \in MigrationPC /\ "restoring" \in MigrationPC
        /\ "closed" \in MigrationPC /\ "closed" \notin Locked
    BY DEF Locked, MigrationPC
  <1>2. CASE MStep(p, "recovering", "checking") /\ marker' = NoMarker /\ UNCHANGED mlock
    <2>1. PhaseAt("checking")'
      BY <1>2 DEF PhaseAt
    <2>2. QED
      BY <1>0, <1>1, <1>2, <2>1, MarkerDropped, HolderKeepsInv
  <1>3. CASE /\ marker # NoMarker /\ UNCHANGED marker
             /\ MStep(p, "recovering", "restoring") /\ UNCHANGED mlock
    <2>1. PhaseAt("restoring")'
      BY <1>3 DEF PhaseAt
    <2>2. QED
      BY <1>0, <1>1, <1>3, <2>1, FilesSame, HolderKeepsInv
  <1>4. CASE UNCHANGED marker /\ MStep(p, "recovering", "closed") /\ mlock' = NoProc
    <2>1. PhaseAt("closed")'
      BY DEF PhaseAt
    <2>2. QED
      BY <1>0, <1>1, <1>4, <2>1, FilesSame, HolderKeepsInv
  <1>5. QED
    BY <1>2, <1>3, <1>4 DEF RecoverMigration, Raise

\* The backup that is put back holds the rows that are in the damaged file.
LEMMA RestoreKeepsInv ==
    ASSUME MigrationInv, NEW p \in Procs, RestoreBackup(p), UNCHANGED <<kind, wr>>
    PROVE  MigrationInv' /\ db'.rows = db.rows /\ ~Foreign(db)
  <1>1. PICK b \in BackupNamed(marker) : db' = backups[b].content
    BY DEF RestoreBackup
  <1>2. /\ MStep(p, "restoring", "recovered")
        /\ UNCHANGED <<backups, made, marker, mlock, temp>>
    BY DEF RestoreBackup
  <1>3. "restoring" \in Locked /\ "recovered" \in MigrationPC
    BY DEF Locked, MigrationPC
  <1>4. mig[p] = "restoring" /\ marker # NoMarker
    BY <1>2 DEF MStep, MigrationInv, PhaseInv, PhaseAt
  <1>5. b \in 1..Len(backups) /\ backups[b] \in Backup /\ backups[b].id = marker
    BY <1>1, ElementOfSeq DEF BackupNamed, MigrationInv, MigrationTyped
  <1>6. marker # NoBackup
    BY <1>5 DEF Backup, NoBackup
  <1>7. Covered(marker) /\ ~Foreign(db)
    BY <1>4, <1>6 DEF MigrationInv, MarkerInv
  <1>8. db'.rows = db.rows /\ db' \in Database /\ ~Foreign(db') /\ TableInv(db')
    BY <1>1, <1>5, <1>7 DEF Covered, Backup, MigrationInv, BackupsInv
  <1>9. BackupsInv' /\ backups' \in Seq(Backup) /\ made' \in Nat /\ marker' \in Nat \cup {NoMarker}
        /\ temp' \subseteq Procs
    BY <1>2 DEF MigrationInv, MigrationTyped, BackupsInv, Foreign, TableInv
  <1>10. MarkerInv'
    BY <1>2, <1>7, <1>8 DEF MarkerInv, Covered, BackupNamed, Foreign
  <1>11. PhaseAt("recovered")'
    BY <1>2, <1>4 DEF PhaseAt
  <1>12. QED
    BY <1>2, <1>3, <1>4, <1>7, <1>8, <1>9, <1>10, <1>11, HolderKeepsInv

LEMMA DropKeepsInv ==
    ASSUME MigrationInv, NEW p \in Procs,
           DropRestoreMarker(p) \/ FinishMigration(p) \/ AbandonMigration(p), UNCHANGED <<kind, wr>>
    PROVE  MigrationInv'
  <1>0. temp' \subseteq Procs /\ UNCHANGED <<db, backups, made>> /\ marker' = NoMarker
    BY DEF DropRestoreMarker, FinishMigration, AbandonMigration, MigrationInv, MigrationTyped
  <1>1. CASE MStep(p, "recovered", "checking") /\ UNCHANGED mlock
    <2>1. PhaseAt("checking")' /\ "recovered" \in Locked /\ "checking" \in MigrationPC
      BY <1>0 DEF PhaseAt, Locked, MigrationPC
    <2>2. QED
      BY <1>0, <1>1, <2>1, MarkerDropped, HolderKeepsInv
  <1>2. CASE MStep(p, "unmarking", "open") /\ mlock' = NoProc
    <2>1. PhaseAt("open")' /\ "unmarking" \in Locked /\ "open" \in MigrationPC /\ "open" \notin Locked
      BY DEF PhaseAt, Locked, MigrationPC
    <2>2. Ready
      BY <1>2 DEF MStep, MigrationInv, PhaseInv, PhaseAt
    <2>3. QED
      BY <1>0, <1>2, <2>1, <2>2, MarkerDropped, HolderKeepsInv
  <1>3. CASE MStep(p, "abandoning", "closed") /\ mlock' = NoProc
    <2>1. /\ PhaseAt("closed")' /\ "abandoning" \in Locked /\ "closed" \in MigrationPC
          /\ "closed" \notin Locked
      BY DEF PhaseAt, Locked, MigrationPC
    <2>2. QED
      BY <1>0, <1>3, <2>1, MarkerDropped, HolderKeepsInv
  <1>4. QED
    BY <1>1, <1>2, <1>3 DEF DropRestoreMarker, FinishMigration, AbandonMigration, Raise

\* A schema that is accepted is this build's, or one it may migrate.
LEMMA AcceptedIsReady ==
    ASSUME MigrationInv, ~SchemaRefused
    PROVE  /\ ~Foreign(db)
           /\ AtTarget /\ SchemaValid(db.table) => Ready
  <1>1. db.record \in SchemaRecord \cup {NoRecord} /\ db.version \in 0..(Target + 1)
    BY DEF MigrationInv, MigrationTyped, Database
  <1>2. ~Foreign(db)
    BY DEF SchemaRefused, Foreign
  <1>3. ASSUME AtTarget, SchemaValid(db.table)
        PROVE  Ready
    <2>1. db.record # NoRecord
      BY <1>3, MigrationAssumption DEF AtTarget, NoRecord
    <2>2. /\ db.record.component = "ours" /\ db.record.version = Target
          /\ db.record.checksum = "ours" /\ db.version <= Target
      BY <1>1, <1>3, <2>1, MigrationAssumption DEF SchemaRefused, AtTarget
    <2>3. db.record = ReadyRecord
      BY <1>1, <2>1, <2>2 DEF SchemaRecord, ReadyRecord
    <2>4. QED
      BY <1>3, <2>2, <2>3 DEF Ready, SchemaValid
  <1>4. QED
    BY <1>2, <1>3

LEMMA CheckKeepsInv ==
    ASSUME MigrationInv, NEW p \in Procs, CheckSchema(p), UNCHANGED <<kind, wr>>
    PROVE  MigrationInv'
  <1>0. temp' \subseteq Procs /\ UNCHANGED <<db, backups, made, marker>>
    BY DEF CheckSchema, MigrationInv, MigrationTyped
  <1>1. /\ "checking" \in Locked /\ "closed" \in MigrationPC \ Locked
        /\ "open" \in MigrationPC \ Locked
        /\ "marking" \in MigrationPC /\ "copying" \in MigrationPC
    BY DEF Locked, MigrationPC
  <1>2. mig[p] = "checking" /\ marker = NoMarker
    BY DEF CheckSchema, Raise, MStep, MigrationInv, PhaseInv, PhaseAt
  <1>3. CASE MStep(p, "checking", "closed") /\ mlock' = NoProc
    <2>1. PhaseAt("closed")'
      BY DEF PhaseAt
    <2>2. QED
      BY <1>0, <1>1, <1>3, <2>1, FilesSame, HolderKeepsInv
  <1>4. CASE /\ ~SchemaRefused /\ AtTarget /\ SchemaValid(db.table)
             /\ MStep(p, "checking", "open") /\ mlock' = NoProc
    <2>1. PhaseAt("open")'
      BY DEF PhaseAt
    <2>2. Ready
      BY <1>4, AcceptedIsReady
    <2>3. QED
      BY <1>0, <1>1, <1>2, <1>4, <2>1, <2>2, FilesSame, HolderKeepsInv
  <1>5. ASSUME NEW to \in {"marking", "copying"}, ~SchemaRefused, ~AtTarget,
               to = "marking" => db.table = "none",
               MStep(p, "checking", to), UNCHANGED mlock
        PROVE  MigrationInv'
    <2>1. PhaseAt(to)
      BY <1>2, <1>5, AcceptedIsReady DEF PhaseAt
    <2>2. PhaseAt(to)'
      BY <1>0, <1>1, <2>1, FilesSame
    <2>3. QED
      BY <1>0, <1>1, <1>5, <2>2, FilesSame, HolderKeepsInv
  <1>6. QED
    BY <1>3, <1>4, <1>5 DEF CheckSchema, Raise

LEMMA BeginKeepsInv ==
    ASSUME MigrationInv, NEW p \in Procs, BeginBackup(p), UNCHANGED <<kind, wr>>
    PROVE  MigrationInv'
  <1> DEFINE new == [id |-> made + 1, good |-> FALSE, content |-> db]
  <1>0. /\ db \in Database /\ backups \in Seq(Backup) /\ made \in Nat /\ temp \subseteq Procs
        /\ marker \in Nat \cup {NoMarker}
    BY DEF MigrationInv, MigrationTyped
  <1>1. /\ MStep(p, "copying", "verifying")
        /\ made' = made + 1 /\ backups' = Append(backups, new)
        /\ UNCHANGED <<db, marker, mlock, temp>>
    BY DEF BeginBackup
  <1>2. "copying" \in Locked /\ "verifying" \in MigrationPC
    BY DEF Locked, MigrationPC
  <1>3. mig[p] = "copying" /\ marker = NoMarker /\ ~AtTarget /\ ~Foreign(db)
    BY <1>1 DEF MStep, MigrationInv, PhaseInv, PhaseAt
  <1>4. new \in Backup /\ new.id = made + 1 /\ new.content = db
    BY <1>0 DEF Backup
  <1> HIDE DEF new
  <1>5. /\ backups' \in Seq(Backup) /\ Len(backups') = Len(backups) + 1
        /\ \A i \in 1..Len(backups) : backups'[i] = backups[i]
        /\ backups'[Len(backups) + 1] = new
        /\ backups' # <<>> /\ Len(backups) \in Nat
    BY <1>0, <1>1, <1>4, AppendProperties, LenProperties
  <1>6. \A i \in 1..Len(backups') : i \in 1..Len(backups) \/ i = Len(backups) + 1
    BY <1>5
  <1>7. \A i \in 1..Len(backups) : backups[i].id \in Nat /\ backups[i].id <= made
    <2>1. \A i \in 1..Len(backups) : backups[i] \in Backup
      BY <1>0, ElementOfSeq
    <2>2. QED
      BY <2>1 DEF MigrationInv, BackupsInv, Backup
  <1>8. BackupsInv'
    <2>1. ASSUME NEW i \in 1..Len(backups')
          PROVE  /\ backups'[i].id <= made'
                 /\ ~Foreign(backups'[i].content) /\ TableInv(backups'[i].content)
      <3>1. CASE i \in 1..Len(backups)
        BY <1>0, <1>1, <1>5, <1>7, <3>1 DEF MigrationInv, BackupsInv
      <3>2. CASE i = Len(backups) + 1
        BY <1>0, <1>1, <1>3, <1>4, <1>5, <3>2 DEF MigrationInv
      <3>3. QED
        BY <1>6, <3>1, <3>2
    <2>2. ASSUME NEW i \in 1..Len(backups'), NEW j \in 1..Len(backups'), i < j
          PROVE  backups'[i].id < backups'[j].id
      <3>1. i \in 1..Len(backups) /\ backups'[i] = backups[i]
        BY <1>5, <2>2
      <3>2. CASE j \in 1..Len(backups)
        BY <1>5, <2>2, <3>1, <3>2 DEF MigrationInv, BackupsInv
      <3>3. CASE j = Len(backups) + 1
        BY <1>0, <1>4, <1>5, <1>7, <3>1, <3>3
      <3>4. QED
        BY <1>6, <3>2, <3>3
    <2>3. QED
      BY <2>1, <2>2 DEF BackupsInv, Foreign, TableInv
  <1>9. MarkerInv' /\ TableInv(db')
    BY <1>1, <1>3 DEF MarkerInv, MigrationInv, TableInv
  <1>10. PhaseAt("verifying")'
    BY <1>1, <1>3, <1>4, <1>5 DEF PhaseAt, AtTarget, Foreign
  <1>11. Ready' <=> Ready
    BY <1>1 DEF Ready
  <1>12. QED
    BY <1>0, <1>1, <1>2, <1>3, <1>5, <1>8, <1>9, <1>10, <1>11, HolderKeepsInv

\* Latest drops some of the first, but never the last one.
LEMMA LatestFacts ==
    ASSUME NEW S, NEW s \in Seq(S), s # <<>>
    PROVE  /\ Latest(s) \in Seq(S)
           /\ \E o \in 0..(Len(s) - 1) :
                 /\ Len(Latest(s)) = Len(s) - o
                 /\ \A i \in 1..(Len(s) - o) : Latest(s)[i] = s[i + o]
  <1> DEFINE m == IF Len(s) > Retention THEN Len(s) - Retention + 1 ELSE 1
  <1>1. Len(s) \in Nat \ {0} /\ \A i \in 1..Len(s) : s[i] \in S
    BY EmptySeq, ElementOfSeq
  <1>2. m \in 1..Len(s)
    BY <1>1, MigrationAssumption
  <1>3. Latest(s) = SubSeq(s, m, Len(s))
    BY DEF Latest
  <1> HIDE DEF m
  <1>4. /\ SubSeq(s, m, Len(s)) \in Seq(S)
        /\ Len(SubSeq(s, m, Len(s))) = Len(s) - m + 1
        /\ \A i \in 1..(Len(s) - m + 1) : SubSeq(s, m, Len(s))[i] = s[m + i - 1]
    BY <1>1, <1>2, SubSeqProperties
  <1>5. m - 1 \in 0..(Len(s) - 1) /\ Len(s) - m + 1 = Len(s) - (m - 1)
        /\ \A i \in 1..(Len(s) - m + 1) : m + i - 1 = i + (m - 1)
    BY <1>1, <1>2
  <1>6. QED
    BY <1>3, <1>4, <1>5

\* Backups that are the end of these, the last one replaced by one of the
\* same number.
LEMMA TailOfBackups ==
    ASSUME MigrationInv, backups # <<>>, ~Foreign(db), NEW c \in Backup,
           c.id = backups[Len(backups)].id, c.content = db,
           NEW o \in 0..(Len(backups) - 1), UNCHANGED <<db, made>>,
           backups' \in Seq(Backup), Len(backups') = Len(backups) - o,
           \A i \in 1..(Len(backups) - o) :
               backups'[i] = IF i + o = Len(backups) THEN c ELSE backups[i + o]
    PROVE  /\ BackupsInv'
           /\ \A b \in 1..Len(backups') : backups'[b].id = c.id => backups'[b] = c
           /\ backups'[Len(backups')] = c
  <1>1. Len(backups) \in Nat \ {0} /\ Len(backups') \in 1..Len(backups)
    BY EmptySeq DEF MigrationInv, MigrationTyped
  <1>2. \A i \in 1..Len(backups') : i + o \in 1..Len(backups)
    BY <1>1
  <1>3. \A i \in 1..Len(backups') : backups'[i].id = backups[i + o].id
    BY <1>1, <1>2
  <1>4. \A i \in 1..Len(backups) : backups[i].id \in Nat
    <2>1. backups \in Seq(Backup)
      BY DEF MigrationInv, MigrationTyped
    <2>2. \A i \in 1..Len(backups) : backups[i] \in Backup
      BY <2>1, ElementOfSeq
    <2>3. QED
      BY <2>2 DEF Backup
  <1>5. BackupsInv'
    <2>1. ASSUME NEW i \in 1..Len(backups')
          PROVE  /\ backups'[i].id <= made'
                 /\ ~Foreign(backups'[i].content) /\ TableInv(backups'[i].content)
      <3>1. backups'[i].id <= made'
        BY <1>2, <1>3 DEF MigrationInv, BackupsInv
      <3>2. CASE i + o = Len(backups)
        BY <1>1, <3>1, <3>2 DEF MigrationInv
      <3>3. CASE i + o # Len(backups)
        BY <1>1, <1>2, <3>1, <3>3 DEF MigrationInv, BackupsInv
      <3>4. QED
        BY <3>2, <3>3
    <2>2. \A i, j \in 1..Len(backups') : i < j => backups'[i].id < backups'[j].id
      <3>1. \A i, j \in 1..Len(backups') : i < j => i + o < j + o
        BY <1>1
      <3>2. QED
        BY <1>2, <1>3, <3>1 DEF MigrationInv, BackupsInv
    <2>3. QED
      BY <2>1, <2>2 DEF BackupsInv, Foreign, TableInv
  <1>6. \A i \in 1..Len(backups) : i # Len(backups) => backups[i].id < backups[Len(backups)].id
    BY <1>1 DEF MigrationInv, BackupsInv
  <1>7. ASSUME NEW b \in 1..Len(backups'), backups'[b].id = c.id
        PROVE  backups'[b] = c
    <2>1. backups[b + o].id = backups[Len(backups)].id
      BY <1>3, <1>7
    <2>2. b + o = Len(backups)
      BY <1>1, <1>2, <1>4, <1>6, <2>1
    <2>3. QED
      BY <1>1, <2>2
  <1>8. backups'[Len(backups')] = c
    BY <1>1
  <1>9. QED
    BY <1>5, <1>7, <1>8

\* The backup that has just been verified is kept, and holds every row.
LEMMA FinishKeepsInv ==
    ASSUME MigrationInv, NEW p \in Procs, FinishBackup(p), UNCHANGED <<kind, wr>>
    PROVE  MigrationInv'
  <1> DEFINE copy == [backups[Len(backups)] EXCEPT !.good = db.sound, !.content = db]
             all  == [backups EXCEPT ![Len(backups)] = copy]
  <1>0. /\ db \in Database /\ backups \in Seq(Backup) /\ made \in Nat /\ temp \subseteq Procs
        /\ marker \in Nat \cup {NoMarker} /\ db.sound \in BOOLEAN
    BY DEF MigrationInv, MigrationTyped, Database
  <1>1. /\ UNCHANGED <<db, made, marker, temp>>
        /\ \/ /\ db.sound /\ MStep(p, "verifying", "marking") /\ UNCHANGED mlock
              /\ backups' = Latest(all)
           \/ /\ ~db.sound /\ MStep(p, "verifying", "closed") /\ mlock' = NoProc
              /\ backups' = all
    BY DEF FinishBackup, Raise
  <1>2. /\ "verifying" \in Locked /\ "marking" \in MigrationPC
        /\ "closed" \in MigrationPC \ Locked
    BY DEF Locked, MigrationPC
  <1>3. /\ mig[p] = "verifying" /\ marker = NoMarker /\ ~AtTarget /\ ~Foreign(db)
        /\ backups # <<>> /\ backups[Len(backups)].id = made
    BY <1>1 DEF MStep, MigrationInv, PhaseInv, PhaseAt
  <1>4. Len(backups) \in Nat \ {0} /\ backups[Len(backups)] \in Backup
    BY <1>0, <1>3, EmptySeq, ElementOfSeq
  <1>5. copy \in Backup /\ copy.id = made /\ copy.content = db /\ copy.good = db.sound
    BY <1>0, <1>3, <1>4 DEF Backup
  <1> HIDE DEF copy
  <1>6. /\ all \in Seq(Backup) /\ Len(all) = Len(backups) /\ all # <<>>
        /\ \A j \in 1..Len(backups) : all[j] = IF j = Len(backups) THEN copy ELSE backups[j]
    <2>1. Len(backups) \in 1..Len(backups)
      BY <1>4
    <2>2. /\ all \in Seq(Backup) /\ Len(all) = Len(backups)
          /\ \A j \in 1..Len(backups) : all[j] = IF j = Len(backups) THEN copy ELSE backups[j]
      BY <1>0, <1>5, <2>1, ExceptSeq
    <2>3. QED
      BY <1>4, <2>2, EmptySeq
  <1> HIDE DEF all
  <1>7. TableInv(db') /\ MarkerInv' /\ (Ready' <=> Ready)
    BY <1>1, <1>3 DEF MigrationInv, TableInv, MarkerInv, Ready
  <1>8. CASE db.sound /\ MStep(p, "verifying", "marking") /\ UNCHANGED mlock /\ backups' = Latest(all)
    <2>1. PICK o \in 0..(Len(all) - 1) :
            /\ Len(Latest(all)) = Len(all) - o
            /\ \A i \in 1..(Len(all) - o) : Latest(all)[i] = all[i + o]
      BY <1>6, LatestFacts
    <2>2. backups' \in Seq(Backup)
      BY <1>6, <1>8, LatestFacts
    <2>3. /\ o \in 0..(Len(backups) - 1) /\ Len(backups') = Len(backups) - o
          /\ \A i \in 1..(Len(backups) - o) :
                 backups'[i] = IF i + o = Len(backups) THEN copy ELSE backups[i + o]
      <3>1. o \in 0..(Len(backups) - 1) /\ Len(backups') = Len(backups) - o
        BY <1>6, <1>8, <2>1
      <3>2. \A i \in 1..(Len(backups) - o) : backups'[i] = all[i + o] /\ i + o \in 1..Len(backups)
        BY <1>4, <1>6, <1>8, <2>1, <3>1
      <3>3. QED
        BY <1>6, <3>1, <3>2
    <2>4. /\ BackupsInv'
          /\ \A b \in 1..Len(backups') : backups'[b].id = copy.id => backups'[b] = copy
          /\ backups'[Len(backups')] = copy
      BY <1>1, <1>3, <1>5, <2>2, <2>3, TailOfBackups
    <2>5. Covered(made)'
      <3>1. Len(backups') \in 1..Len(backups')
        BY <1>4, <2>3
      <3>2. QED
        BY <1>1, <1>5, <1>8, <2>4, <3>1 DEF Covered, BackupNamed
    <2>6. PhaseAt("marking")'
      BY <1>1, <1>3, <2>5 DEF PhaseAt, AtTarget, Foreign
    <2>7. QED
      BY <1>0, <1>1, <1>2, <1>7, <1>8, <2>2, <2>4, <2>6, HolderKeepsInv
  <1>9. CASE MStep(p, "verifying", "closed") /\ mlock' = NoProc /\ backups' = all
    <2>1. 0 \in 0..(Len(backups) - 1) /\ Len(backups') = Len(backups) - 0
          /\ \A i \in 1..(Len(backups) - 0) :
                 backups'[i] = IF i + 0 = Len(backups) THEN copy ELSE backups[i + 0]
      BY <1>4, <1>6, <1>9
    <2>2. BackupsInv'
      BY <1>1, <1>3, <1>5, <1>6, <1>9, <2>1, TailOfBackups
    <2>3. PhaseAt("closed")'
      BY DEF PhaseAt
    <2>4. QED
      BY <1>0, <1>1, <1>2, <1>6, <1>7, <1>9, <2>2, <2>3, HolderKeepsInv
  <1>10. QED
    BY <1>1, <1>8, <1>9

LEMMA MarkKeepsInv ==
    ASSUME MigrationInv, NEW p \in Procs, WriteMarker(p), UNCHANGED <<kind, wr>>
    PROVE  MigrationInv'
  <1>0. /\ db \in Database /\ backups \in Seq(Backup) /\ made \in Nat
        /\ marker \in Nat \cup {NoMarker} /\ temp' \subseteq Procs
        /\ UNCHANGED <<db, backups, made>>
    BY DEF MigrationInv, MigrationTyped, WriteMarker
  <1>1. /\ "marking" \in Locked /\ "migrating" \in MigrationPC
        /\ "closed" \in MigrationPC \ Locked
    BY DEF Locked, MigrationPC
  <1>2. /\ mig[p] = "marking" /\ marker = NoMarker /\ ~AtTarget /\ ~Foreign(db)
        /\ db.table = "none" \/ Covered(made)
    BY DEF WriteMarker, Raise, MStep, MigrationInv, PhaseInv, PhaseAt
  <1>3. CASE MStep(p, "marking", "migrating") /\ marker' = Taken /\ UNCHANGED mlock
    <2>1. marker' \in Nat /\ ((marker' = NoBackup /\ db.rows = <<>>) \/ Covered(marker'))
      BY <1>0, <1>2, <1>3 DEF Taken, NoBackup, MigrationInv, TableInv
    <2>2. MarkerInv' /\ BackupsInv' /\ TableInv(db')
      BY <1>0, <1>2, <2>1
         DEF MarkerInv, Covered, BackupNamed, Foreign, MigrationInv, BackupsInv, TableInv
    <2>3. PhaseAt("migrating")'
      BY <1>0, <1>2 DEF PhaseAt, AtTarget, Foreign
    <2>4. ~Ready
      BY <1>2 DEF Ready, AtTarget, ReadyRecord
    <2>5. QED
      BY <1>0, <1>1, <1>3, <2>1, <2>2, <2>3, <2>4, HolderKeepsInv
  <1>4. CASE MStep(p, "marking", "closed") /\ mlock' = NoProc /\ UNCHANGED marker
    <2>1. PhaseAt("closed")'
      BY DEF PhaseAt
    <2>2. QED
      BY <1>0, <1>1, <1>4, <2>1, FilesSame, HolderKeepsInv
  <1>5. QED
    BY <1>3, <1>4 DEF WriteMarker, Raise

\* A migration changes no row, and only of a database that is this build's to
\* change.
LEMMA MigrateKeepsInv ==
    ASSUME MigrationInv, NEW p \in Procs, Migrate(p), UNCHANGED <<kind, wr>>
    PROVE  MigrationInv' /\ db'.rows = db.rows /\ ~Foreign(db)
  <1>0. /\ db \in Database /\ backups \in Seq(Backup) /\ made \in Nat
        /\ marker \in Nat \cup {NoMarker} /\ temp' \subseteq Procs
        /\ UNCHANGED <<backups, made, marker, mlock>>
    BY DEF MigrationInv, MigrationTyped, Migrate
  <1>1. /\ "migrating" \in Locked /\ "unmarking" \in MigrationPC
        /\ "abandoning" \in MigrationPC
    BY DEF Locked, MigrationPC
  <1>2. mig[p] = "migrating" /\ ~AtTarget /\ ~Foreign(db)
    BY DEF Migrate, MStep, MigrationInv, PhaseInv, PhaseAt
  <1>3. ~Ready
    BY <1>2 DEF Ready, AtTarget, ReadyRecord
  <1>4. CASE /\ SchemaValid(ApplySchema(db.table))
             /\ db' = [db EXCEPT !.table = ApplySchema(db.table), !.record = ReadyRecord, !.version = Target]
             /\ MStep(p, "migrating", "unmarking")
    <2>1. ApplySchema(db.table) = "current" /\ "current" \in Table
      BY <1>4 DEF SchemaValid, Table
    <2>2. ReadyRecord \in SchemaRecord /\ Target \in 0..(Target + 1)
      BY MigrationAssumption DEF ReadyRecord, SchemaRecord
    <2>3. /\ db' \in Database /\ db'.table = "current" /\ db'.record = ReadyRecord
          /\ db'.version = Target /\ db'.rows = db.rows
      BY <1>0, <1>4, <2>1, <2>2 DEF Database
    <2>4. ~Foreign(db') /\ TableInv(db') /\ Ready'
      BY <2>3, MigrationAssumption DEF Foreign, TableInv, Ready, ReadyRecord, NoRecord
    <2>5. MarkerInv' /\ BackupsInv'
      BY <1>0, <2>3, <2>4
         DEF MarkerInv, Covered, BackupNamed, Foreign, MigrationInv, BackupsInv, TableInv
    <2>6. PhaseAt("unmarking")'
      BY <2>4 DEF PhaseAt
    <2>7. QED
      BY <1>0, <1>1, <1>2, <1>3, <1>4, <2>3, <2>4, <2>5, <2>6, HolderKeepsInv
  <1>5. CASE MStep(p, "migrating", "abandoning") /\ UNCHANGED db
    <2>1. PhaseAt("abandoning")'
      BY DEF PhaseAt
    <2>2. QED
      BY <1>0, <1>1, <1>2, <1>5, <2>1, FilesSame, HolderKeepsInv
  <1>6. QED
    BY <1>4, <1>5 DEF Migrate

\* Every step of opening the store.  It touches neither the rows nor, at all,
\* a database that is not this build's.
LEMMA OpeningKeepsInv ==
    ASSUME MigrationInv, NEW p \in Procs, StartOpen(p) \/ MigrationStep(p), UNCHANGED <<kind, wr>>
    PROVE  MigrationInv' /\ db'.rows = db.rows /\ (Foreign(db) => db' = db)
  <1>1. CASE StartOpen(p) \/ EnableWal(p) \/ LockMigration(p)
    BY <1>1, ArrivalKeepsInv DEF StartOpen, EnableWal, LockMigration
  <1>2. CASE RecoverMigration(p)
    BY <1>2, RecoverKeepsInv DEF RecoverMigration
  <1>3. CASE RestoreBackup(p)
    BY <1>3, RestoreKeepsInv
  <1>4. CASE DropRestoreMarker(p) \/ FinishMigration(p) \/ AbandonMigration(p)
    BY <1>4, DropKeepsInv DEF DropRestoreMarker, FinishMigration, AbandonMigration
  <1>5. CASE CheckSchema(p)
    BY <1>5, CheckKeepsInv DEF CheckSchema
  <1>6. CASE BeginBackup(p)
    BY <1>6, BeginKeepsInv DEF BeginBackup
  <1>7. CASE FinishBackup(p)
    BY <1>7, FinishKeepsInv DEF FinishBackup
  <1>8. CASE WriteMarker(p)
    BY <1>8, MarkKeepsInv DEF WriteMarker
  <1>9. CASE Migrate(p)
    BY <1>9, MigrateKeepsInv
  <1>10. QED
    BY <1>1, <1>2, <1>3, <1>4, <1>5, <1>6, <1>7, <1>8, <1>9 DEF MigrationStep

----------------------------------------------------------------------------
\* What the other steps do to the store

\* Nothing happens to the files of the store: processes die or go on.
LEMMA QuietKeepsInv ==
    ASSUME MigrationInv, UNCHANGED <<db, backups, made, marker, temp, kind>>,
           mig' \in [Procs -> MigrationPC], mlock' \in Procs \cup {NoProc},
           \A p \in Procs :
               /\ \/ mig'[p] = mig[p] /\ (mig[p] \in Locked => mlock' = mlock)
                  \/ mig'[p] = "dead"
               /\ wr'[p].pc = "appending" => mig'[p] = "open" /\ kind[p] = "store"
    PROVE  MigrationInv'
  <1>1. /\ db' \in Database /\ backups' \in Seq(Backup) /\ made' \in Nat
        /\ marker' \in Nat \cup {NoMarker}
        /\ TableInv(db') /\ BackupsInv' /\ MarkerInv'
        /\ \A c \in MigrationPC : PhaseAt(c)' <=> PhaseAt(c)
        /\ Ready' <=> Ready
    BY FilesSame
  <1>2. MigrationTyped' /\ HolderInv'
    BY <1>1 DEF MigrationInv, MigrationTyped, HolderInv, Locked
  <1>3. UseInv'
    BY <1>1 DEF MigrationInv, UseInv
  <1>4. PhaseInv'
    <2>1. SUFFICES ASSUME NEW q \in Procs
          PROVE  PhaseAt(mig[q])'
      BY DEF PhaseInv
    <2>2. CASE mig'[q] = "dead"
      BY <2>2 DEF PhaseAt
    <2>3. CASE mig'[q] = mig[q]
      <3>1. mig[q] \in MigrationPC /\ PhaseAt(mig[q])
        BY DEF MigrationInv, MigrationTyped, PhaseInv
      <3>2. PICK c \in MigrationPC : c = mig[q]
        BY <3>1
      <3>3. PhaseAt(c)
        BY <3>1, <3>2 DEF PhaseAt
      <3>4. PhaseAt(c)'
        BY <1>1, <3>3
      <3>5. QED
        BY <2>3, <3>2, <3>4 DEF PhaseAt
    <2>4. QED
      BY <2>2, <2>3
  <1>5. QED
    BY <1>1, <1>2, <1>3, <1>4 DEF MigrationInv, TableInv

\* Damage to pages changes nothing that was decided: a backup of the rows is
\* as good as before.
LEMMA DamageKeepsInv ==
    ASSUME MigrationInv, DamageDatabase, UNCHANGED <<kind, wr>>
    PROVE  /\ MigrationInv' /\ db'.rows = db.rows
           /\ db'.record = db.record /\ db'.table = db.table /\ db'.version = db.version
  <1>0. db \in Database /\ db' = [db EXCEPT !.sound = FALSE]
        /\ UNCHANGED <<backups, made, marker, mlock, mig, temp>>
    BY DEF MigrationInv, MigrationTyped, DamageDatabase
  <1>1. /\ db' \in Database /\ db'.rows = db.rows
        /\ db'.record = db.record /\ db'.table = db.table /\ db'.version = db.version
    BY <1>0 DEF Database
  <1>2. (Foreign(db') <=> Foreign(db)) /\ (Ready' <=> Ready) /\ (AtTarget' <=> AtTarget)
    BY <1>1 DEF Foreign, Ready, AtTarget
  <1>3. \A n : Covered(n)' <=> Covered(n)
    BY <1>0, <1>1 DEF Covered, BackupNamed
  <1>4. MigrationTyped' /\ HolderInv' /\ UseInv' /\ BackupsInv'
    BY <1>0, <1>1, <1>2
       DEF MigrationInv, MigrationTyped, HolderInv, UseInv, BackupsInv, Foreign, TableInv
  <1>5. MarkerInv'
    BY <1>0, <1>1, <1>2, <1>3 DEF MigrationInv, MarkerInv, Covered, BackupNamed
  <1>6. PhaseInv'
    BY <1>0, <1>1, <1>2, <1>3 DEF MigrationInv, PhaseInv, PhaseAt, Covered, BackupNamed
  <1>7. TableInv(db')
    BY <1>1 DEF MigrationInv, TableInv
  <1>8. QED
    BY <1>1, <1>4, <1>5, <1>6, <1>7 DEF MigrationInv, TableInv

\* An event is bound to the last one and inserted, into a database that
\* nobody is about to migrate or to restore.
LEMMA InsertKeepsInv ==
    ASSUME MigrationInv, NEW p \in Procs, wr[p].pc = "appending", NEW e \in Event,
           db' = [db EXCEPT !.rows = Append(db.rows, e)],
           UNCHANGED <<backups, made, marker, mlock, mig, temp, kind>>,
           \A q \in Procs : wr'[q].pc = "appending" => wr[q].pc = "appending"
    PROVE  /\ MigrationInv'
           /\ db'.rows = Append(db.rows, e) /\ db.rows \in Seq(Event) /\ ~Foreign(db)
  <1>0. db \in Database /\ db.rows \in Seq(Event) /\ db.version \in 0..(Target + 1)
    BY AuditAssumption DEF MigrationInv, MigrationTyped, Database
  <1>1. Append(db.rows, e) \in Seq(Event)
    BY <1>0
  <1>2. /\ db' \in Database /\ db'.rows = Append(db.rows, e) /\ db'.sound = db.sound
        /\ db'.record = db.record /\ db'.table = db.table /\ db'.version = db.version
    BY <1>0, <1>1, AuditAssumption DEF Database
  <1>3. Ready /\ marker = NoMarker
    BY DEF MigrationInv, UseInv
  <1>4. AtTarget /\ ~Foreign(db)
    BY <1>0, <1>3, MigrationAssumption DEF Ready, AtTarget, Foreign, ReadyRecord, NoRecord
  <1>5. Ready' /\ (AtTarget' <=> AtTarget) /\ TableInv(db')
    BY <1>2, <1>3 DEF Ready, AtTarget, TableInv
  <1>6. MigrationTyped' /\ HolderInv' /\ UseInv' /\ BackupsInv'
    BY <1>2, <1>3, <1>5
       DEF MigrationInv, MigrationTyped, HolderInv, UseInv, BackupsInv, Foreign, TableInv
  <1>7. MarkerInv'
    BY <1>3 DEF MarkerInv
  <1>8. PhaseInv'
    BY <1>3, <1>4, <1>5 DEF MigrationInv, PhaseInv, PhaseAt
  <1>9. QED
    BY <1>0, <1>2, <1>4, <1>5, <1>6, <1>7, <1>8 DEF MigrationInv, TableInv

----------------------------------------------------------------------------
\* Sequences of events

\* Verifies is the same as Chained.
LEMMA VerifiesIsChained ==
    ASSUME NEW S, NEW s \in Seq(S)
    PROVE  Verifies(s) <=> Chained(s)
  <1>1. Len(s) \in Nat /\ \A i \in 1..Len(s) : s[i] \in S
    BY ElementOfSeq
  <1>2. ASSUME NEW i \in 1..Len(s)
        PROVE  TailHash(SubSeq(s, 1, i - 1)) = IF i = 1 THEN 0 ELSE s[i - 1].id
    <2>1. CASE i = 1
      <3>1. SubSeq(s, 1, i - 1) = <<>>
        BY <2>1, SubSeqEmpty
      <3>2. QED
        BY <2>1, <3>1 DEF TailHash
    <2>2. CASE i # 1
      <3>1. i \in Int /\ i - 1 \in 1..Len(s)
        BY <1>1, <2>2
      <3>2. /\ SubSeq(s, 1, i - 1) \in Seq(S)
            /\ Len(SubSeq(s, 1, i - 1)) = i - 1
            /\ \A j \in 1..(i - 1) : SubSeq(s, 1, i - 1)[j] = s[j]
        BY <1>1, <3>1, SubSeqProperties
      <3>3. SubSeq(s, 1, i - 1) # <<>>
        BY <3>1, <3>2, EmptySeq
      <3>4. QED
        BY <2>2, <3>1, <3>2, <3>3 DEF TailHash
    <2>3. QED
      BY <2>1, <2>2
  <1>3. QED
    BY <1>2 DEF Verifies, Chained

\* A chain goes on with an event that names the last one.
LEMMA ChainGrows ==
    ASSUME NEW S, NEW s \in Seq(S), NEW e \in S, Chained(s), e.prev = TailHash(s)
    PROVE  Chained(Append(s, e))
  <1>1. /\ Len(s) \in Nat /\ Len(Append(s, e)) = Len(s) + 1
        /\ \A i \in 1..Len(s) : Append(s, e)[i] = s[i]
        /\ Append(s, e)[Len(s) + 1] = e
    BY AppendProperties, LenProperties
  <1>2. s = <<>> <=> Len(s) = 0
    BY EmptySeq
  <1>3. ASSUME NEW i \in 1..(Len(s) + 1)
        PROVE  Append(s, e)[i].prev = IF i = 1 THEN 0 ELSE Append(s, e)[i - 1].id
    <2>1. CASE i \in 1..Len(s)
      BY <1>1, <2>1 DEF Chained
    <2>2. CASE i = Len(s) + 1
      BY <1>1, <1>2, <2>2 DEF TailHash
    <2>3. QED
      BY <1>1, <2>1, <2>2
  <1>4. QED
    BY <1>1, <1>3 DEF Chained

\* What is appended comes on top.
LEMMA AppendContains ==
    ASSUME NEW S, NEW s \in Seq(S), NEW e \in S
    PROVE  /\ Contains(Append(s, e), e)
           /\ \A x : Contains(s, x) => Contains(Append(s, e), x)
           /\ \A x : Contains(Append(s, e), x) => Contains(s, x) \/ x = e
  <1>1. /\ Len(s) \in Nat /\ Len(Append(s, e)) = Len(s) + 1
        /\ \A i \in 1..Len(s) : Append(s, e)[i] = s[i]
        /\ Append(s, e)[Len(s) + 1] = e
    BY AppendProperties, LenProperties
  <1>2. Len(s) + 1 \in 1..(Len(s) + 1) /\ \A i \in 1..Len(s) : i \in 1..(Len(s) + 1)
    BY <1>1
  <1>3. \A i \in 1..(Len(s) + 1) : i \in 1..Len(s) \/ i = Len(s) + 1
    BY <1>1
  <1>4. Contains(Append(s, e), e)
    BY <1>1, <1>2 DEF Contains
  <1>5. \A x : Contains(s, x) => Contains(Append(s, e), x)
    BY <1>1, <1>2 DEF Contains
  <1>6. \A x : Contains(Append(s, e), x) => Contains(s, x) \/ x = e
    BY <1>1, <1>3 DEF Contains
  <1>7. QED
    BY <1>4, <1>5, <1>6

\* Whole lines stay whole when one is added; one that was cut short has no
\* whole line behind it.
LEMMA AppendWhole ==
    ASSUME NEW s \in Seq(Line), Whole(s), NEW e \in Line
    PROVE  /\ WellFormed(e) => Whole(Append(s, e))
           /\ Appended(s, e) = Append(s, e)
  <1>1. /\ Len(s) \in Nat /\ Len(Append(s, e)) = Len(s) + 1
        /\ \A i \in 1..Len(s) : Append(s, e)[i] = s[i]
        /\ Append(s, e)[Len(s) + 1] = e
    BY AppendProperties, LenProperties
  <1>2. ASSUME WellFormed(e) PROVE Whole(Append(s, e))
    <2>1. \A i \in 1..(Len(s) + 1) : i \in 1..Len(s) \/ i = Len(s) + 1
      BY <1>1
    <2>2. QED
      BY <1>1, <1>2, <2>1 DEF Whole
  <1>3. s # <<>> => s[Len(s)] # Torn
    <2>1. s # <<>> => Len(s) \in 1..Len(s)
      BY EmptySeq
    <2>2. QED
      BY <2>1 DEF Whole, WellFormed, Torn
  <1>4. QED
    BY <1>2, <1>3 DEF Appended

LEMMA AppendedTyped ==
    ASSUME NEW s \in Seq(Line), NEW e \in Line
    PROVE  /\ Appended(s, e) \in Seq(Line)
           /\ \A x : Contains(Appended(s, e), x) /\ WellFormed(x) => Contains(s, x) \/ x = e
  <1>1. CASE s # <<>> /\ s[Len(s)] = Torn
    <2>1. PICK g \in {Torn, Garbage} : Appended(s, e) = [s EXCEPT ![Len(s)] = g]
      BY <1>1 DEF Appended
    <2>2. Len(s) \in 1..Len(s) /\ g \in Line /\ ~WellFormed(g)
      BY <1>1, EmptySeq DEF Line, WellFormed, Torn, Garbage
    <2>3. /\ [s EXCEPT ![Len(s)] = g] \in Seq(Line)
          /\ Len([s EXCEPT ![Len(s)] = g]) = Len(s)
          /\ \A j \in 1..Len(s) : [s EXCEPT ![Len(s)] = g][j] = IF j = Len(s) THEN g ELSE s[j]
      BY <2>2, ExceptSeq
    <2>4. QED
      BY <2>1, <2>2, <2>3 DEF Contains
  <1>2. CASE ~(s # <<>> /\ s[Len(s)] = Torn)
    <2>1. Appended(s, e) = Append(s, e)
      BY <1>2 DEF Appended
    <2>2. QED
      BY <2>1, AppendContains, AppendProperties
  <1>3. QED
    BY <1>1, <1>2

----------------------------------------------------------------------------
\* The steps of the writers

\* Every step but opening, damage and death is one writer's, who leaves the
\* others alone.
OneWriterMoves(p) ==
    /\ wr' \in [Procs -> WriterState]
    /\ \A q \in Procs \ {p} : wr'[q] = wr[q]

LEMMA WriterBecomes ==
    ASSUME JsonlTyped, NEW p \in Procs, NEW s \in WriterState, wr' = [wr EXCEPT ![p] = s]
    PROVE  OneWriterMoves(p) /\ wr'[p] = s
  BY DEF OneWriterMoves, JsonlTyped

LEMMA WriterGoes ==
    ASSUME JsonlTyped, NEW p \in Procs, NEW from, NEW to \in WriterPC, WStep(p, from, to)
    PROVE  /\ OneWriterMoves(p)
           /\ wr[p].pc = from /\ wr'[p].pc = to /\ wr'[p].ev = wr[p].ev
  <1>1. wr \in [Procs -> WriterState] /\ wr[p] \in WriterState
    BY DEF JsonlTyped
  <1>2. QED
    BY <1>1 DEF WStep, In, OneWriterMoves, WriterState

LEMMA WriterFails ==
    ASSUME JsonlTyped, NEW p \in Procs, NEW from, WriteRaises(p, from)
    PROVE  OneWriterMoves(p) /\ wr[p].pc = from /\ wr'[p] = Idle
  <1>1. Idle \in WriterState
    BY DEF Idle, WriterState, WriterPC
  <1>2. QED
    BY <1>1, WriterBecomes DEF WriteRaises, In

LEMMA LogFacts ==
    ASSUME JsonlTyped, NEW p \in Procs, Log(p)
    PROVE  /\ OneWriterMoves(p)
           /\ wr[p].pc = "ready" /\ wr'[p].ev \in Event /\ issued' \in Nat
           /\ \/ wr'[p].pc = "appending" /\ kind[p] = "store" /\ mig[p] = "open"
              \/ wr'[p].pc = "locking" /\ kind[p] = "plain"
  <1> DEFINE to == IF kind[p] = "store" THEN "appending" ELSE "locking"
             e  == [id |-> issued + 1, prev |-> 0]
  <1>1. /\ In(p, "ready") /\ (kind[p] = "store" => mig[p] = "open")
        /\ wr' = [wr EXCEPT ![p] = [pc |-> to, ev |-> e]]
        /\ issued < MaxEvents /\ issued \in Nat /\ issued' = issued + 1
        /\ kind[p] \in LoggerKinds
    BY DEF Log, JsonlTyped
  <1>2. /\ to \in WriterPC
        /\ (to = "appending" /\ kind[p] = "store") \/ (to = "locking" /\ kind[p] = "plain")
    BY <1>1 DEF WriterPC, LoggerKinds
  <1>3. e \in Event
    BY <1>1, AuditAssumption DEF Event
  <1> HIDE DEF to, e
  <1>4. [pc |-> to, ev |-> e] \in WriterState
    BY <1>2, <1>3 DEF WriterState
  <1>5. OneWriterMoves(p) /\ wr'[p] = [pc |-> to, ev |-> e]
    BY <1>1, <1>4, WriterBecomes
  <1>6. QED
    BY <1>1, <1>2, <1>3, <1>5 DEF In

\* An event bound to the end of a sequence of events, or of whole lines.
LEMMA BoundEvent ==
    ASSUME NEW e \in Event, NEW s \in Seq(Line), Whole(s)
    PROVE  /\ [e EXCEPT !.prev = TailHash(s)] \in Event
           /\ [e EXCEPT !.prev = TailHash(s)].prev = TailHash(s)
  <1>1. TailHash(s) \in 0..MaxEvents
    <2>1. s # <<>> => Len(s) \in 1..Len(s) /\ s[Len(s)] \in Line
      BY EmptySeq, ElementOfSeq
    <2>2. s # <<>> => s[Len(s)] \in Event
      BY <2>1 DEF Whole, WellFormed, Line, Torn, Garbage
    <2>3. QED
      BY <2>2, AuditAssumption DEF TailHash, Event
  <1>2. QED
    BY <1>1 DEF Event

\* Rows are events, and an event is a whole line.
LEMMA RowsAreLines ==
    ASSUME MigrationInv
    PROVE  db.rows \in Seq(Event) /\ db.rows \in Seq(Line) /\ Whole(db.rows)
  <1>1. db.rows \in Seq(Event)
    BY AuditAssumption DEF MigrationInv, MigrationTyped, Database
  <1>2. db.rows \in Seq(Line)
    BY <1>1, SeqMonotonic DEF Line
  <1>3. \A i \in 1..Len(db.rows) : db.rows[i] \in Event
    BY <1>1, ElementOfSeq
  <1>4. QED
    BY <1>1, <1>2, <1>3, AuditAssumption DEF Whole, WellFormed, Event

LEMMA AppendFacts ==
    ASSUME MigrationInv, JsonlTyped, EventInv, NEW p \in Procs, AppendChained(p)
    PROVE  /\ OneWriterMoves(p) /\ wr[p].pc = "appending"
           /\ \/ wr'[p] = Idle /\ db' = db
              \/ /\ wr'[p].pc = "locking" /\ wr'[p].ev \in Event
                 /\ wr'[p].ev.prev = TailHash(db.rows)
                 /\ db' = [db EXCEPT !.rows = Append(db.rows, wr'[p].ev)]
  <1>1. CASE WriteRaises(p, "appending") /\ UNCHANGED db
    BY <1>1, WriterFails
  <1>2. CASE ~(WriteRaises(p, "appending") /\ UNCHANGED db)
    <2> DEFINE e == [wr[p].ev EXCEPT !.prev = TailHash(db.rows)]
    <2>1. /\ In(p, "appending")
          /\ db' = [db EXCEPT !.rows = Append(@, e)]
          /\ wr' = [wr EXCEPT ![p] = [pc |-> "locking", ev |-> e]]
      BY <1>2 DEF AppendChained
    <2>2. wr[p].ev \in Event
      BY <2>1 DEF In, EventInv
    <2>3. e \in Event /\ e.prev = TailHash(db.rows)
      BY <2>2, BoundEvent, RowsAreLines
    <2> HIDE DEF e
    <2>4. [pc |-> "locking", ev |-> e] \in WriterState
      BY <2>3 DEF WriterState, WriterPC
    <2>5. OneWriterMoves(p) /\ wr'[p] = [pc |-> "locking", ev |-> e]
      BY <2>1, <2>4, WriterBecomes
    <2>6. wr'[p].pc = "locking" /\ wr'[p].ev = e
      BY <2>5
    <2>7. db' = [db EXCEPT !.rows = Append(db.rows, e)]
      BY <2>1
    <2>8. QED
      BY <2>1, <2>3, <2>5, <2>6, <2>7 DEF In
  <1>3. QED
    BY <1>1, <1>2

LEMMA ReadFacts ==
    ASSUME JsonlTyped, EventInv, NEW p \in Procs, ReadTail(p)
    PROVE  /\ OneWriterMoves(p) /\ wr[p].pc = "reading"
           /\ \/ wr'[p] = Idle /\ flock' = NoProc
              \/ /\ wr'[p].pc = "writing" /\ wr'[p].ev \in Event
                 /\ wr'[p].ev.prev = TailHash(lines)
                 /\ Whole(lines) /\ flock' = flock
  <1>1. CASE WriteRaises(p, "reading") /\ flock' = NoProc
    BY <1>1, WriterFails
  <1>2. CASE ~(WriteRaises(p, "reading") /\ flock' = NoProc)
    <2> DEFINE e == [wr[p].ev EXCEPT !.prev = TailHash(lines)]
    <2>1. /\ In(p, "reading") /\ Whole(lines) /\ flock' = flock
          /\ wr' = [wr EXCEPT ![p] = [pc |-> "writing", ev |-> e]]
      BY <1>2 DEF ReadTail, Whole
    <2>2. wr[p].ev \in Event /\ lines \in Seq(Line)
      BY <2>1 DEF In, EventInv, JsonlTyped
    <2>3. e \in Event /\ e.prev = TailHash(lines)
      BY <2>1, <2>2, BoundEvent
    <2> HIDE DEF e
    <2>4. [pc |-> "writing", ev |-> e] \in WriterState
      BY <2>3 DEF WriterState, WriterPC
    <2>5. OneWriterMoves(p) /\ wr'[p] = [pc |-> "writing", ev |-> e]
      BY <2>1, <2>4, WriterBecomes
    <2>6. QED
      BY <2>1, <2>3, <2>5 DEF In
  <1>3. QED
    BY <1>1, <1>2

----------------------------------------------------------------------------
\* What a step of one process has to show

\* What write_event returned for.
AckedBy(p) ==
    \/ acked' = acked
    \/ wr[p].pc = "releasing" /\ acked' = acked \cup {[kind |-> kind[p], ev |-> wr[p].ev]}

\* What was put at the end of the file.
WrittenBy(p) ==
    \/ lines' = lines
    \/ wr[p].pc = "writing" /\ lines' \in {Appended(lines, wr[p].ev), Appended(lines, Torn)}

LEMMA WrittenFacts ==
    ASSUME JsonlTyped, EventInv, NEW p \in Procs, WrittenBy(p)
    PROVE  /\ lines' \in Seq(Line)
           /\ \A x : Contains(lines', x) /\ WellFormed(x) =>
                        Contains(lines, x) \/ (x = wr[p].ev /\ wr[p].pc = "writing")
  <1>1. lines \in Seq(Line) /\ Torn \in Line /\ ~WellFormed(Torn)
    BY DEF JsonlTyped, Line, WellFormed, Torn
  <1>2. wr[p].pc = "writing" => wr[p].ev \in Line
    BY DEF EventInv, Line
  <1>3. QED
    BY <1>1, <1>2, AppendedTyped DEF WrittenBy

\* The file of plain loggers: whoever writes holds the lock, so that the
\* others are not between reading the last hash and writing.
LEMMA PlainStep ==
    ASSUME AuditInv, NEW p \in Procs, OneWriterMoves(p), UNCHANGED kind,
           WrittenBy(p), AckedBy(p),
           wr'[p].pc = "writing" => /\ wr[p].pc = "reading" /\ lines' = lines
                                    /\ Whole(lines) /\ wr'[p].ev.prev = TailHash(lines),
           wr'[p].pc = "releasing" => /\ wr[p].pc = "writing" /\ wr'[p].ev = wr[p].ev
                                      /\ lines' = Appended(lines, wr[p].ev)
    PROVE  PlainInv'
  <1>1. SUFFICES ASSUME AllPlain
        PROVE  /\ \/ Whole(lines') /\ Chained(lines')
                  \/ \E s \in Seq(Line) : lines' = Append(s, Torn) /\ Whole(s) /\ Chained(s)
               /\ \A q \in Procs : wr'[q].pc = "writing" =>
                                      Whole(lines') /\ wr'[q].ev.prev = TailHash(lines')
               /\ \A q \in Procs : wr'[q].pc = "releasing" => Contains(lines', wr'[q].ev)
               /\ \A a \in acked' : Contains(lines', a.ev)
    BY DEF PlainInv, AllPlain
  <1>2. /\ \/ Whole(lines) /\ Chained(lines)
           \/ \E s \in Seq(Line) : lines = Append(s, Torn) /\ Whole(s) /\ Chained(s)
        /\ \A q \in Procs : wr[q].pc = "writing" => Whole(lines) /\ wr[q].ev.prev = TailHash(lines)
        /\ \A q \in Procs : wr[q].pc = "releasing" => Contains(lines, wr[q].ev)
        /\ \A a \in acked : Contains(lines, a.ev)
    BY <1>1 DEF AuditInv, PlainInv
  <1>3. lines \in Seq(Line) /\ Torn \in Line /\ ~WellFormed(Torn)
    BY DEF AuditInv, JsonlTyped, Line, WellFormed, Torn
  <1>4. Whole(lines) => Chained(lines)
    <2>1. ASSUME NEW s \in Seq(Line), lines = Append(s, Torn)
          PROVE  ~Whole(lines)
      <3>1. Len(lines) = Len(s) + 1 /\ lines[Len(s) + 1] = Torn /\ Len(s) \in Nat
        BY <1>3, <2>1, AppendProperties, LenProperties
      <3>2. Len(s) + 1 \in 1..Len(lines)
        BY <3>1
      <3>3. QED
        BY <1>3, <3>1, <3>2 DEF Whole
    <2>2. QED
      BY <1>2, <2>1
  <1>5. \A q \in Procs \ {p} : wr'[q] = wr[q]
    BY DEF OneWriterMoves
  <1>6. \A x : Contains(lines, x) => Contains(lines', x)
    <2>1. CASE lines' = lines
      BY <2>1
    <2>2. CASE wr[p].pc = "writing" /\ lines' \in {Appended(lines, wr[p].ev), Appended(lines, Torn)}
      <3>1. Whole(lines) /\ wr[p].ev \in Line
        BY <1>2, <2>2 DEF AuditInv, EventInv, Line
      <3>2. lines' = Append(lines, wr[p].ev) \/ lines' = Append(lines, Torn)
        BY <1>3, <2>2, <3>1, AppendWhole
      <3>3. \A x : Contains(lines, x) => Contains(Append(lines, wr[p].ev), x) /\ Contains(Append(lines, Torn), x)
        BY <1>3, <3>1, AppendContains
      <3>4. QED
        BY <3>2, <3>3
    <2>3. QED
      BY <2>1, <2>2 DEF WrittenBy
  <1>7. \A q \in Procs : wr[q].pc = "releasing" => wr[q].ev \in Event
    BY DEF AuditInv, EventInv
  <1>8. CASE lines' = lines
    <2>1. \A q \in Procs : wr'[q].pc = "writing" => Whole(lines') /\ wr'[q].ev.prev = TailHash(lines')
      BY <1>2, <1>5, <1>8
    <2>2. \A q \in Procs : wr'[q].pc = "releasing" => Contains(lines', wr'[q].ev)
      <3>1. ASSUME wr'[p].pc = "releasing"
            PROVE  Contains(lines', wr'[p].ev)
        <4>1. /\ wr[p].pc = "writing" /\ wr'[p].ev = wr[p].ev
              /\ lines' = Appended(lines, wr[p].ev) /\ Whole(lines) /\ wr[p].ev \in Line
          BY <1>2, <3>1 DEF AuditInv, EventInv, Line
        <4>2. lines' = Append(lines, wr[p].ev)
          BY <1>3, <4>1, AppendWhole
        <4>3. Contains(Append(lines, wr[p].ev), wr[p].ev)
          BY <1>3, <4>1, AppendContains
        <4>4. QED
          BY <4>1, <4>2, <4>3
      <3>2. QED
        BY <1>2, <1>5, <1>8, <3>1
    <2>3. \A a \in acked' : Contains(lines', a.ev)
      BY <1>2, <1>8 DEF AckedBy
    <2>4. QED
      BY <1>2, <1>8, <2>1, <2>2, <2>3
  <1>9. CASE wr[p].pc = "writing" /\ lines' \in {Appended(lines, wr[p].ev), Appended(lines, Torn)}
    <2>1. /\ Whole(lines) /\ Chained(lines) /\ wr[p].ev.prev = TailHash(lines)
          /\ wr[p].ev \in Event /\ wr[p].ev \in Line /\ WellFormed(wr[p].ev)
      BY <1>2, <1>4, <1>9, AuditAssumption DEF AuditInv, EventInv, Line, WellFormed, Event
    <2>2. \/ lines' = Append(lines, wr[p].ev)
          \/ lines' = Append(lines, Torn)
      BY <1>3, <1>9, <2>1, AppendWhole
    <2>3. \/ Whole(lines') /\ Chained(lines')
          \/ \E s \in Seq(Line) : lines' = Append(s, Torn) /\ Whole(s) /\ Chained(s)
      <3>1. CASE lines' = Append(lines, wr[p].ev)
        BY <1>3, <2>1, <3>1, AppendWhole, ChainGrows
      <3>2. CASE lines' = Append(lines, Torn)
        BY <1>3, <2>1, <3>2
      <3>3. QED
        BY <2>2, <3>1, <3>2
    <2>4. \A q \in Procs : wr'[q].pc # "writing"
      <3>1. flock = p /\ p # NoProc
        BY <1>9, ProcAssumption DEF AuditInv, FileLockInv
      <3>2. \A q \in Procs \ {p} : wr[q].pc # "writing"
        BY <3>1 DEF AuditInv, FileLockInv
      <3>3. QED
        BY <1>5, <1>9, <3>2
    <2>5. ASSUME NEW q \in Procs, wr'[q].pc = "releasing"
          PROVE  Contains(lines', wr'[q].ev)
      <3>1. CASE q = p
        <4>1. wr'[p].ev = wr[p].ev /\ lines' = Append(lines, wr[p].ev)
          BY <1>3, <2>1, <2>5, <3>1, AppendWhole
        <4>2. QED
          BY <1>3, <2>1, <3>1, <4>1, AppendContains
      <3>2. CASE q # p
        BY <1>2, <1>5, <1>6, <1>7, <2>5, <3>2
      <3>3. QED
        BY <3>1, <3>2
    <2>6. acked' = acked
      BY <1>9 DEF AckedBy
    <2>7. \A a \in acked' : Contains(lines', a.ev)
      BY <1>2, <1>6, <2>6
    <2>8. QED
      BY <2>3, <2>4, <2>5, <2>7
  <1>10. QED
    BY <1>8, <1>9 DEF WrittenBy

\* A step of one writer: what it adds to the store, the file and what was
\* acknowledged, and that it respects the lock of the file.
LEMMA WriterKeepsInv ==
    ASSUME AuditInv, MigrationInv', NEW p \in Procs, OneWriterMoves(p), UNCHANGED kind,
           WrittenBy(p), AckedBy(p), issued' \in Nat,
           flock' \in Procs \cup {NoProc},
           flock' = flock \/ flock = NoProc \/ flock = p,
           Chained(db'.rows), \A x : Contains(db.rows, x) => Contains(db'.rows, x),
           wr'[p].pc \notin {"ready", "dead"} => wr'[p].ev \in Event,
           wr'[p].pc \in {"reading", "writing", "releasing"} => flock' = p,
           wr'[p].pc = "reading" => kind[p] = "plain",
           kind[p] = "store" /\ wr'[p].pc \in {"locking", "writing", "releasing"} =>
               Contains(db'.rows, wr'[p].ev),
           wr'[p].pc = "writing" => /\ lines' = lines
                                    /\ \/ kind[p] = "store"
                                       \/ /\ wr[p].pc = "reading" /\ Whole(lines)
                                          /\ wr'[p].ev.prev = TailHash(lines),
           wr'[p].pc = "releasing" => /\ wr[p].pc = "writing" /\ wr'[p].ev = wr[p].ev
                                      /\ lines' = Appended(lines, wr[p].ev)
    PROVE  AuditInv'
  <1>0. /\ kind \in [Procs -> LoggerKinds] /\ wr \in [Procs -> WriterState]
        /\ \A q \in Procs \ {p} : wr'[q] = wr[q]
    BY DEF AuditInv, JsonlTyped, OneWriterMoves
  <1>1. wr[p].pc = "releasing" => wr[p].ev \in Event /\ flock = p
    BY DEF AuditInv, EventInv, FileLockInv
  <1>2. /\ lines' \in Seq(Line)
        /\ \A x : Contains(lines', x) /\ WellFormed(x) =>
                     Contains(lines, x) \/ (x = wr[p].ev /\ wr[p].pc = "writing")
    BY WrittenFacts DEF AuditInv
  <1>3. JsonlTyped'
    <2>1. acked' \subseteq [kind: LoggerKinds, ev: Event \cup {NoEvent}]
      <3>1. wr[p].pc = "releasing" =>
               [kind |-> kind[p], ev |-> wr[p].ev] \in [kind: LoggerKinds, ev: Event \cup {NoEvent}]
        BY <1>0, <1>1
      <3>2. QED
        BY <3>1 DEF AckedBy, AuditInv, JsonlTyped
    <2>2. QED
      BY <1>0, <1>2, <2>1 DEF JsonlTyped, OneWriterMoves
  <1>4. EventInv'
    BY <1>0 DEF AuditInv, EventInv
  <1>5. StoredInv'
    <2>1. \A q \in Procs : kind'[q] = "store" /\ wr'[q].pc \in {"locking", "writing", "releasing"}
                              => Contains(db'.rows, wr'[q].ev)
      BY <1>0 DEF AuditInv, StoredInv
    <2>2. \A q \in Procs : wr'[q].pc = "reading" => kind'[q] = "plain"
      BY <1>0 DEF AuditInv, StoredInv
    <2>3. \A a \in acked' : a.kind = "store" => Contains(db'.rows, a.ev)
      BY DEF AckedBy, AuditInv, StoredInv
    <2>4. QED
      BY <2>1, <2>2, <2>3 DEF StoredInv
  <1>6. MirrorInv'
    <2>1. SUFFICES ASSUME AllStore, NEW i \in 1..Len(lines'), WellFormed(lines'[i])
          PROVE  Contains(db'.rows, lines'[i])
      BY DEF MirrorInv, AllStore, WellFormed
    <2>2. Contains(lines', lines'[i])
      BY <2>1 DEF Contains
    <2>3. CASE Contains(lines, lines'[i])
      <3>1. PICK j \in 1..Len(lines) : lines[j] = lines'[i]
        BY <2>3 DEF Contains
      <3>2. Contains(db.rows, lines[j])
        BY <2>1, <3>1 DEF AuditInv, MirrorInv
      <3>3. QED
        BY <3>1, <3>2
    <2>4. CASE lines'[i] = wr[p].ev /\ wr[p].pc = "writing"
      BY <2>1, <2>4 DEF AuditInv, StoredInv, AllStore
    <2>5. QED
      BY <1>2, <2>1, <2>2, <2>3, <2>4
  <1>7. FileLockInv'
    BY <1>0, ProcAssumption DEF AuditInv, FileLockInv
  <1>8. PlainInv'
    <2>1. CASE kind[p] = "store"
      <3>1. ~AllPlain'
        BY <2>1 DEF AllPlain
      <3>2. QED
        BY <3>1 DEF PlainInv
    <2>2. CASE kind[p] # "store"
      BY <2>2, PlainStep
    <2>3. QED
      BY <2>1, <2>2
  <1>9. QED
    BY <1>3, <1>4, <1>5, <1>6, <1>7, <1>8 DEF AuditInv

\* A step that leaves the writers and the file alone, and every row.
LEMMA RowsKeepInv ==
    ASSUME AuditInv, MigrationInv', UNCHANGED <<kind, lines, flock, wr, issued, acked>>,
           db'.rows = db.rows
    PROVE  AuditInv'
  BY DEF AuditInv, JsonlTyped, EventInv, StoredInv, MirrorInv, AllStore, FileLockInv, PlainInv, AllPlain

\* The store's part in a step of a writer that does not insert.
LEMMA WriterQuiet ==
    ASSUME AuditInv, NEW p \in Procs, OneWriterMoves(p),
           UNCHANGED <<db, backups, made, marker, mlock, mig, temp, kind>>,
           wr'[p].pc = "appending" => mig[p] = "open" /\ kind[p] = "store"
    PROVE  MigrationInv' /\ Chained(db'.rows)
  <1>1. \A q \in Procs : wr'[q].pc = "appending" => mig'[q] = "open" /\ kind[q] = "store"
    BY DEF AuditInv, MigrationInv, UseInv, OneWriterMoves
  <1>2. mig' \in [Procs -> MigrationPC] /\ mlock' \in Procs \cup {NoProc}
    BY DEF AuditInv, MigrationInv, MigrationTyped
  <1>3. QED
    BY <1>1, <1>2, QuietKeepsInv DEF AuditInv, StoredInv

LEMMA LogKeepsInv ==
    ASSUME AuditInv, NEW p \in Procs, Log(p)
    PROVE  AuditInv'
  <1>1. /\ OneWriterMoves(p)
        /\ wr[p].pc = "ready" /\ wr'[p].ev \in Event /\ issued' \in Nat
        /\ \/ wr'[p].pc = "appending" /\ kind[p] = "store" /\ mig[p] = "open"
           \/ wr'[p].pc = "locking" /\ kind[p] = "plain"
    BY LogFacts DEF AuditInv
  <1>2. /\ UNCHANGED <<db, backups, made, marker, mlock, mig, temp, kind, lines, flock, acked>>
        /\ flock \in Procs \cup {NoProc}
    BY DEF Log, LogSame, JsonlSame, migrationVars, AuditInv, JsonlTyped
  <1>3. MigrationInv' /\ Chained(db'.rows)
    BY <1>1, <1>2, WriterQuiet
  <1>4. WrittenBy(p) /\ AckedBy(p)
    BY <1>2 DEF WrittenBy, AckedBy
  <1>5. QED
    BY <1>1, <1>2, <1>3, <1>4, WriterKeepsInv

LEMMA AppendKeepsInv ==
    ASSUME AuditInv, NEW p \in Procs, AppendChained(p)
    PROVE  AuditInv' /\ (Foreign(db) => db' = db)
  <1>1. /\ OneWriterMoves(p) /\ wr[p].pc = "appending"
        /\ \/ wr'[p] = Idle /\ db' = db
           \/ /\ wr'[p].pc = "locking" /\ wr'[p].ev \in Event
              /\ wr'[p].ev.prev = TailHash(db.rows)
              /\ db' = [db EXCEPT !.rows = Append(db.rows, wr'[p].ev)]
    BY AppendFacts DEF AuditInv
  <1>2. /\ UNCHANGED <<backups, made, marker, mlock, mig, temp, kind, lines, flock, acked, issued>>
        /\ flock \in Procs \cup {NoProc} /\ issued \in Nat
    BY DEF AppendChained, JsonlSame, AuditInv, JsonlTyped
  <1>3. WrittenBy(p) /\ AckedBy(p)
    BY <1>2 DEF WrittenBy, AckedBy
  <1>4. CASE wr'[p] = Idle /\ db' = db
    <2>1. wr'[p].pc = "ready"
      BY <1>4 DEF Idle
    <2>2. MigrationInv' /\ Chained(db'.rows)
      BY <1>1, <1>2, <1>4, <2>1, WriterQuiet
    <2>3. QED
      BY <1>1, <1>2, <1>3, <1>4, <2>1, <2>2, WriterKeepsInv
  <1>5. CASE /\ wr'[p].pc = "locking" /\ wr'[p].ev \in Event
             /\ wr'[p].ev.prev = TailHash(db.rows)
             /\ db' = [db EXCEPT !.rows = Append(db.rows, wr'[p].ev)]
    <2>1. \A q \in Procs : wr'[q].pc = "appending" => wr[q].pc = "appending"
      BY <1>1, <1>5 DEF OneWriterMoves
    <2>2. PICK e \in Event : e = wr'[p].ev
      BY <1>5
    <2>3. /\ MigrationInv'
          /\ db'.rows = Append(db.rows, e) /\ db.rows \in Seq(Event) /\ ~Foreign(db)
      BY <1>1, <1>2, <1>5, <2>1, <2>2, InsertKeepsInv DEF AuditInv
    <2>4. Chained(db'.rows)
      BY <1>5, <2>2, <2>3, ChainGrows DEF AuditInv, StoredInv
    <2>5. (\A x : Contains(db.rows, x) => Contains(db'.rows, x)) /\ Contains(db'.rows, wr'[p].ev)
      BY <2>2, <2>3, AppendContains
    <2>6. QED
      BY <1>1, <1>2, <1>3, <1>5, <2>3, <2>4, <2>5, WriterKeepsInv
  <1>6. QED
    BY <1>1, <1>4, <1>5

LEMMA LockKeepsInv ==
    ASSUME AuditInv, NEW p \in Procs, LockJsonl(p)
    PROVE  AuditInv'
  <1> DEFINE to == IF kind[p] = "store" THEN "writing" ELSE "reading"
  <1>1. /\ flock = NoProc /\ flock' = p /\ WStep(p, "locking", to)
        /\ UNCHANGED <<db, backups, made, marker, mlock, mig, temp, kind, lines, acked, issued>>
        /\ issued \in Nat /\ kind[p] \in LoggerKinds
    BY DEF LockJsonl, LogSame, migrationVars, AuditInv, JsonlTyped
  <1>2. /\ to \in WriterPC
        /\ (to = "writing" /\ kind[p] = "store") \/ (to = "reading" /\ kind[p] = "plain")
    BY <1>1 DEF WriterPC, LoggerKinds
  <1> HIDE DEF to
  <1>3. /\ OneWriterMoves(p)
        /\ wr[p].pc = "locking" /\ wr'[p].pc = to /\ wr'[p].ev = wr[p].ev
    BY <1>1, <1>2, WriterGoes DEF AuditInv
  <1>4. MigrationInv' /\ Chained(db'.rows)
    BY <1>1, <1>2, <1>3, WriterQuiet
  <1>5. WrittenBy(p) /\ AckedBy(p)
    BY <1>1 DEF WrittenBy, AckedBy
  <1>6. wr'[p].ev \in Event /\ (kind[p] = "store" => Contains(db'.rows, wr'[p].ev))
    BY <1>1, <1>3 DEF AuditInv, EventInv, StoredInv
  <1>7. QED
    BY <1>1, <1>2, <1>3, <1>4, <1>5, <1>6, WriterKeepsInv

LEMMA ReadKeepsInv ==
    ASSUME AuditInv, NEW p \in Procs, ReadTail(p)
    PROVE  AuditInv'
  <1>1. /\ OneWriterMoves(p) /\ wr[p].pc = "reading"
        /\ \/ wr'[p] = Idle /\ flock' = NoProc
           \/ /\ wr'[p].pc = "writing" /\ wr'[p].ev \in Event
              /\ wr'[p].ev.prev = TailHash(lines)
              /\ Whole(lines) /\ flock' = flock
    BY ReadFacts DEF AuditInv
  <1>2. /\ UNCHANGED <<db, backups, made, marker, mlock, mig, temp, kind, lines, acked, issued>>
        /\ issued \in Nat
    BY DEF ReadTail, LogSame, migrationVars, AuditInv, JsonlTyped
  <1>3. kind[p] = "plain" /\ flock = p
    BY <1>1 DEF AuditInv, StoredInv, FileLockInv
  <1>4. WrittenBy(p) /\ AckedBy(p)
    BY <1>2 DEF WrittenBy, AckedBy
  <1>5. wr'[p] = Idle => wr'[p].pc = "ready"
    BY DEF Idle
  <1>6. MigrationInv' /\ Chained(db'.rows)
    BY <1>1, <1>2, <1>5, WriterQuiet
  <1>7. CASE wr'[p] = Idle /\ flock' = NoProc
    BY <1>1, <1>2, <1>3, <1>4, <1>5, <1>6, <1>7, WriterKeepsInv
  <1>8. CASE /\ wr'[p].pc = "writing" /\ wr'[p].ev \in Event
             /\ wr'[p].ev.prev = TailHash(lines)
             /\ Whole(lines) /\ flock' = flock
    BY <1>1, <1>2, <1>3, <1>4, <1>6, <1>8, WriterKeepsInv
  <1>9. QED
    BY <1>1, <1>7, <1>8

LEMMA WriteKeepsInv ==
    ASSUME AuditInv, NEW p \in Procs, WriteLine(p)
    PROVE  AuditInv'
  <1>1. /\ WStep(p, "writing", "releasing") /\ lines' = Appended(lines, wr[p].ev)
        /\ UNCHANGED <<db, backups, made, marker, mlock, mig, temp, kind, flock, acked, issued>>
        /\ issued \in Nat
    BY DEF WriteLine, LogSame, migrationVars, AuditInv, JsonlTyped
  <1>2. /\ OneWriterMoves(p)
        /\ wr[p].pc = "writing" /\ wr'[p].pc = "releasing" /\ wr'[p].ev = wr[p].ev
    <2>1. "releasing" \in WriterPC
      BY DEF WriterPC
    <2>2. QED
      BY <1>1, <2>1, WriterGoes DEF AuditInv
  <1>3. flock = p
    BY <1>2 DEF AuditInv, FileLockInv
  <1>4. MigrationInv' /\ Chained(db'.rows)
    BY <1>1, <1>2, WriterQuiet
  <1>5. WrittenBy(p) /\ AckedBy(p)
    BY <1>1, <1>2 DEF WrittenBy, AckedBy
  <1>6. wr'[p].ev \in Event /\ (kind[p] = "store" => Contains(db'.rows, wr'[p].ev))
    BY <1>1, <1>2 DEF AuditInv, EventInv, StoredInv
  <1>7. QED
    BY <1>1, <1>2, <1>3, <1>4, <1>5, <1>6, WriterKeepsInv

\* write_event ends: it returns, or a write fails.
LEMMA EndKeepsInv ==
    ASSUME AuditInv, NEW p \in Procs, WriteTears(p) \/ ReleaseJsonl(p)
    PROVE  AuditInv'
  <1>1. /\ UNCHANGED <<db, backups, made, marker, mlock, mig, temp, kind, issued>>
        /\ issued \in Nat /\ flock \in Procs \cup {NoProc}
    BY DEF WriteTears, ReleaseJsonl, LogSame, migrationVars, AuditInv, JsonlTyped
  <1>2. /\ wr[p].pc \in {"writing", "releasing"} /\ OneWriterMoves(p) /\ wr'[p].pc = "ready"
    <2>1. Idle \in WriterState /\ Idle.pc = "ready"
      BY DEF Idle, WriterState, WriterPC
    <2>2. wr' = [wr EXCEPT ![p] = Idle] /\ wr[p].pc \in {"writing", "releasing"}
      BY DEF WriteTears, ReleaseJsonl, WriteRaises, In
    <2>3. QED
      BY <2>1, <2>2, WriterBecomes DEF AuditInv
  <1>3. flock = p /\ flock' = NoProc
    <2>1. flock = p
      BY <1>2 DEF AuditInv, FileLockInv
    <2>2. QED
      BY <2>1 DEF WriteTears, ReleaseJsonl
  <1>4. WrittenBy(p) /\ AckedBy(p)
    BY DEF WriteTears, ReleaseJsonl, WriteRaises, In, WrittenBy, AckedBy
  <1>5. MigrationInv' /\ Chained(db'.rows)
    BY <1>1, <1>2, WriterQuiet
  <1>6. QED
    BY <1>1, <1>2, <1>3, <1>4, <1>5, WriterKeepsInv

\* A process dies: the kernel drops its locks and its files stay.
LEMMA ExitKeepsInv ==
    ASSUME AuditInv, NEW p \in Procs, WriterExit(p)
    PROVE  AuditInv'
  <1>1. /\ UNCHANGED <<db, backups, made, marker, temp, kind, issued, acked>>
        /\ mig' = [mig EXCEPT ![p] = "dead"]
        /\ mlock' = IF mlock = p THEN NoProc ELSE mlock
        /\ wr' = [wr EXCEPT ![p] = [Idle EXCEPT !.pc = "dead"]]
        /\ flock' = IF flock = p THEN NoProc ELSE flock
        /\ lines' \in {lines} \cup (IF In(p, "writing") THEN {Appended(lines, Torn)} ELSE {})
    BY DEF WriterExit, MigrationExit
  <1>2. issued \in Nat /\ flock \in Procs \cup {NoProc} /\ mlock \in Procs \cup {NoProc}
        /\ mig \in [Procs -> MigrationPC]
    BY DEF AuditInv, JsonlTyped, MigrationInv, MigrationTyped
  <1>3. OneWriterMoves(p) /\ wr'[p].pc = "dead"
    <2>1. [Idle EXCEPT !.pc = "dead"] \in WriterState /\ [Idle EXCEPT !.pc = "dead"].pc = "dead"
      BY DEF Idle, WriterState, WriterPC
    <2>2. QED
      BY <1>1, <2>1, WriterBecomes DEF AuditInv
  <1>4. WrittenBy(p) /\ AckedBy(p)
    BY <1>1 DEF WrittenBy, AckedBy, In
  <1>5. MigrationInv'
    <2>1. /\ mig' \in [Procs -> MigrationPC] /\ mig'[p] = "dead"
          /\ \A q \in Procs \ {p} : mig'[q] = mig[q]
      BY <1>1, <1>2 DEF MigrationPC
    <2>2. mlock' \in Procs \cup {NoProc}
      BY <1>1, <1>2
    <2>3. ASSUME NEW q \in Procs
          PROVE  /\ \/ mig'[q] = mig[q] /\ (mig[q] \in Locked => mlock' = mlock)
                    \/ mig'[q] = "dead"
                 /\ wr'[q].pc = "appending" => mig'[q] = "open" /\ kind[q] = "store"
      <3>1. CASE q = p
        BY <1>3, <2>1, <3>1
      <3>2. CASE q # p
        <4>1. mig[q] \in Locked => mlock = q
          BY DEF AuditInv, MigrationInv, HolderInv
        <4>2. wr'[q].pc = "appending" => mig[q] = "open" /\ kind[q] = "store"
          BY <1>3, <3>2 DEF OneWriterMoves, AuditInv, MigrationInv, UseInv
        <4>3. QED
          BY <1>1, <2>1, <3>2, <4>1, <4>2
      <3>3. QED
        BY <3>1, <3>2
    <2>4. QED
      BY <1>1, <2>1, <2>2, <2>3, QuietKeepsInv DEF AuditInv
  <1>6. Chained(db'.rows)
    BY <1>1 DEF AuditInv, StoredInv
  <1>7. QED
    BY <1>1, <1>2, <1>3, <1>4, <1>5, <1>6, WriterKeepsInv

----------------------------------------------------------------------------
\* The whole

LEMMA AuditInitInv ==
    ASSUME AuditInit
    PROVE  AuditInv
  <1>1. /\ db \in OldDatabases /\ db \in Database /\ TableInv(db) /\ Verifies(db.rows)
        /\ db.rows \in Seq(Event)
    BY AuditAssumption, OldDatabasesAssumption DEF AuditInit, TableInv, Database
  <1>2. /\ backups = <<>> /\ made = 0 /\ marker = NoMarker /\ temp = {} /\ mlock = NoProc
        /\ mig = [p \in Procs |-> "closed"]
        /\ kind \in [Procs -> LoggerKinds] /\ lines = <<>> /\ flock = NoProc
        /\ wr = [p \in Procs |-> Idle] /\ issued = Len(db.rows) /\ acked = {}
    BY AuditAssumption DEF AuditInit, MigrationInit, LoggerKinds
  <1>3. Idle \in WriterState /\ Idle.pc = "ready" /\ "closed" \in MigrationPC
    BY DEF Idle, WriterState, WriterPC, MigrationPC
  <1>4. Len(backups) = 0 /\ Len(lines) = 0
    BY <1>2
  <1>5. MigrationInv
    <2>1. MigrationTyped /\ HolderInv
      BY <1>1, <1>2, <1>3 DEF MigrationTyped, HolderInv, Locked
    <2>2. BackupsInv /\ UseInv /\ MarkerInv
      BY <1>2, <1>3, <1>4 DEF BackupsInv, UseInv, MarkerInv
    <2>3. PhaseInv
      BY <1>2 DEF PhaseInv, PhaseAt
    <2>4. QED
      BY <1>1, <2>1, <2>2, <2>3 DEF MigrationInv
  <1>6. JsonlTyped /\ EventInv
    <2>1. issued \in Nat
      BY <1>1, <1>2, LenProperties
    <2>2. QED
      BY <1>2, <1>3, <2>1 DEF JsonlTyped, EventInv
  <1>7. StoredInv
    BY <1>1, <1>2, <1>3, VerifiesIsChained DEF StoredInv
  <1>8. MirrorInv /\ FileLockInv
    BY <1>2, <1>3, <1>4 DEF MirrorInv, FileLockInv
  <1>9. PlainInv
    BY <1>2, <1>3, <1>4 DEF PlainInv, Whole, Chained
  <1>10. QED
    BY <1>5, <1>6, <1>7, <1>8, <1>9 DEF AuditInv

\* Every step keeps the invariant, and none touches a database that is not
\* this build's.
LEMMA AuditStepInv ==
    ASSUME AuditInv, [AuditNext]_auditVars
    PROVE  /\ AuditInv'
           /\ Foreign(db) => /\ db'.record = db.record /\ db'.table = db.table
                             /\ db'.version = db.version /\ db'.rows = db.rows
  <1>1. ASSUME NEW p \in Procs, Log(p) \/ LockJsonl(p) \/ ReadTail(p) \/ WriteLine(p)
               \/ ReleaseJsonl(p) \/ WriteTears(p) \/ WriterExit(p)
        PROVE  AuditInv' /\ db' = db
    <2>1. db' = db
      BY <1>1 DEF Log, LockJsonl, ReadTail, WriteLine, ReleaseJsonl, WriteTears, WriterExit,
                  MigrationExit, LogSame, migrationVars
    <2>2. QED
      BY <1>1, <2>1, LogKeepsInv, LockKeepsInv, ReadKeepsInv, WriteKeepsInv, EndKeepsInv, ExitKeepsInv
  <1>2. ASSUME NEW p \in Procs, AppendChained(p)
        PROVE  AuditInv' /\ (Foreign(db) => db' = db)
    BY <1>2, AppendKeepsInv
  <1>3. ASSUME NEW p \in Procs, Opening(p)
        PROVE  AuditInv' /\ (Foreign(db) => db' = db)
    <2>1. /\ StartOpen(p) \/ MigrationStep(p)
          /\ UNCHANGED <<kind, wr, issued, acked, lines, flock>>
      BY <1>3 DEF Opening, JsonlSame
    <2>2. MigrationInv' /\ db'.rows = db.rows /\ (Foreign(db) => db' = db)
      BY <2>1, OpeningKeepsInv DEF AuditInv
    <2>3. QED
      BY <2>1, <2>2, RowsKeepInv
  <1>4. CASE DiskFault
    <2>1. DamageDatabase /\ UNCHANGED <<kind, wr, issued, acked, lines, flock>>
      BY <1>4 DEF DiskFault, JsonlSame
    <2>2. /\ MigrationInv' /\ db'.rows = db.rows
          /\ db'.record = db.record /\ db'.table = db.table /\ db'.version = db.version
      BY <2>1, DamageKeepsInv DEF AuditInv
    <2>3. QED
      BY <2>1, <2>2, RowsKeepInv
  <1>5. CASE UNCHANGED auditVars
    <2>1. UNCHANGED <<db, backups, made, marker, mlock, mig, temp, kind, lines, flock, wr, issued, acked>>
      BY <1>5 DEF auditVars, migrationVars
    <2>2. MigrationInv'
      <3>1. mig' \in [Procs -> MigrationPC] /\ mlock' \in Procs \cup {NoProc}
        BY <2>1 DEF AuditInv, MigrationInv, MigrationTyped
      <3>2. \A q \in Procs : wr'[q].pc = "appending" => mig'[q] = "open" /\ kind[q] = "store"
        BY <2>1 DEF AuditInv, MigrationInv, UseInv
      <3>3. QED
        BY <2>1, <3>1, <3>2, QuietKeepsInv DEF AuditInv
    <2>3. QED
      BY <2>1, <2>2, RowsKeepInv
  <1>6. QED
    BY <1>1, <1>2, <1>3, <1>4, <1>5 DEF AuditNext, WriterStep

\* The log keeps its books through concurrent writers, failed writes, deaths,
\* migrations, damage and restores: what the migration lock and the lock of
\* the file protect is as their holders left it.
THEOREM AuditKept == AuditSpec => []AuditInv
  <1>1. AuditInit => AuditInv
    BY AuditInitInv
  <1>2. AuditInv /\ [AuditNext]_auditVars => AuditInv'
    BY AuditStepInv
  <1>3. QED
    BY <1>1, <1>2, PTL DEF AuditSpec

\* _recover_interrupted_migration loses no row: the backup a marker names is
\* there, was verified, and nobody has stored an event since it was taken.
THEOREM RestoreIsSafe == AuditSpec => []RestoreLosesNothing
  <1>1. AuditInv => RestoreLosesNothing
    BY DEF AuditInv, MigrationInv, MarkerInv, Covered, RestoreLosesNothing
  <1>2. QED
    BY <1>1, AuditKept, PTL

\* migrate_sqlite_schema, and every logger after it, leaves a database of
\* another store, of a newer build or with another checksum as it found it.
THEOREM ForeignIsLeftAlone == AuditSpec => ForeignSchemaUntouched
  <1>1. AuditInv /\ [AuditNext]_auditVars =>
           [Foreign(db) => /\ db'.record = db.record /\ db'.table = db.table
                           /\ db'.version = db.version /\ db'.rows = db.rows]_db
    BY AuditStepInv
  <1>2. QED
    BY <1>1, AuditKept, PTL DEF AuditSpec, ForeignSchemaUntouched

\* append_chained_event: the chain of the store always verifies and holds
\* every event whose write_event has returned.
THEOREM StoreChainKept == AuditSpec => []StoreKeepsChain
  <1>1. AuditInv => StoreKeepsChain
    <2>1. ASSUME AuditInv PROVE Verifies(db.rows)
      BY <2>1, RowsAreLines, VerifiesIsChained DEF AuditInv, StoredInv
    <2>2. QED
      BY <2>1 DEF AuditInv, StoredInv, StoreKeepsChain
  <1>2. QED
    BY <1>1, AuditKept, PTL

\* The JSONL file of plain loggers verifies up to a line cut short at its end,
\* and holds every event whose write_event has returned.
THEOREM PlainFileKept == AuditSpec => []PlainFileKeepsChain
  <1>1. ASSUME AuditInv, AllPlain
        PROVE  /\ Verifies(UpToTear)
               /\ \A i \in 1..Len(lines) : WellFormed(lines[i]) \/ (i = Len(lines) /\ lines[i] = Torn)
               /\ \A a \in acked : Contains(lines, a.ev)
    <2>1. \A a \in acked : Contains(lines, a.ev)
      BY <1>1 DEF AuditInv, PlainInv
    <2>2. lines \in Seq(Line) /\ Torn \in Line /\ ~WellFormed(Torn)
      BY <1>1 DEF AuditInv, JsonlTyped, Line, WellFormed, Torn
    <2>3. CASE Whole(lines) /\ Chained(lines)
      <3>1. UpToTear = lines
        <4>1. lines # <<>> => Len(lines) \in 1..Len(lines)
          BY <2>2, EmptySeq
        <4>2. QED
          BY <2>2, <2>3, <4>1 DEF UpToTear, Whole
      <3>2. QED
        BY <2>1, <2>2, <2>3, <3>1, VerifiesIsChained DEF Whole
    <2>4. CASE \E s \in Seq(Line) : lines = Append(s, Torn) /\ Whole(s) /\ Chained(s)
      <3>1. PICK s \in Seq(Line) : lines = Append(s, Torn) /\ Whole(s) /\ Chained(s)
        BY <2>4
      <3>2. /\ lines # <<>> /\ Len(s) \in Nat /\ Len(lines) = Len(s) + 1
            /\ \A i \in 1..Len(s) : lines[i] = s[i]
            /\ lines[Len(s) + 1] = Torn
        BY <2>2, <3>1, AppendProperties, LenProperties
      <3>3. UpToTear = SubSeq(lines, 1, Len(s))
        BY <3>2 DEF UpToTear, Front
      <3>4. SubSeq(lines, 1, Len(s)) = s
        <4>1. \A i \in 1..Len(s) : lines[i] \in Line
          BY <2>2, <3>2, ElementOfSeq
        <4>2. /\ SubSeq(lines, 1, Len(s)) \in Seq(Line)
              /\ Len(SubSeq(lines, 1, Len(s))) = Len(s)
              /\ \A i \in 1..Len(s) : SubSeq(lines, 1, Len(s))[i] = lines[i]
          BY <3>2, <4>1, SubSeqProperties
        <4>3. QED
          BY <3>2, <4>2, SeqEqual
      <3>5. \A i \in 1..Len(lines) : WellFormed(lines[i]) \/ (i = Len(lines) /\ lines[i] = Torn)
        <4>1. \A i \in 1..Len(lines) : i \in 1..Len(s) \/ i = Len(s) + 1
          BY <3>2
        <4>2. QED
          BY <3>1, <3>2, <4>1 DEF Whole
      <3>6. QED
        BY <2>1, <3>1, <3>3, <3>4, <3>5, VerifiesIsChained
    <2>5. QED
      BY <1>1, <2>3, <2>4 DEF AuditInv, PlainInv
  <1>2. AuditInv => PlainFileKeepsChain
    BY <1>1 DEF PlainFileKeepsChain
  <1>3. QED
    BY <1>2, AuditKept, PTL

\* The mirror of loggers that all have the store never holds an event the
\* store does not hold, whatever query_audit_events then selects of it.
THEOREM MirrorIsStored == AuditSpec => []MirrorInv
  <1>1. AuditInv => MirrorInv
    BY DEF AuditInv
  <1>2. QED
    BY <1>1, AuditKept, PTL

----------------------------------------------------------------------------
\* The pages of a query

LEMMA NestedPlaces ==
    ASSUME NEW S \in SUBSET Nat, NEW m \in S, NEW n \in S, m < n
    PROVE  /\ {y \in S : y >= n} \subseteq {y \in S : y >= m} /\ m \notin {y \in S : y >= n}
           /\ {y \in S : y <= m} \subseteq {y \in S : y <= n} /\ n \notin {y \in S : y <= m}
  <1>1. m \in Nat /\ n \in Nat /\ \A y \in S : y \in Nat
    OBVIOUS
  <1>2. ASSUME NEW y \in S
        PROVE  (y >= n => y >= m) /\ (y <= m => y <= n)
    <2>1. y \in Nat
      BY <1>1
    <2> QED
      BY <1>1, <2>1
  <1>3. ~(m >= n) /\ ~(n <= m)
    BY <1>1
  <1> QED
    BY <1>2, <1>3

\* Every place up to the number of selected lines is that of one of them.
LEMMA PlacesTaken ==
    ASSUME NEW S \in SUBSET Nat, IsFiniteSet(S), NEW newest \in BOOLEAN,
           NEW k \in 1..Cardinality(S)
    PROVE  \E n \in S : Cardinality({m \in S : IF newest THEN m >= n ELSE m <= n}) = k
  <1> DEFINE Upto(n) == {m \in S : IF newest THEN m >= n ELSE m <= n}
             c       == Cardinality(S)
             rank    == [n \in S |-> Cardinality(Upto(n))]
  <1>1. c \in Nat /\ IsFiniteSet(1..c) /\ Cardinality(1..c) = c
    <2>1. c \in Nat
      BY FS_CardinalityType
    <2> HIDE DEF c
    <2>2. IsFiniteSet(1..c) /\ Cardinality(1..c) = IF 1 > c THEN 0 ELSE c - 1 + 1
      BY <2>1, FS_Interval
    <2> QED
      BY <2>1, <2>2
  <1>2. \A n \in S : n \in Upto(n) /\ Upto(n) \subseteq S
    OBVIOUS
  <1>3. \A n \in S : IsFiniteSet(Upto(n)) /\ Cardinality(Upto(n)) \in Nat /\ Cardinality(Upto(n)) <= c
    <2> HIDE DEF Upto
    <2> QED
      BY <1>2, FS_Subset, FS_CardinalityType
  <1>4. \A n \in S : Cardinality(Upto(n)) # 0
    <2> HIDE DEF Upto
    <2> QED
      BY <1>2, <1>3, FS_EmptySet
  <1>5. \A m, n \in S : m # n => \/ Upto(m) \subseteq Upto(n) /\ n \notin Upto(m)
                                 \/ Upto(n) \subseteq Upto(m) /\ m \notin Upto(n)
    <2> SUFFICES ASSUME NEW m \in S, NEW n \in S, m < n
                 PROVE  IF newest THEN Upto(n) \subseteq Upto(m) /\ m \notin Upto(n)
                                  ELSE Upto(m) \subseteq Upto(n) /\ n \notin Upto(m)
      <3>1. \A m, n \in S : m < n \/ n < m \/ m = n
        OBVIOUS
      <3> HIDE DEF Upto
      <3> QED
        BY <3>1
    <2>2. CASE newest
      <3>1. Upto(m) = {y \in S : y >= m} /\ Upto(n) = {y \in S : y >= n}
        BY <2>2, Zenon
      <3> HIDE DEF Upto
      <3>2. Upto(n) \subseteq Upto(m) /\ m \notin Upto(n)
        BY <3>1, NestedPlaces
      <3> QED
        BY <2>2, <3>2
    <2>3. CASE ~newest
      <3>1. Upto(m) = {y \in S : y <= m} /\ Upto(n) = {y \in S : y <= n}
        BY <2>3, Zenon
      <3> HIDE DEF Upto
      <3>2. Upto(m) \subseteq Upto(n) /\ n \notin Upto(m)
        BY <3>1, NestedPlaces
      <3> QED
        BY <2>3, <3>2
    <2> QED
      BY <2>2, <2>3
  <1> HIDE DEF Upto, c
  <1>6. \A m, n \in S : m # n => Cardinality(Upto(m)) # Cardinality(Upto(n))
    BY <1>2, <1>3, <1>5, FS_Subset
  <1>7. rank \in [S -> 1..c]
    BY <1>1, <1>3, <1>4
  <1>8. \A m, n \in S : rank[m] = rank[n] => m = n
    BY <1>6
  <1> HIDE DEF rank
  <1>9. rank \in Injection(S, 1..c)
    BY <1>7, <1>8, Fun_IsInj
  <1>10. rank \in Surjection(S, 1..c)
    BY <1>1, <1>9, FS_Injection DEF c
  <1>11. PICK n \in S : rank[n] = k
    <2>1. k \in 1..c
      BY DEF c
    <2>2. \A t \in 1..c : \E n \in S : rank[n] = t
      BY <1>10, Fun_SurjectionProperties
    <2> QED
      BY <2>1, <2>2
  <1> QED
    BY <1>11 DEF rank, Upto

LEMMA PageFromLines ==
    ASSUME lines \in Seq(Line), NEW q \in Queries, NEW i \in DOMAIN Page(q)
    PROVE  \E n \in 1..Len(lines) : WellFormed(lines[n]) /\ Page(q)[i] = lines[n]
  <1> DEFINE S    == Filtered(q)
             c    == Cardinality(S)
             last == q.offset + Limit(q)
             end  == IF last < c THEN last ELSE c
             n    == CHOOSE x \in S : Place(q, x) = q.offset + i
  <1>1. q.offset \in Nat /\ q.newest \in BOOLEAN /\ Limit(q) \in Nat
    BY AuditAssumption DEF Limit
  <1>2. S \in SUBSET Nat /\ IsFiniteSet(S) /\ c \in Nat
    <2>1. Len(lines) \in Nat
      OBVIOUS
    <2>2. IsFiniteSet(1..Len(lines)) /\ S \subseteq 1..Len(lines)
      BY <2>1, FS_Interval DEF Filtered, ReadableLines
    <2> QED
      BY <2>1, <2>2, FS_Subset, FS_CardinalityType
  <1>3. i \in 1..(end - q.offset) /\ Page(q)[i] = lines[n]
    BY DEF Page
  <1>4. q.offset + i \in 1..c
    <2> HIDE DEF c, last
    <2>1. last \in Nat
      BY <1>1 DEF last
    <2> QED
      BY <1>1, <1>2, <1>3, <2>1
  <1>5. \E x \in S : Place(q, x) = q.offset + i
    <2> DEFINE k == q.offset + i
               newest == q.newest
    <2> HIDE DEF k, newest, S
    <2>0. S \in SUBSET Nat /\ IsFiniteSet(S) /\ newest \in BOOLEAN /\ k \in 1..Cardinality(S)
      BY <1>1, <1>2, <1>4 DEF k, newest
    <2>1. \E x \in S : Cardinality({m \in S : IF newest THEN m >= x ELSE m <= x}) = k
      BY <2>0, PlacesTaken, Zenon
    <2> QED
      BY <2>1 DEF Place, S, k, newest
  <1>6. n \in S
    BY <1>5
  <1> QED
    BY <1>3, <1>6 DEF Filtered, ReadableLines

\* What a query shows together with a successful verification is in the
\* verified chain, for every filter, limit, offset and order of the query:
\* query_audit_events reads the mirror, which never holds an event the store
\* does not hold.
THEOREM PagesAreChained == AuditSpec => []VerifiedPageIsChained
  <1>1. AuditInv => VerifiedPageIsChained
    <2> SUFFICES ASSUME AuditInv, AllStore, NEW q \in Queries, NEW i \in DOMAIN Page(q)
                 PROVE  Contains(db.rows, Page(q)[i])
      BY DEF VerifiedPageIsChained
    <2>1. lines \in Seq(Line)
      BY DEF AuditInv, JsonlTyped
    <2>2. PICK n \in 1..Len(lines) : WellFormed(lines[n]) /\ Page(q)[i] = lines[n]
      BY <2>1, PageFromLines
    <2> QED
      BY <2>2 DEF AuditInv, MirrorInv
  <1>2. QED
    BY <1>1, AuditKept, PTL

=============================================================================
