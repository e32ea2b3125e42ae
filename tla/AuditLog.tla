------------------------------ MODULE AuditLog -------------------------------
(***************************************************************************)
(* The audit log (audit_logger.py, audit_storage.py, audit_query.py).  A    *)
(* process writes hash-chained events either to the SQLite store, and then  *)
(* to a JSONL mirror, or to a JSONL file alone.  All processes here share   *)
(* one database and one JSONL file; the store is opened by                  *)
(* SqliteMigration.                                                         *)
(*                                                                          *)
(*   store: ready -> appending -> locking -> writing -> releasing -> ready  *)
(*   plain: ready -> locking -> reading -> writing -> releasing -> ready    *)
(*                                                                          *)
(* An event is its number; its hash covers its content and the hash before  *)
(* it, so that two events have the same hash exactly if they are the same.  *)
(***************************************************************************)
EXTENDS SqliteMigration, SequencesExt

CONSTANTS
    MaxEvents,    \* bound: events logged
    MaxTears,     \* bound: JSONL writes that fail half way
    Kinds,        \* which kinds of logger the processes may be given
    OldDatabases, \* databases found at the start
    Queries       \* queries asked

Event == [id: 1..MaxEvents, prev: 0..MaxEvents]
NoEvent == [id |-> 0, prev |-> 0]

\* Lines that are no JSON object: unterminated at the end of the file, or
\* joined with what was appended after it.
Torn == [id |-> 0, prev |-> 1]
Garbage == [id |-> 0, prev |-> 2]
WellFormed(line) == line.id # 0

VARIABLES
    kind,      \* [Procs -> "store" or "plain"]
    lines,     \* lines of the JSONL file
    flock,     \* the process that holds the lock of the JSONL file
    wr,        \* [Procs -> [pc, ev]]: the event being written
    issued,    \* events made so far
    acked,     \* events whose write_event returned, with the writer's kind
    tears      \* half-written lines so far

auditVars == <<alive, migrationVars, kind, lines, flock, wr, issued, acked, tears>>

ASSUME AuditAssumption ==
    /\ Rows = Event /\ MaxEvents \in Nat /\ MaxTears \in Nat
    /\ Kinds \subseteq [Procs -> {"store", "plain"}]
    /\ OldDatabases \subseteq Database
    /\ Queries \subseteq [wanted: SUBSET (1..MaxEvents), limit: Nat, most: Nat, offset: Nat, newest: BOOLEAN]

Idle == [pc |-> "ready", ev |-> NoEvent]

AuditInit ==
    /\ alive = Procs
    /\ db \in OldDatabases /\ MigrationInit
    /\ kind \in Kinds
    /\ lines = <<>> /\ flock = NoProc
    /\ wr = [p \in Procs |-> Idle]
    /\ issued = Len(db.rows) /\ acked = {} /\ tears = 0

----------------------------------------------------------------------------
In(p, where) == wr[p].pc = where
WStep(p, from, to) == In(p, from) /\ wr' = [wr EXCEPT ![p].pc = to]

\* write_event raises: the caller goes on without an audited event.
WriteRaises(p, from) == In(p, from) /\ wr' = [wr EXCEPT ![p] = Idle]

JsonlSame == UNCHANGED <<lines, flock, tears>>
LogSame == UNCHANGED <<alive, migrationVars, kind>>

TailHash(s) == IF s = <<>> THEN 0 ELSE s[Len(s)].id

\* log_decision: a new event of a process whose logger exists.
Log(p) ==
    /\ p \in alive /\ issued < MaxEvents
    /\ kind[p] = "store" => mig[p] = "open"
    /\ In(p, "ready")
    /\ issued' = issued + 1
    /\ wr' = [wr EXCEPT ![p] = [pc |-> IF kind[p] = "store" THEN "appending" ELSE "locking",
                                ev |-> [id |-> issued + 1, prev |-> 0]]]
    /\ LogSame /\ JsonlSame /\ UNCHANGED acked

\* Fault: the hash before is the one this process wrote or saw last.
AppendChainedStale(p) ==
    /\ WStep(p, "appending", "locking") /\ db.sound
    /\ db' = [db EXCEPT !.rows = Append(@, wr[p].ev)]
    /\ UNCHANGED <<alive, backups, made, marker, mlock, mig, tries, temp, damage,
                   kind, issued, acked>> /\ JsonlSame

\* Fault: a failed insert is ignored and the mirror is written all the same.
AppendChainedIgnored(p) ==
    /\ \/ /\ db.sound
          /\ LET e == [wr[p].ev EXCEPT !.prev = TailHash(db.rows)] IN
             /\ db' = [db EXCEPT !.rows = Append(@, e)]
             /\ In(p, "appending")
             /\ wr' = [wr EXCEPT ![p] = [pc |-> "locking", ev |-> e]]
       \/ WStep(p, "appending", "locking") /\ UNCHANGED db
    /\ UNCHANGED <<alive, backups, made, marker, mlock, mig, tries, temp, damage,
                   kind, issued, acked>> /\ JsonlSame

\* append_chained_event: one immediate transaction reads the last hash, binds
\* the event to it and inserts it, or is rolled back and raises.
AppendChained(p) ==
    /\ \/ /\ db.sound
          /\ LET e == [wr[p].ev EXCEPT !.prev = TailHash(db.rows)] IN
             /\ db' = [db EXCEPT !.rows = Append(@, e)]
             /\ In(p, "appending")
             /\ wr' = [wr EXCEPT ![p] = [pc |-> "locking", ev |-> e]]
       \/ WriteRaises(p, "appending") /\ UNCHANGED db
    /\ UNCHANGED <<alive, backups, made, marker, mlock, mig, tries, temp, damage,
                   kind, issued, acked>> /\ JsonlSame

\* Fault: the JSONL file is used without its lock.
LockJsonlShared(p) ==
    /\ WStep(p, "locking", IF kind[p] = "store" THEN "writing" ELSE "reading")
    /\ LogSame /\ UNCHANGED <<lines, flock, tears, issued, acked>>

\* _locked_jsonl: open for appending and flock.
LockJsonl(p) ==
    /\ flock = NoProc /\ flock' = p
    /\ WStep(p, "locking", IF kind[p] = "store" THEN "writing" ELSE "reading")
    /\ LogSame /\ UNCHANGED <<lines, tears, issued, acked>>

\* _last_hash_from_handle parses every line; one that is no JSON raises.
ReadTail(p) ==
    /\ \/ /\ \A i \in 1..Len(lines) : WellFormed(lines[i])
          /\ In(p, "reading")
          /\ wr' = [wr EXCEPT ![p] = [pc |-> "writing", ev |-> [wr[p].ev EXCEPT !.prev = TailHash(lines)]]]
          /\ UNCHANGED flock
       \/ /\ \E i \in 1..Len(lines) : ~WellFormed(lines[i])
          /\ WriteRaises(p, "reading") /\ flock' = NoProc
    /\ LogSame /\ UNCHANGED <<lines, tears, issued, acked>>

\* Text put after an unterminated line becomes part of that line.
Appended(s, line) ==
    IF s # <<>> /\ s[Len(s)] = Torn
    THEN [s EXCEPT ![Len(s)] = IF line = Torn THEN Torn ELSE Garbage]
    ELSE Append(s, line)

\* The line is written, flushed and synced.
WriteLine(p) ==
    /\ WStep(p, "writing", "releasing")
    /\ lines' = Appended(lines, wr[p].ev)
    /\ LogSame /\ UNCHANGED <<flock, tears, issued, acked>>

\* The write fails half way, or before anything is written, and raises.
WriteTears(p) ==
    /\ tears < MaxTears /\ tears' = tears + 1
    /\ WriteRaises(p, "writing") /\ flock' = NoProc
    /\ lines' \in {lines, Appended(lines, Torn)}
    /\ LogSame /\ UNCHANGED <<issued, acked>>

\* The lock is dropped and write_event returns.
ReleaseJsonl(p) ==
    /\ In(p, "releasing")
    /\ wr' = [wr EXCEPT ![p] = Idle]
    /\ flock' = IF flock = p THEN NoProc ELSE flock
    /\ acked' = acked \cup {[kind |-> kind[p], ev |-> wr[p].ev]}
    /\ LogSame /\ UNCHANGED <<lines, tears, issued>>

\* A process dies, maybe in the middle of a line.
WriterExit(p) ==
    /\ ProcessExit(p) /\ MigrationExit(p)
    /\ wr' = [wr EXCEPT ![p] = [Idle EXCEPT !.pc = "dead"]]
    /\ flock' = IF flock = p THEN NoProc ELSE flock
    /\ lines' \in {lines} \cup (IF In(p, "writing") THEN {Appended(lines, Torn)} ELSE {})
    /\ UNCHANGED <<kind, issued, acked, tears>>

Opening(p) ==
    /\ kind[p] = "store"
    /\ StartOpen(p) \/ MigrationStep(p)
    /\ UNCHANGED <<alive, kind, wr, issued, acked>> /\ JsonlSame

DiskFault == DamageDatabase /\ UNCHANGED <<alive, kind, wr, issued, acked>> /\ JsonlSame

WriterStep(p) ==
    \/ AppendChained(p) \/ LockJsonl(p) \/ ReadTail(p) \/ WriteLine(p) \/ ReleaseJsonl(p)

AuditNext ==
    \/ \E p \in Procs : Log(p) \/ WriterStep(p) \/ WriteTears(p) \/ Opening(p) \/ WriterExit(p)
    \/ DiskFault

\* Processes that are running go on: every wait is for a lock the kernel
\* releases at the latest when its holder dies.
AuditSpec ==
    /\ AuditInit /\ [][AuditNext]_auditVars
    /\ \A p \in Procs : WF_auditVars(Opening(p)) /\ WF_auditVars(WriterStep(p))

----------------------------------------------------------------------------
\* verify_integrity over a list of events.
Verifies(s) == \A i \in 1..Len(s) : s[i].prev = TailHash(SubSeq(s, 1, i - 1))

\* What is found at the start is what earlier processes left: rows need their
\* table, and nobody has tampered with them.
ASSUME OldDatabasesAssumption ==
    \A d \in OldDatabases : (d.table = "none" => d.rows = <<>>) /\ Verifies(d.rows)

\* _read_jsonl_events: lines that cannot be parsed are skipped.
ReadableLines == {n \in 1..Len(lines) : WellFormed(lines[n])}

\* AuditLogger.read_events: from the store when there is one, otherwise from
\* the file, which raises when a line cannot be parsed.
ReadsFile(k) == k = "plain"
IntegrityVerified(k) ==
    IF ReadsFile(k)
    THEN (\A i \in 1..Len(lines) : WellFormed(lines[i])) /\ Verifies(lines)
    ELSE db.sound /\ Verifies(db.rows)

\* _matches_query: the events all given filters let through.
Matches(e, q) == e.id \in q.wanted

\* _normalize_query: a larger limit is cut to the largest one.
Limit(q) == IF q.limit > q.most THEN q.most ELSE q.limit

\* The place of line n among those the filters select, from the newest or from
\* the oldest one.
Filtered(q) == {n \in ReadableLines : Matches(lines[n], q)}
Place(q, n) == Cardinality({m \in Filtered(q) : IF q.newest THEN m >= n ELSE m <= n})

\* query_audit_events: the filters select, newest first reverses, offset and
\* limit cut.  A logger is always queried through its JSONL file.
Page(q) ==
    LET last == q.offset + Limit(q)
        end  == IF last < Cardinality(Filtered(q)) THEN last ELSE Cardinality(Filtered(q))
    IN  [i \in 1..(end - q.offset) |-> lines[CHOOSE n \in Filtered(q) : Place(q, n) = q.offset + i]]

AllPlain == \A p \in Procs : kind[p] = "plain"
AllStore == \A p \in Procs : kind[p] = "store"

LogTypeOK ==
    /\ MigrationTypeOK
    /\ \A i \in 1..Len(lines) : lines[i] \in Event \cup {Torn, Garbage}
    /\ flock \in Procs \cup {NoProc}
    /\ \A a \in acked : a.ev \in Event

\* The store's chain always verifies and keeps every event that a writer was
\* told is stored, through concurrent writers, failed writes, deaths,
\* migrations and restores (append_chained_event, verify_integrity).
StoreKeepsChain ==
    /\ Verifies(db.rows)
    /\ \A a \in acked : a.kind = "store" => Contains(db.rows, a.ev)

\* The file without a last line that was cut short.
UpToTear == IF lines # <<>> /\ lines[Len(lines)] = Torn THEN Front(lines) ELSE lines

\* A file written by plain loggers alone verifies up to a line that was cut
\* short at its end, and keeps every event that was acknowledged: the lock is
\* held from reading the last hash to writing the next one.
PlainFileKeepsChain ==
    AllPlain =>
        /\ Verifies(UpToTear)
        /\ \A i \in 1..Len(lines) : WellFormed(lines[i]) \/ (i = Len(lines) /\ lines[i] = Torn)
        /\ \A a \in acked : Contains(lines, a.ev)

\* What a query shows together with a successful verification is in the
\* verified chain, although it is read from the mirror: the mirror is written
\* after the store and never holds an event the store does not hold.
VerifiedPageIsChained ==
    AllStore /\ IntegrityVerified("store") =>
        \A q \in Queries : \A i \in DOMAIN Page(q) : Contains(db.rows, Page(q)[i])

Busy(p) == mig[p] \notin {"closed", "open", "dead"} \/ wr[p].pc \notin {"ready", "dead"}

\* Every call of the log and every opening of the store ends, returning or
\* raising, whoever dies holding the migration lock or the lock of the file.
AuditCallsEnd == \A p \in Procs : Busy(p) ~> ~Busy(p)

=============================================================================
