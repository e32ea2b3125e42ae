----------------------------- MODULE MCAuditLog ------------------------------
(* Two processes over databases of every origin.                            *)
EXTENDS AuditLog, TLC

OldEvent == [id |-> 1, prev |-> 0]
Found(t, r, v) == [sound |-> TRUE, table |-> t, record |-> r, version |-> v, rows |-> IF t = "none" THEN <<>> ELSE <<OldEvent>>]
Recorded(c, v, k) == [component |-> c, version |-> v, checksum |-> k]

MCOldDatabases ==
    {Found(t, NoRecord, 0) : t \in {"none", "legacy", "broken"}}
    \cup {Found("current", ReadyRecord, Target),
          Found("current", Recorded("ours", Target + 1, "other"), Target + 1),
          Found("current", Recorded("other", Target, "other"), Target),
          Found("current", Recorded("ours", Target, "other"), Target)}
MCRows == [id: 1..MaxEvents, prev: 0..MaxEvents]
\* Two loggers of the same kind, or one of each over the same JSONL file.
CONSTANTS p1, p2
MCKinds == {[p \in Procs |-> k] : k \in {"store", "plain"}}
           \cup {[p \in Procs |-> IF p = p1 THEN "store" ELSE "plain"]}
MCQueries == [wanted: {{2}, 1..MaxEvents}, limit: {1, 3}, most: {2}, offset: {0, 1}, newest: BOOLEAN]
=============================================================================
