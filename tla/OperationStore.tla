--------------------------- MODULE OperationStore ---------------------------
(***************************************************************************)
(* The durable operation store (src/rygnal/operation_store.py): the two     *)
(* SQLite tables that coordinate the mutation of trusted repositories       *)
(* across processes.                                                        *)
(*                                                                          *)
(*   operations       one row per operation key.  A key is the digest of    *)
(*                    (artifact, approval, patch, baseline, repository);    *)
(*                    an artifact fixes its approval, patch and baseline,   *)
(*                    so a key is the pair <<artifact, repository>>.        *)
(*   resource_leases  one row per repository being mutated.                 *)
(*                                                                          *)
(* Every public method runs in one BEGIN IMMEDIATE transaction, so each is  *)
(* one action here.                                                         *)
(***************************************************************************)
EXTENDS RygnalSystem, Naturals, FiniteSets

CONSTANTS
    Repos,       \* trusted repositories
    NoKey,       \* the operation key of a lease that does not exist
    MaxToken     \* bound: reservations made in one behaviour

ASSUME OperationStoreAssumption ==
    /\ NoKey \notin Artifacts \X Repos
    /\ MaxToken \in Nat

OpKeys == Artifacts \X Repos

\* repository_resource_key: the repository an operation key locks.
RepoOf(k) == k[2]

Tokens == 0 .. MaxToken

Incomplete == {"reserved", "applying"}
OperationState == {"absent", "reserved", "applying", "applied", "failed"}

\* "own": result recorded by the applying owner; "recovered": by recovery.
OperationResult == {"none", "own", "recovered"}

OperationRecord ==
    [state: OperationState, owner: Procs \cup {NoProc}, token: Tokens,
     retryable: BOOLEAN, result: OperationResult]

Lease == [key: OpKeys \cup {NoKey}, owner: Procs \cup {NoProc}, token: Tokens]

NoOperation == [state |-> "absent", owner |-> NoProc, token |-> 0,
                retryable |-> FALSE, result |-> "none"]

NoLease == [key |-> NoKey, owner |-> NoProc, token |-> 0]

VARIABLES
    operations,   \* table operations: [OpKeys -> OperationRecord]
    leases,       \* table resource_leases: [Repos -> Lease]
    lastToken     \* owner tokens (uuid4) issued so far are 1 .. lastToken

storeVars == <<operations, leases, lastToken>>
osVars == <<operations, leases, lastToken, alive>>

StoreInit ==
    /\ operations = [k \in OpKeys |-> NoOperation]
    /\ leases = [r \in Repos |-> NoLease]
    /\ lastToken = 0

OSInit == StoreInit /\ alive = Procs

----------------------------------------------------------------------------

\* The lease reserve_artifact_apply meets: retrying a failed operation first
\* deletes whatever lease is still filed under its key.
StandingLease(k) ==
    IF operations[k].state = "failed" /\ leases[RepoOf(k)].key = k
    THEN NoLease
    ELSE leases[RepoOf(k)]

\* Fault: the lease row of the repository is not looked at.
MayReserveLeased(k) ==
    \/ operations[k].state = "absent"
    \/ operations[k].state = "failed" /\ operations[k].retryable

\* Fault: an applied operation is run again instead of replayed.
MayReserveApplied(k) ==
    /\ operations[k].state \in {"absent", "failed", "applied"}
    /\ StandingLease(k) = NoLease

\* reserve_artifact_apply grants a reservation: no row, or a retryable failed
\* one, and no lease on the repository.
MayReserve(k) ==
    /\ \/ operations[k].state = "absent"
       \/ operations[k].state = "failed" /\ operations[k].retryable
    /\ StandingLease(k) = NoLease

\* reserve_artifact_apply answers with the recorded result instead.
MayReplay(k) == operations[k].state = "applied"

\* In every other case it rolls back and raises: the owner that stands in the
\* way is running (conflict) or gone (recovery is required first).

\* Fault: the previous reservation's token is handed out again.
ReusedToken == lastToken

\* owner_token = uuid4: never issued before.
NewToken == lastToken + 1

\* The acquiring branch: a retryable failed row (and any lease it left) is
\* deleted, then the operation and the lease are inserted for a new token.
Reserve(p, k) ==
    /\ lastToken < MaxToken
    /\ MayReserve(k)
    /\ lastToken' = NewToken
    /\ operations' = [operations EXCEPT ![k] =
           [state |-> "reserved", owner |-> p, token |-> NewToken,
            retryable |-> FALSE, result |-> "none"]]
    /\ leases' = [leases EXCEPT ![RepoOf(k)] =
           [key |-> k, owner |-> p, token |-> NewToken]]

\* The WHERE clause of _owned_transition: the row is in the expected state
\* and still carries the caller's owner token.  Otherwise rowcount is 0 and
\* OperationConflictError is raised.
Owns(k, t, expected) ==
    operations[k].state = expected /\ operations[k].token = t

\* Fault: the transition leaves the lease behind.
ReleaseForgotten(k, t) == leases

ReleaseOwned(k, t) ==
    [leases EXCEPT ![RepoOf(k)] =
        IF @.key = k /\ @.token = t THEN NoLease ELSE @]

MarkApplying(k, t) ==
    /\ Owns(k, t, "reserved")
    /\ operations' = [operations EXCEPT ![k].state = "applying"]
    /\ UNCHANGED <<leases, lastToken>>

MarkApplied(k, t) ==
    /\ Owns(k, t, "applying")
    /\ operations' = [operations EXCEPT ![k] =
           [@ EXCEPT !.state = "applied", !.result = "own"]]
    /\ leases' = ReleaseOwned(k, t)
    /\ UNCHANGED lastToken

\* The transaction of fail_or_preserve_ambiguous, taken only when the
\* repository was seen clean and at the baseline.
MarkFailed(k, t) ==
    /\ Owns(k, t, "applying")
    /\ operations' = [operations EXCEPT ![k] =
           [@ EXCEPT !.state = "failed", !.retryable = TRUE]]
    /\ leases' = ReleaseOwned(k, t)
    /\ UNCHANGED lastToken

\* Fault: the state name ends up in the result column.
RecoverTerminalColumns(k, next) ==
    /\ operations[k].state \in Incomplete
    /\ operations' = [operations EXCEPT ![k] =
           [@ EXCEPT !.state = next, !.result = next]]
    /\ leases' = [leases EXCEPT ![RepoOf(k)] = NoLease]
    /\ UNCHANGED lastToken

\* _recover_terminal: moves any incomplete row, whoever owns it now, and
\* deletes every lease held under its key.
RecoverTerminal(k, next) ==
    /\ operations[k].state \in Incomplete
    /\ operations' = [operations EXCEPT ![k] =
           [@ EXCEPT !.state = next,
                     !.retryable = (next = "failed"),
                     !.result = IF next = "applied" THEN "recovered" ELSE "none"]]
    /\ leases' = [r \in Repos |->
                     IF leases[r].key = k THEN NoLease ELSE leases[r]]
    /\ UNCHANGED lastToken

----------------------------------------------------------------------------
(***************************************************************************)
(* The store on its own: running processes reserve; the holder of ANY       *)
(* reservation ever issued, current or stale, may attempt its transitions   *)
(* at any time; recovery may hit any incomplete row.                        *)
(***************************************************************************)
OSNext ==
    \/ \E p \in alive, k \in OpKeys : Reserve(p, k) /\ UNCHANGED alive
    \/ \E k \in OpKeys, t \in 1 .. lastToken :
           /\ MarkApplying(k, t) \/ MarkApplied(k, t) \/ MarkFailed(k, t)
           /\ UNCHANGED alive
    \/ \E k \in OpKeys, next \in {"applied", "failed"} :
           RecoverTerminal(k, next) /\ UNCHANGED alive
    \/ \E p \in alive : ProcessExit(p) /\ UNCHANGED storeVars

OSSpec == OSInit /\ [][OSNext]_osVars

----------------------------------------------------------------------------

\* Rows of both tables are well formed, as the columns of
\* sqlite_migrations.py declare them.
OSTypeOK ==
    /\ operations \in [OpKeys -> OperationRecord]
    /\ leases \in [Repos -> Lease]
    /\ lastToken \in Tokens
    /\ alive \subseteq Procs

\* A lease is never left behind and never lost: the repository named by an
\* operation is leased exactly while that operation is reserved or applying,
\* under the same owner token.  reserve_artifact_apply, _owned_transition
\* and _recover_terminal each write the two tables separately.
LeaseMatchesOperation ==
    /\ \A r \in Repos : leases[r] # NoLease =>
           /\ leases[r].key \in OpKeys
           /\ RepoOf(leases[r].key) = r
           /\ operations[leases[r].key].state \in Incomplete
           /\ operations[leases[r].key].token = leases[r].token
    /\ \A k \in OpKeys : operations[k].state \in Incomplete =>
           leases[RepoOf(k)].key = k

\* At most one operation per trusted repository is in progress, whatever
\* artifacts are being applied to it.
OneOperationPerRepo ==
    \A j, k \in OpKeys :
        /\ operations[j].state \in Incomplete
        /\ operations[k].state \in Incomplete
        /\ RepoOf(j) = RepoOf(k)
        => j = k

\* An owner token names at most one row, so a stale reservation can never
\* move another operation's row.
TokensIdentifyRows ==
    \A j, k \in OpKeys :
        /\ operations[j].state # "absent"
        /\ operations[j].token = operations[k].token
        => j = k

\* A recorded success is final: no retry, no owner and no recovery pass
\* rewrites an applied row (a retry of it is answered by replay).
AppliedIsFinal ==
    [][\A k \in OpKeys : operations[k].state = "applied" =>
           operations'[k] = operations[k]]_osVars

=============================================================================
