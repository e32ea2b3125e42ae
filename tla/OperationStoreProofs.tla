------------------------ MODULE OperationStoreProofs ------------------------
(***************************************************************************)
(* Proofs about OperationStore, for any number of artifacts, repositories,  *)
(* processes and reservations.                                              *)
(***************************************************************************)
EXTENDS OperationStore, TLAPS

(***************************************************************************)
(* The inductive invariant.  LeaseMatchesOperation and TokensIdentifyRows   *)
(* are not inductive without knowing that every token on a row or a lease   *)
(* was issued (a new token is then fresh) and that an existing row carries  *)
(* a real token (so that the absent rows, all with token 0, are told apart).*)
(***************************************************************************)
TokensIssued ==
    /\ \A k \in OpKeys : operations[k].token <= lastToken
    /\ \A k \in OpKeys : operations[k].state # "absent" => operations[k].token # 0

StoreInv ==
    /\ OSTypeOK
    /\ TokensIssued
    /\ LeaseMatchesOperation
    /\ TokensIdentifyRows

LEMMA OpKeyRepo == ASSUME NEW k \in OpKeys PROVE RepoOf(k) \in Repos
  BY DEF OpKeys, RepoOf

LEMMA NoKeyIsNotAKey == NoKey \notin OpKeys
  BY OperationStoreAssumption DEF OpKeys

\* The tables start empty and well typed.
LEMMA StoreInvInit == OSInit => StoreInv
  <1> SUFFICES ASSUME OSInit PROVE StoreInv
    OBVIOUS
  <1>1. OSTypeOK
    BY OperationStoreAssumption
    DEF OSInit, StoreInit, OSTypeOK, NoOperation, NoLease, OperationRecord, Lease,
        OperationState, OperationResult, Tokens
  <1>2. TokensIssued
    BY DEF OSInit, StoreInit, TokensIssued, NoOperation
  <1>3. LeaseMatchesOperation
    BY DEF OSInit, StoreInit, LeaseMatchesOperation, NoOperation, NoLease, Incomplete
  <1>4. TokensIdentifyRows
    BY DEF OSInit, StoreInit, TokensIdentifyRows, NoOperation
  <1> QED
    BY <1>1, <1>2, <1>3, <1>4 DEF StoreInv

\* A reservation is only granted on a repository with no standing lease.
LEMMA AcquiredMeansFree ==
    ASSUME StoreInv, NEW k \in OpKeys, MayReserve(k)
    PROVE  /\ operations[k].state \notin Incomplete
           /\ leases[RepoOf(k)] = NoLease
  <1>1. RepoOf(k) \in Repos
    BY OpKeyRepo
  <1>2. operations[k].state \notin Incomplete
    BY DEF MayReserve, Incomplete
  <1>3. StandingLease(k) = NoLease
    BY DEF MayReserve, Incomplete
  <1>4. leases[RepoOf(k)] # NoLease => leases[RepoOf(k)].key # k
    BY <1>1, <1>2 DEF StoreInv, LeaseMatchesOperation
  <1> QED
    BY <1>2, <1>3, <1>4 DEF StandingLease

LEMMA ReservePreserves ==
    ASSUME StoreInv, NEW p \in alive, NEW k \in OpKeys, Reserve(p, k), UNCHANGED alive
    PROVE  StoreInv'
  <1>1. RepoOf(k) \in Repos
    BY OpKeyRepo
  <1>2. /\ operations[k].state \notin Incomplete
        /\ leases[RepoOf(k)] = NoLease
    BY AcquiredMeansFree DEF NewToken, Reserve
  <1>3. OSTypeOK'
    BY <1>1, OperationStoreAssumption
    DEF StoreInv, OSTypeOK, NewToken, Reserve, OperationRecord, Lease, OperationState,
        OperationResult, Tokens
  <1>4. TokensIssued'
    BY <1>3, OperationStoreAssumption DEF StoreInv, OSTypeOK, TokensIssued, NewToken, Reserve, Tokens, OperationRecord
  <1>5. TokensIdentifyRows'
    BY OperationStoreAssumption
    DEF StoreInv, OSTypeOK, TokensIssued, TokensIdentifyRows, NewToken, Reserve, Tokens, OperationRecord
  <1>6. LeaseMatchesOperation'
    <2>1. ASSUME NEW r \in Repos, leases'[r] # NoLease
          PROVE  /\ leases'[r].key \in OpKeys
                 /\ RepoOf(leases'[r].key) = r
                 /\ operations'[leases'[r].key].state \in Incomplete
                 /\ operations'[leases'[r].key].token = leases'[r].token
      <3>1. CASE r = RepoOf(k)
        BY <1>1, <3>1 DEF StoreInv, OSTypeOK, NewToken, Reserve, Incomplete
      <3>2. CASE r # RepoOf(k)
        <4>1. leases'[r] = leases[r]
          BY <1>1, <3>2 DEF StoreInv, OSTypeOK, NewToken, Reserve
        <4>2. leases[r].key # k
          BY <2>1, <3>2, <4>1 DEF StoreInv, LeaseMatchesOperation
        <4> QED
          BY <2>1, <4>1, <4>2 DEF StoreInv, OSTypeOK, LeaseMatchesOperation, NewToken, Reserve
      <3> QED
        BY <3>1, <3>2
    <2>2. ASSUME NEW j \in OpKeys, operations'[j].state \in Incomplete
          PROVE  leases'[RepoOf(j)].key = j
      <3>1. RepoOf(j) \in Repos
        BY OpKeyRepo
      <3>2. CASE j = k
        BY <1>1, <3>2 DEF StoreInv, OSTypeOK, NewToken, Reserve
      <3>3. CASE j # k
        <4>1. operations'[j] = operations[j]
          BY <3>3 DEF StoreInv, OSTypeOK, NewToken, Reserve
        <4>2. leases[RepoOf(j)].key = j
          BY <2>2, <4>1 DEF StoreInv, LeaseMatchesOperation
        <4>3. RepoOf(j) # RepoOf(k)
          BY <1>2, <4>2, NoKeyIsNotAKey DEF NoLease
        <4> QED
          BY <3>1, <4>2, <4>3 DEF StoreInv, OSTypeOK, NewToken, Reserve
      <3> QED
        BY <3>2, <3>3
    <2> QED
      BY <2>1, <2>2 DEF LeaseMatchesOperation
  <1> QED
    BY <1>3, <1>4, <1>5, <1>6 DEF StoreInv

\* The lease of an operation in progress is the one row filed under its key.
LEMMA LeaseOfIncomplete ==
    ASSUME StoreInv, NEW k \in OpKeys, operations[k].state \in Incomplete
    PROVE  /\ leases[RepoOf(k)].key = k
           /\ leases[RepoOf(k)].token = operations[k].token
           /\ \A r \in Repos : leases[r].key = k => r = RepoOf(k)
  <1>1. RepoOf(k) \in Repos
    BY OpKeyRepo
  <1>2. leases[RepoOf(k)].key = k
    BY DEF StoreInv, LeaseMatchesOperation
  <1>3. \A r \in Repos : leases[r].key = k => leases[r] # NoLease
    BY NoKeyIsNotAKey DEF NoLease
  <1> QED
    BY <1>1, <1>2, <1>3 DEF StoreInv, LeaseMatchesOperation

\* What every way of ending an operation has in common: its row becomes
\* terminal under the same token and its repository's lease goes.
LEMMA EndPreserves ==
    ASSUME StoreInv, NEW k \in OpKeys, operations[k].state \in Incomplete,
           OSTypeOK',
           operations'[k].state \in {"applied", "failed"},
           operations'[k].token = operations[k].token,
           \A j \in OpKeys : j # k => operations'[j] = operations[j],
           leases'[RepoOf(k)] = NoLease,
           \A r \in Repos : r # RepoOf(k) => leases'[r] = leases[r],
           UNCHANGED lastToken
    PROVE  StoreInv'
  <1>1. RepoOf(k) \in Repos
    BY OpKeyRepo
  <1>2. operations[k].state # "absent" /\ operations'[k].state \notin Incomplete
    BY DEF Incomplete
  <1>3. TokensIssued'
    BY <1>2 DEF StoreInv, TokensIssued
  <1>4. TokensIdentifyRows'
    <2> SUFFICES ASSUME NEW i \in OpKeys, NEW j \in OpKeys,
                        operations'[i].state # "absent",
                        operations'[i].token = operations'[j].token
                 PROVE  i = j
      BY DEF TokensIdentifyRows
    <2>1. operations[i].state # "absent"
      BY <1>2
    <2>2. operations[i].token = operations[j].token
      OBVIOUS
    <2> QED
      BY <2>1, <2>2 DEF StoreInv, TokensIdentifyRows
  <1>5. LeaseMatchesOperation'
    <2>1. ASSUME NEW r \in Repos, leases'[r] # NoLease
          PROVE  /\ leases'[r].key \in OpKeys
                 /\ RepoOf(leases'[r].key) = r
                 /\ operations'[leases'[r].key].state \in Incomplete
                 /\ operations'[leases'[r].key].token = leases'[r].token
      <3>1. r # RepoOf(k) /\ leases'[r] = leases[r]
        BY <2>1
      <3>2. leases[r].key \in OpKeys /\ RepoOf(leases[r].key) = r
        BY <2>1, <3>1 DEF StoreInv, LeaseMatchesOperation
      <3>3. leases[r].key # k
        BY <3>1, <3>2
      <3> QED
        BY <2>1, <3>1, <3>2, <3>3 DEF StoreInv, LeaseMatchesOperation
    <2>2. ASSUME NEW j \in OpKeys, operations'[j].state \in Incomplete
          PROVE  leases'[RepoOf(j)].key = j
      <3>1. j # k /\ operations'[j] = operations[j]
        BY <1>2, <2>2
      <3>2. leases[RepoOf(j)].key = j
        BY <2>2, <3>1 DEF StoreInv, LeaseMatchesOperation
      <3>3. leases[RepoOf(k)].key = k
        BY LeaseOfIncomplete
      <3>4. RepoOf(j) # RepoOf(k)
        BY <3>1, <3>2, <3>3
      <3> QED
        BY <3>2, <3>4, OpKeyRepo
    <2> QED
      BY <2>1, <2>2 DEF LeaseMatchesOperation
  <1> QED
    BY <1>3, <1>4, <1>5 DEF StoreInv

LEMMA MarkApplyingPreserves ==
    ASSUME StoreInv, NEW k \in OpKeys, NEW t, MarkApplying(k, t), UNCHANGED alive
    PROVE  StoreInv'
  <1>1. /\ operations[k].state = "reserved"
        /\ operations' = [operations EXCEPT ![k].state = "applying"]
    BY DEF MarkApplying, Owns
  <1>2. leases' = leases /\ lastToken' = lastToken
    BY DEF MarkApplying
  <1>3. OSTypeOK'
    BY <1>1, <1>2 DEF StoreInv, OSTypeOK, OperationRecord, OperationState
  <1>4. /\ \A j \in OpKeys : operations'[j].token = operations[j].token
        /\ \A j \in OpKeys : j # k => operations'[j] = operations[j]
        /\ operations'[k].state = "applying"
    BY <1>1 DEF StoreInv, OSTypeOK, OperationRecord
  <1>5. \A j \in OpKeys :
            /\ operations'[j].state \in Incomplete <=> operations[j].state \in Incomplete
            /\ operations'[j].state = "absent" <=> operations[j].state = "absent"
    BY <1>1, <1>4 DEF Incomplete
  <1>6. TokensIssued'
    BY <1>2, <1>4, <1>5 DEF StoreInv, TokensIssued
  <1>7. TokensIdentifyRows'
    BY <1>4, <1>5 DEF StoreInv, TokensIdentifyRows
  <1>8. LeaseMatchesOperation'
    BY <1>2, <1>4, <1>5 DEF StoreInv, LeaseMatchesOperation
  <1> QED
    BY <1>3, <1>6, <1>7, <1>8 DEF StoreInv

\* _owned_transition finds the lease under the same key and token.
LEMMA ReleaseOwnedFrees ==
    ASSUME StoreInv, NEW k \in OpKeys, NEW t, Owns(k, t, "applying"),
           leases' = ReleaseOwned(k, t)
    PROVE  /\ leases'[RepoOf(k)] = NoLease
           /\ \A r \in Repos : r # RepoOf(k) => leases'[r] = leases[r]
           /\ leases' \in [Repos -> Lease]
  <1>1. RepoOf(k) \in Repos
    BY OpKeyRepo
  <1>2. operations[k].state \in Incomplete /\ operations[k].token = t
    BY DEF Owns, Incomplete
  <1>3. leases[RepoOf(k)].key = k /\ leases[RepoOf(k)].token = t
    BY <1>2, LeaseOfIncomplete
  <1>4. NoLease \in Lease
    BY OperationStoreAssumption DEF NoLease, Lease, Tokens
  <1> QED
    BY <1>1, <1>3, <1>4 DEF ReleaseOwned, StoreInv, OSTypeOK

LEMMA MarkAppliedPreserves ==
    ASSUME StoreInv, NEW k \in OpKeys, NEW t, MarkApplied(k, t), UNCHANGED alive
    PROVE  StoreInv'
  <1>1. operations[k].state \in Incomplete
    BY DEF MarkApplied, Owns, Incomplete
  <1>2. /\ leases'[RepoOf(k)] = NoLease
        /\ \A r \in Repos : r # RepoOf(k) => leases'[r] = leases[r]
        /\ leases' \in [Repos -> Lease]
    BY ReleaseOwnedFrees DEF MarkApplied
  <1>3. OSTypeOK'
    <2> DEFINE row == [operations[k] EXCEPT !.state = "applied", !.result = "own"]
    <2>1. operations[k] \in OperationRecord
      BY DEF StoreInv, OSTypeOK
    <2>2. row \in OperationRecord
      BY <2>1 DEF OperationRecord, OperationState, OperationResult
    <2>3. operations' = [operations EXCEPT ![k] = row]
      BY DEF MarkApplied
    <2> HIDE DEF row
    <2> QED
      BY <1>2, <2>2, <2>3 DEF StoreInv, OSTypeOK, MarkApplied
  <1>4. /\ operations'[k].state = "applied"
        /\ operations'[k].token = operations[k].token
        /\ \A j \in OpKeys : j # k => operations'[j] = operations[j]
    BY DEF StoreInv, OSTypeOK, MarkApplied, OperationRecord
  <1>5. lastToken' = lastToken
    BY DEF MarkApplied
  <1> QED
    BY <1>1, <1>2, <1>3, <1>4, <1>5, EndPreserves

LEMMA MarkFailedPreserves ==
    ASSUME StoreInv, NEW k \in OpKeys, NEW t, MarkFailed(k, t), UNCHANGED alive
    PROVE  StoreInv'
  <1>1. operations[k].state \in Incomplete
    BY DEF MarkFailed, Owns, Incomplete
  <1>2. /\ leases'[RepoOf(k)] = NoLease
        /\ \A r \in Repos : r # RepoOf(k) => leases'[r] = leases[r]
        /\ leases' \in [Repos -> Lease]
    BY ReleaseOwnedFrees DEF MarkFailed
  <1>3. OSTypeOK'
    <2> DEFINE row == [operations[k] EXCEPT !.state = "failed", !.retryable = TRUE]
    <2>1. operations[k] \in OperationRecord
      BY DEF StoreInv, OSTypeOK
    <2>2. row \in OperationRecord
      BY <2>1 DEF OperationRecord, OperationState
    <2>3. operations' = [operations EXCEPT ![k] = row]
      BY DEF MarkFailed
    <2> HIDE DEF row
    <2> QED
      BY <1>2, <2>2, <2>3 DEF StoreInv, OSTypeOK, MarkFailed
  <1>4. /\ operations'[k].state = "failed"
        /\ operations'[k].token = operations[k].token
        /\ \A j \in OpKeys : j # k => operations'[j] = operations[j]
    BY DEF StoreInv, OSTypeOK, MarkFailed, OperationRecord
  <1>5. lastToken' = lastToken
    BY DEF MarkFailed
  <1> QED
    BY <1>1, <1>2, <1>3, <1>4, <1>5, EndPreserves

LEMMA RecoverTerminalPreserves ==
    ASSUME StoreInv, NEW k \in OpKeys, NEW next \in {"applied", "failed"},
           RecoverTerminal(k, next), UNCHANGED alive
    PROVE  StoreInv'
  <1>1. operations[k].state \in Incomplete /\ RepoOf(k) \in Repos
    BY OpKeyRepo DEF RecoverTerminal
  <1>2. NoLease \in Lease
    BY OperationStoreAssumption DEF NoLease, Lease, Tokens
  <1>3. /\ leases'[RepoOf(k)] = NoLease
        /\ \A r \in Repos : r # RepoOf(k) => leases'[r] = leases[r]
        /\ leases' \in [Repos -> Lease]
    BY <1>1, <1>2, LeaseOfIncomplete DEF RecoverTerminal, StoreInv, OSTypeOK
  <1>4. OSTypeOK'
    <2> DEFINE row == [operations[k] EXCEPT
                          !.state = next,
                          !.retryable = (next = "failed"),
                          !.result = IF next = "applied" THEN "recovered" ELSE "none"]
    <2>1. (next = "failed") \in BOOLEAN
      OBVIOUS
    <2>2. operations[k] \in OperationRecord
      BY DEF StoreInv, OSTypeOK
    <2>3. row \in OperationRecord
      BY <2>1, <2>2 DEF OperationRecord, OperationState, OperationResult
    <2>4. operations' = [operations EXCEPT ![k] = row]
      BY DEF RecoverTerminal
    <2> HIDE DEF row
    <2> QED
      BY <1>3, <2>3, <2>4 DEF StoreInv, OSTypeOK, RecoverTerminal
  <1>5. /\ operations'[k].state \in {"applied", "failed"}
        /\ operations'[k].token = operations[k].token
        /\ \A j \in OpKeys : j # k => operations'[j] = operations[j]
    BY DEF StoreInv, OSTypeOK, RecoverTerminal, OperationRecord
  <1>6. lastToken' = lastToken
    BY DEF RecoverTerminal
  <1> QED
    BY <1>1, <1>3, <1>4, <1>5, <1>6, EndPreserves

\* A step that touches neither table preserves the invariant: a process exit.
LEMMA TablesUntouchedPreserves ==
    ASSUME StoreInv, UNCHANGED storeVars, alive' \subseteq Procs
    PROVE  StoreInv'
  <1>1. UNCHANGED <<operations, leases, lastToken>>
    BY DEF storeVars
  <1> QED
    BY <1>1 DEF StoreInv, OSTypeOK, TokensIssued, LeaseMatchesOperation, TokensIdentifyRows

LEMMA StoreInvNext == StoreInv /\ [OSNext]_osVars => StoreInv'
  <1> SUFFICES ASSUME StoreInv, [OSNext]_osVars PROVE StoreInv'
    OBVIOUS
  <1>1. ASSUME NEW p \in alive, NEW k \in OpKeys, Reserve(p, k), UNCHANGED alive
        PROVE  StoreInv'
    BY <1>1, ReservePreserves
  <1>2. ASSUME NEW k \in OpKeys, NEW t \in 1 .. lastToken, MarkApplying(k, t), UNCHANGED alive
        PROVE  StoreInv'
    BY <1>2, MarkApplyingPreserves
  <1>3. ASSUME NEW k \in OpKeys, NEW t \in 1 .. lastToken, MarkApplied(k, t), UNCHANGED alive
        PROVE  StoreInv'
    BY <1>3, MarkAppliedPreserves
  <1>4. ASSUME NEW k \in OpKeys, NEW t \in 1 .. lastToken, MarkFailed(k, t), UNCHANGED alive
        PROVE  StoreInv'
    BY <1>4, MarkFailedPreserves
  <1>5. ASSUME NEW k \in OpKeys, NEW next \in {"applied", "failed"},
               RecoverTerminal(k, next), UNCHANGED alive
        PROVE  StoreInv'
    BY <1>5, RecoverTerminalPreserves
  <1>6. ASSUME NEW p \in alive, ProcessExit(p), UNCHANGED storeVars
        PROVE  StoreInv'
    <2>1. alive' \subseteq Procs
      BY <1>6 DEF ProcessExit, StoreInv, OSTypeOK
    <2> QED
      BY <1>6, <2>1, TablesUntouchedPreserves
  <1>7. CASE UNCHANGED osVars
    <2>1. UNCHANGED storeVars /\ alive' = alive
      BY <1>7 DEF osVars, storeVars
    <2>2. alive' \subseteq Procs
      BY <2>1 DEF StoreInv, OSTypeOK
    <2> QED
      BY <2>1, <2>2, TablesUntouchedPreserves
  <1> QED
    BY <1>1, <1>2, <1>3, <1>4, <1>5, <1>6, <1>7 DEF OSNext

\* The two tables always agree and tokens stay unique: the strengthening that
\* the theorems below read off.
THEOREM StoreInvariant == OSSpec => []StoreInv
  BY StoreInvInit, StoreInvNext, PTL DEF OSSpec

\* Every row the transactions of operation_store.py write is well formed.
THEOREM StoreTypeCorrect == OSSpec => []OSTypeOK
  <1>1. StoreInv => OSTypeOK
    BY DEF StoreInv
  <1> QED
    BY <1>1, StoreInvariant, PTL

\* A repository is leased exactly while an operation on it is in progress,
\* whatever stale owners and recovery passes attempt.
THEOREM LeasesMatch == OSSpec => []LeaseMatchesOperation
  <1>1. StoreInv => LeaseMatchesOperation
    BY DEF StoreInv
  <1> QED
    BY <1>1, StoreInvariant, PTL

\* Owner tokens stay unique, so _owned_transition of a stale reservation
\* matches no row but its own.
THEOREM TokensUnique == OSSpec => []TokensIdentifyRows
  <1>1. StoreInv => TokensIdentifyRows
    BY DEF StoreInv
  <1> QED
    BY <1>1, StoreInvariant, PTL

\* Mutual exclusion of operations on a repository: two operations in progress
\* on one repository would both be named by its one lease row.
THEOREM RepoMutualExclusion == OSSpec => []OneOperationPerRepo
  <1>1. StoreInv => OneOperationPerRepo
    BY DEF StoreInv, LeaseMatchesOperation, OneOperationPerRepo
  <1> QED
    BY <1>1, StoreInvariant, PTL

\* No transaction rewrites a recorded success.
THEOREM AppliedStays == OSSpec => AppliedIsFinal
  <1> DEFINE Keeps == \A k \in OpKeys : operations[k].state = "applied" =>
                         operations'[k] = operations[k]
  <1>1. StoreInv /\ [OSNext]_osVars => [Keeps]_osVars
    <2> SUFFICES ASSUME StoreInv, OSNext, NEW k \in OpKeys,
                        operations[k].state = "applied"
                 PROVE  operations'[k] = operations[k]
      OBVIOUS
    <2>1. ASSUME NEW p \in alive, NEW j \in OpKeys, Reserve(p, j)
          PROVE  operations'[k] = operations[k]
      BY <2>1 DEF NewToken, Reserve, MayReserve, StoreInv, OSTypeOK
    <2>2. ASSUME NEW j \in OpKeys, NEW t,
                 MarkApplying(j, t) \/ MarkApplied(j, t) \/ MarkFailed(j, t)
          PROVE  operations'[k] = operations[k]
      BY <2>2 DEF MarkApplying, MarkApplied, MarkFailed, Owns, StoreInv, OSTypeOK
    <2>3. ASSUME NEW j \in OpKeys, NEW next, RecoverTerminal(j, next)
          PROVE  operations'[k] = operations[k]
      BY <2>3 DEF RecoverTerminal, Incomplete, StoreInv, OSTypeOK
    <2>4. ASSUME UNCHANGED storeVars
          PROVE  operations'[k] = operations[k]
      BY <2>4 DEF storeVars
    <2> QED
      BY <2>1, <2>2, <2>3, <2>4 DEF OSNext
  <1> QED
    BY <1>1, StoreInvariant, PTL DEF OSSpec, AppliedIsFinal

=============================================================================
