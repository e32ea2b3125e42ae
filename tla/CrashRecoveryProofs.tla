------------------------ MODULE CrashRecoveryProofs -------------------------
(***************************************************************************)
(* Proofs about CrashRecovery: approved applies and recovery passes beside  *)
(* each other, for any number of artifacts, repositories, workers,          *)
(* processes and reservations.                                              *)
(***************************************************************************)
EXTENDS CrashRecovery, OperationStoreProofs

Active(w) == pc[w] \notin {"idle", "dead"}

\* A call that is under way has a job and the token of a reservation.
WorkersTyped ==
    /\ pc \in [Workers -> PC]
    /\ job \in [Workers -> OpKeys \cup {NoKey}]
    /\ token \in [Workers -> Tokens]
    /\ \A w \in Workers : Active(w) => job[w] \in OpKeys /\ token[w] \in 1 .. lastToken

WorldTyped ==
    /\ ArtifactTypeOK
    /\ used \subseteq Procs \X Artifacts
    /\ repo \in [Repos -> RepoState]
    /\ evidence \subseteq OpKeys
    /\ history \subseteq OpKeys
    /\ edits \in 0 .. MaxEdits

OnArtifacts == {"locks", "unlink", "artifacts", "lock", "name", "consume", "unlock"}
OnOperations == {"ops", "inspect", "settle_applied", "settle_failed"}
AtArtifact == {"unlink", "lock", "name", "consume", "unlock"}
AtOperation == {"inspect", "settle_applied", "settle_failed"}

Lists == (SUBSET ListedOp) \cup (SUBSET Artifacts)
Items == {{}} \cup {{x} : x \in ListedOp \cup Artifacts}

PassState == [pc: RecPC, blocked: BOOLEAN, todo: Lists, item: Items]

\* What a pass has listed, and what it looks at, is of the kind its stage is
\* about.
PassTyped ==
    /\ rec \in [Reconcilers -> PassState]
    /\ \A q \in Reconcilers :
           /\ rec[q].pc \in OnArtifacts => rec[q].todo \subseteq Artifacts
           /\ rec[q].pc \in OnOperations => rec[q].todo \subseteq ListedOp
           /\ rec[q].pc \in AtArtifact => \E a \in Artifacts : rec[q].item = {a}
           /\ rec[q].pc \in AtOperation => \E op \in ListedOp : rec[q].item = {op}

\* Operations in progress belong to a process.
OwnersKnown == \A k \in OpKeys : operations[k].state \in Incomplete => operations[k].owner \in Procs

Typed == StoreInv /\ OwnersKnown /\ WorkersTyped /\ WorldTyped /\ PassTyped

LEMMA ItemOf == ASSUME NEW q, NEW x, rec[q].item = {x} PROVE Item(q) = x
  BY DEF Item

LEMMA JobParts ==
    ASSUME WorkersTyped, NEW w \in Workers, Active(w)
    PROVE  /\ job[w] \in OpKeys /\ token[w] \in 1 .. lastToken
           /\ ArtifactOf(w) \in Artifacts /\ TargetOf(w) \in Repos
           /\ job[w] = <<ArtifactOf(w), TargetOf(w)>>
  BY DEF WorkersTyped, ArtifactOf, TargetOf, OpKeys

LEMMA TypedInit == RecoveryInit => Typed
  <1> SUFFICES ASSUME RecoveryInit PROVE Typed
    OBVIOUS
  <1>1. StoreInv
    BY StoreInvInit DEF RecoveryInit, PipelineInit
  <1>2. OwnersKnown
    BY DEF RecoveryInit, PipelineInit, OSInit, StoreInit, OwnersKnown, NoOperation, Incomplete
  <1>3. WorkersTyped
    BY OperationStoreAssumption
    DEF RecoveryInit, PipelineInit, WorkersTyped, Active, PC, Tokens
  <1>4. WorldTyped
    BY ArtifactLocksAssumption, PipelineAssumption
    DEF RecoveryInit, PipelineInit, WorldTyped, ArtifactTypeOK, LocksTypeOK, LockFile, NoLock,
        ArtifactState, RepoState
  <1>5. PassTyped
    BY DEF RecoveryInit, PassTyped, PassState, Lists, Items, RecPC, NothingYet, OnArtifacts, OnOperations,
           AtArtifact, AtOperation
  <1> QED
    BY <1>1, <1>2, <1>3, <1>4, <1>5 DEF Typed

-----------------------------------------------------------------------------
(***************************************************************************)
(* Workers and passes use the operation store only through its              *)
(* transactions, with keys and tokens they were given.                      *)
(***************************************************************************)
LEMMA StoreSimulated ==
    ASSUME Typed, [RecoveryNext]_crVars
    PROVE  [OSNext]_osVars
  <1> USE DEF Typed
  <1>1. ASSUME NEW w \in Workers, NEW k \in OpKeys, ReserveJob(w, k)
        PROVE  OSNext
    BY <1>1 DEF ReserveJob, OSNext
  <1>2. ASSUME NEW w \in Workers, WorkerStep(w)
        PROVE  [OSNext]_osVars
    <2>1. CASE BeginApplying(w)
      <3>1. CASE UNCHANGED storeVars
        BY <2>1, <3>1 DEF BeginApplying, osVars, storeVars
      <3>2. CASE pc[w] = "reserved" /\ MarkApplying(job[w], token[w])
        <4>1. job[w] \in OpKeys /\ token[w] \in 1 .. lastToken
          BY <3>2, JobParts DEF Active
        <4> QED
          BY <2>1, <3>2, <4>1 DEF BeginApplying, OSNext
      <3> QED
        BY <2>1, <3>1, <3>2 DEF BeginApplying, Goto
    <2>2. CASE Finish(w)
      <3>1. CASE UNCHANGED storeVars
        BY <2>2, <3>1 DEF Finish, osVars, storeVars
      <3>2. CASE pc[w] = "finishing" /\ MarkApplied(job[w], token[w])
        <4>1. job[w] \in OpKeys /\ token[w] \in 1 .. lastToken
          BY <3>2, JobParts DEF Active
        <4> QED
          BY <2>2, <3>2, <4>1 DEF Finish, OSNext
      <3> QED
        BY <2>2, <3>1, <3>2 DEF Finish, Return
    <2>3. CASE ReleaseFailed(w)
      <3>1. CASE UNCHANGED storeVars
        BY <2>3, <3>1 DEF ReleaseFailed, osVars, storeVars
      <3>2. CASE pc[w] = "releasing" /\ MarkFailed(job[w], token[w])
        <4>1. job[w] \in OpKeys /\ token[w] \in 1 .. lastToken
          BY <3>2, JobParts DEF Active
        <4> QED
          BY <2>3, <3>2, <4>1 DEF ReleaseFailed, OSNext
      <3> QED
        BY <2>3, <3>1, <3>2 DEF ReleaseFailed, Return
    <2>4. CASE ~BeginApplying(w) /\ ~Finish(w) /\ ~ReleaseFailed(w)
      <3>1. UNCHANGED storeVars /\ UNCHANGED alive
        BY <1>2, <2>4 DEF WorkerStep, TakeLock, NameLock, LoadArtifact, CheckRepo, CheckUse, GitRefuses, GitStart, GitTorn, GitDone, WriteEvidence, DurableWriteFails, MarkConsumed, LeaveLock, InspectFailure
      <3> QED
        BY <3>1 DEF osVars, storeVars
    <2> QED
      BY <2>1, <2>2, <2>3, <2>4
  <1>3. ASSUME NEW w \in Workers, OrphanGit(w)
        PROVE  UNCHANGED osVars
    BY <1>3 DEF OrphanGit, osVars, storeVars
  <1>4. ASSUME NEW r \in Repos, DevelopRepo(r)
        PROVE  UNCHANGED osVars
    BY <1>4 DEF DevelopRepo, osVars, storeVars
  <1>5. ASSUME NEW a \in Artifacts, Expire(a)
        PROVE  UNCHANGED osVars
    BY <1>5 DEF Expire, osVars, storeVars
  <1>6. ASSUME NEW q \in Reconcilers, SettleOperation(q)
        PROVE  [OSNext]_osVars
    <2>1. CASE UNCHANGED storeVars
      BY <1>6, <2>1 DEF SettleOperation, osVars, storeVars
    <2>2. CASE ~ UNCHANGED storeVars
      <3>1. PICK op \in ListedOp : rec[q].item = {op}
        BY <1>6 DEF SettleOperation, At, PassTyped, AtOperation
      <3>2. Item(q) = op /\ op.key \in OpKeys
        BY <3>1, ItemOf DEF ListedOp
      <3>3. \E next \in {"applied", "failed"} : RecoverTerminal(op.key, next)
        BY <1>6, <2>2, <3>2 DEF SettleOperation
      <3> QED
        BY <1>6, <3>2, <3>3 DEF SettleOperation, OSNext
    <2> QED
      BY <2>1, <2>2
  <1>7. ASSUME NEW q \in Reconcilers, StartPass(q) \/ PassStep(q), ~SettleOperation(q)
        PROVE  UNCHANGED osVars
    <2>1. PipelineIdle
      BY <1>7 DEF PassStep, StartPass, ListLocks, ReadLock, UnlinkLock, LeaveLocks, ListOperations,
         JudgeOperation, InspectOperation, LeaveOperations, JudgeArtifact, LockForConsume,
         NameConsumeLock, ConsumeArtifact, UnlockConsumed, EndPass, ArtifactsIdle
    <2> QED
      BY <2>1 DEF PipelineIdle, osVars, storeVars
  <1>8. ASSUME NEW p \in Procs, ExitAll(p)
        PROVE  OSNext
    BY <1>8 DEF ExitAll, ExitWorkers, ProcessExit, OSNext
  <1>9. CASE UNCHANGED crVars
    BY <1>9 DEF crVars, plVars, storeVars, osVars
  <1> QED
    BY <1>1, <1>2, <1>3, <1>4, <1>5, <1>6, <1>7, <1>8, <1>9 DEF RecoveryNext, PipelineStep, PassStep

\* Owner tokens are issued upwards and never taken back.
LEMMA TokensGrow ==
    ASSUME OSTypeOK, [OSNext]_osVars
    PROVE  lastToken' \in Nat /\ lastToken <= lastToken'
  <1>1. lastToken \in Nat
    BY OperationStoreAssumption DEF OSTypeOK, Tokens
  <1>2. lastToken' = lastToken \/ lastToken' = lastToken + 1
    BY DEF OSNext, osVars, storeVars, Reserve, NewToken, MarkApplying, MarkApplied, MarkFailed,
           RecoverTerminal
  <1> QED
    BY <1>1, <1>2

\* What a step of one worker leaves alone.
LEMMA OthersStay ==
    ASSUME WorkersTyped, NEW w \in Workers, WorkerStep(w) \/ OrphanGit(w)
    PROVE  /\ Active(w)
           /\ pc' \in [Workers -> PC]
           /\ \A v \in Workers \ {w} : pc'[v] = pc[v] /\ job'[v] = job[v] /\ token'[v] = token[v]
           /\ \/ job' = job /\ token' = token
              \/ /\ pc'[w] = "idle"
                 /\ job' = [job EXCEPT ![w] = NoKey]
                 /\ token' = [token EXCEPT ![w] = 0]
           /\ alive' = alive /\ expired' = expired /\ edits' = edits
  BY DEF WorkersTyped, Active, PC, WorkerStep, OrphanGit, Goto, Return, KeepJob, storeVars,
         artifactVars, worldVars, BeginApplying, TakeLock, NameLock, LoadArtifact, CheckRepo, CheckUse, GitRefuses, GitStart, GitTorn, GitDone, WriteEvidence, DurableWriteFails, MarkConsumed, LeaveLock, Finish, InspectFailure, ReleaseFailed

\* The few steps of a call, or of the git child it left, that change the
\* world outside the operation store.
LEMMA WorldSteps ==
    ASSUME NEW w \in Workers, WorkerStep(w) \/ OrphanGit(w)
    PROVE  /\ \/ repo' = repo
              \/ /\ GitStart(w) \/ pc[w] = "orphan_ready"
                 /\ repo' = [repo EXCEPT ![TargetOf(w)].files = @ \cup {ArtifactOf(w)}]
           /\ evidence' = evidence \/ WriteEvidence(w)
           /\ \/ history' = history
              \/ /\ GitDone(w) \/ pc[w] = "orphan_writing"
                 /\ history' = history \cup {job[w]}
           /\ \/ used' = used
              \/ used' = used \cup {<<ProcOf[w], ArtifactOf(w)>>}
              \/ used' = used \ {<<ProcOf[w], ArtifactOf(w)>>}
           /\ artifact' = artifact \/ MarkConsumed(w)
           /\ \/ lock' = lock
              \/ pc[w] = "applying" /\ pc' = [pc EXCEPT ![w] = "naming"] /\ CreateLock(w, ArtifactOf(w))
              \/ NameLock(w) \/ LeaveLock(w)
           /\ UNCHANGED <<expired, edits>>
  BY DEF WorkerStep, OrphanGit, Goto, Return, storeVars, artifactVars, worldVars, BeginApplying, TakeLock,
      NameLock, LoadArtifact, CheckRepo, CheckUse, GitRefuses, GitStart, GitTorn, GitDone,
      WriteEvidence, DurableWriteFails, MarkConsumed, LeaveLock, Finish, InspectFailure,
      ReleaseFailed

\* The steps of a pass that change anything but the pass itself.
LEMMA PassSteps ==
    ASSUME NEW q \in Reconcilers, StartPass(q) \/ PassStep(q)
    PROVE  /\ UNCHANGED <<pc, job, token, used, alive, repo, evidence, history, edits, expired>>
           /\ artifact' = artifact \/ ConsumeArtifact(q)
           /\ \/ lock' = lock
              \/ LockForConsume(q) /\ CreateLock(q, Item(q))
              \/ UnlinkLock(q) \/ NameConsumeLock(q) \/ UnlockConsumed(q)
           /\ UNCHANGED storeVars \/ SettleOperation(q)
  <1>1. UNCHANGED <<pc, job, token, used, alive, repo, evidence, history, edits, expired>>
    BY DEF PassStep, StartPass, ListLocks, ReadLock, UnlinkLock, LeaveLocks, ListOperations,
      JudgeOperation, InspectOperation, SettleOperation, LeaveOperations, JudgeArtifact,
      LockForConsume, NameConsumeLock, ConsumeArtifact, UnlockConsumed, EndPass, ArtifactsIdle,
      PipelineIdle, workerVars, worldVars, artifactVars
  <1>2. artifact' = artifact \/ ConsumeArtifact(q)
    BY DEF PassStep, StartPass, ListLocks, ReadLock, UnlinkLock, LeaveLocks, ListOperations,
      JudgeOperation, InspectOperation, SettleOperation, LeaveOperations, JudgeArtifact,
      LockForConsume, NameConsumeLock, ConsumeArtifact, UnlockConsumed, EndPass, ArtifactsIdle,
      PipelineIdle, workerVars, worldVars, artifactVars
  <1>3. \/ lock' = lock
        \/ LockForConsume(q) /\ CreateLock(q, Item(q))
        \/ UnlinkLock(q) \/ NameConsumeLock(q) \/ UnlockConsumed(q)
    BY DEF PassStep, StartPass, ListLocks, ReadLock, UnlinkLock, LeaveLocks, ListOperations,
      JudgeOperation, InspectOperation, SettleOperation, LeaveOperations, JudgeArtifact,
      LockForConsume, NameConsumeLock, ConsumeArtifact, UnlockConsumed, EndPass, ArtifactsIdle,
      PipelineIdle, workerVars, worldVars, artifactVars, OpenPass, GlobLocks, InspectLock, PassGate
  <1>4. UNCHANGED storeVars \/ SettleOperation(q)
    BY DEF PassStep, StartPass, ListLocks, ReadLock, UnlinkLock, LeaveLocks, ListOperations,
      JudgeOperation, InspectOperation, SettleOperation, LeaveOperations, JudgeArtifact,
      LockForConsume, NameConsumeLock, ConsumeArtifact, UnlockConsumed, EndPass, ArtifactsIdle,
      PipelineIdle, workerVars, worldVars, artifactVars
  <1> QED
    BY <1>1, <1>2, <1>3, <1>4

LEMMA LockTyped ==
    ASSUME LocksTypeOK, NEW x \in Actors, NEW n \in LockNames,
           CreateLock(x, n) \/ WriteLock(x, n) \/ Unlock(n)
    PROVE  LocksTypeOK'
  <1>1. CASE CreateLock(x, n)
    BY <1>1 DEF LocksTypeOK, LockFile, CreateLock
  <1>2. CASE WriteLock(x, n)
    <2> DEFINE b == IF lock[n].holder = x THEN TRUE ELSE lock[n].written
    <2>1. b \in BOOLEAN /\ lock' = [lock EXCEPT ![n].written = b]
      BY <1>2 DEF LocksTypeOK, LockFile, WriteLock
    <2> HIDE DEF b
    <2> QED
      BY <2>1 DEF LocksTypeOK, LockFile
  <1>3. CASE Unlock(n)
    BY <1>3 DEF LocksTypeOK, LockFile, Unlock, NoLock
  <1> QED
    BY <1>1, <1>2, <1>3

LEMMA WorkersTypedNext ==
    ASSUME Typed, [RecoveryNext]_crVars
    PROVE  WorkersTyped'
  <1>1. WorkersTyped /\ OSTypeOK
    BY DEF Typed, StoreInv
  <1>2. lastToken \in Nat /\ lastToken' \in Nat /\ lastToken <= lastToken'
    BY <1>1, StoreSimulated, TokensGrow, OperationStoreAssumption DEF OSTypeOK, Tokens
  <1>3. ASSUME NEW w \in Workers, NEW k \in OpKeys, ReserveJob(w, k)
        PROVE  WorkersTyped'
    <2>1. /\ lastToken' = lastToken + 1 /\ lastToken + 1 \in Tokens
          /\ pc' = [pc EXCEPT ![w] = "reserved"]
          /\ job' = [job EXCEPT ![w] = k]
          /\ token' = [token EXCEPT ![w] = lastToken + 1]
      BY <1>2, <1>3, OperationStoreAssumption DEF ReserveJob, Reserve, NewToken, Goto, Tokens
    <2> QED
      BY <1>1, <1>2, <2>1 DEF WorkersTyped, Active, PC
  <1>4. ASSUME NEW w \in Workers, WorkerStep(w) \/ OrphanGit(w)
        PROVE  WorkersTyped'
    <2>1. /\ Active(w)
          /\ pc' \in [Workers -> PC]
          /\ \A v \in Workers \ {w} : pc'[v] = pc[v] /\ job'[v] = job[v] /\ token'[v] = token[v]
          /\ \/ job' = job /\ token' = token
             \/ /\ pc'[w] = "idle"
                /\ job' = [job EXCEPT ![w] = NoKey]
                /\ token' = [token EXCEPT ![w] = 0]
      BY <1>1, <1>4, OthersStay
    <2>2. 0 \in Tokens
      BY OperationStoreAssumption DEF Tokens
    <2> QED
      BY <1>1, <1>2, <2>1, <2>2 DEF WorkersTyped, Active
  <1>5. ASSUME UNCHANGED <<pc, job, token>>
        PROVE  WorkersTyped'
    BY <1>1, <1>2, <1>5 DEF WorkersTyped, Active
  <1>6. ASSUME NEW p \in Procs, ExitAll(p)
        PROVE  WorkersTyped'
    <2>1. pc' = [w \in Workers |-> IF ProcOf[w] = p THEN PCAfterExit(w) ELSE pc[w]]
      BY <1>6 DEF ExitAll, ExitWorkers
    <2>2. \A w \in Workers : Active(w)' => Active(w)
      BY <2>1 DEF Active, PCAfterExit
    <2>3. pc' \in [Workers -> PC]
      BY <1>1, <2>1 DEF PCAfterExit, PC, WorkersTyped
    <2>4. job' = job /\ token' = token
      BY <1>6 DEF ExitAll, ExitWorkers
    <2> QED
      BY <1>1, <1>2, <2>2, <2>3, <2>4 DEF WorkersTyped
  <1>7. ASSUME NEW q \in Reconcilers, StartPass(q) \/ PassStep(q)
        PROVE  UNCHANGED <<pc, job, token>>
    BY <1>7, PassSteps
  <1> QED
    BY <1>3, <1>4, <1>5, <1>6, <1>7
    DEF RecoveryNext, PipelineStep, DevelopRepo, Expire, workerVars, crVars, plVars

\* Rows in progress keep the process that reserved them.
LEMMA OwnersKnownNext ==
    ASSUME Typed, [RecoveryNext]_crVars
    PROVE  OwnersKnown'
  <1>1. operations \in [OpKeys -> OperationRecord] /\ alive \subseteq Procs
    BY DEF Typed, StoreInv, OSTypeOK
  <1>2. [OSNext]_osVars
    BY StoreSimulated
  <1>3. ASSUME NEW p \in alive, NEW k \in OpKeys, Reserve(p, k)
        PROVE  OwnersKnown'
    BY <1>1, <1>3 DEF Typed, OwnersKnown, Reserve, Incomplete
  <1>4. ASSUME NEW k \in OpKeys, NEW t, MarkApplying(k, t) \/ MarkApplied(k, t) \/ MarkFailed(k, t)
        PROVE  OwnersKnown'
    BY <1>1, <1>4
    DEF Typed, OwnersKnown, MarkApplying, MarkApplied, MarkFailed, Owns, Incomplete, OperationRecord
  <1>5. ASSUME NEW k \in OpKeys, NEW next \in {"applied", "failed"}, RecoverTerminal(k, next)
        PROVE  OwnersKnown'
    BY <1>1, <1>5 DEF Typed, OwnersKnown, RecoverTerminal, Incomplete, OperationRecord
  <1>6. ASSUME UNCHANGED storeVars
        PROVE  OwnersKnown'
    BY <1>6 DEF Typed, OwnersKnown, storeVars
  <1> QED
    BY <1>2, <1>3, <1>4, <1>5, <1>6 DEF OSNext, osVars, storeVars

LEMMA WorldTypedNext ==
    ASSUME Typed, [RecoveryNext]_crVars
    PROVE  WorldTyped'
  <1>1. WorkersTyped /\ WorldTyped /\ PassTyped
    BY DEF Typed
  <1>2. \A w \in Workers : w \in Actors /\ ProcOf[w] \in Procs
    BY PipelineAssumption, ActorAssumption
  <1>3. ASSUME NEW w \in Workers, WorkerStep(w) \/ OrphanGit(w)
        PROVE  WorldTyped'
    <2>1. job[w] \in OpKeys /\ ArtifactOf(w) \in Artifacts /\ TargetOf(w) \in Repos
      BY <1>1, <1>3, OthersStay, JobParts
    <2>2. repo' \in [Repos -> RepoState] /\ edits' = edits
      BY <1>1, <1>3, <2>1, WorldSteps DEF WorldTyped, RepoState, Change
    <2>3. /\ evidence' \subseteq OpKeys
          /\ history' \subseteq OpKeys
          /\ used' \subseteq Procs \X Artifacts
      BY <1>1, <1>2, <1>3, <2>1, WorldSteps DEF WorldTyped, WriteEvidence, GitDone
    <2>4. artifact' \in [Artifacts -> ArtifactState] /\ expired' = expired
      BY <1>1, <1>3, <2>1, WorldSteps
      DEF WorldTyped, ArtifactTypeOK, ArtifactState, MarkConsumed, Consume
    <2>5. LocksTypeOK'
      <3>1. LocksTypeOK
        BY <1>1 DEF WorldTyped, ArtifactTypeOK
      <3>2. \/ lock' = lock
            \/ /\ ArtifactOf(w) \in LockNames
               /\ \/ CreateLock(w, ArtifactOf(w))
                  \/ WriteLock(w, ArtifactOf(w))
                  \/ Unlock(ArtifactOf(w))
        BY <1>3, <2>1, WorldSteps, ArtifactLocksAssumption DEF NameLock, LeaveLock
      <3> QED
        BY <1>2, <3>1, <3>2, LockTyped DEF LocksTypeOK
    <2> QED
      BY <1>1, <2>2, <2>3, <2>4, <2>5 DEF WorldTyped, ArtifactTypeOK
  <1>4. ASSUME NEW q \in Reconcilers, StartPass(q) \/ PassStep(q)
        PROVE  WorldTyped'
    <2>1. UNCHANGED <<used, repo, evidence, history, edits, expired>>
      BY <1>4, PassSteps
    <2>2. q \in Actors
      BY ReconcilerAssumption
    <2>3. rec[q].pc \in AtArtifact => Item(q) \in Artifacts
      BY <1>1, ItemOf DEF PassTyped
    <2>4. artifact' \in [Artifacts -> ArtifactState]
      BY <1>1, <1>4, <2>3, PassSteps
      DEF WorldTyped, ArtifactTypeOK, ArtifactState, ConsumeArtifact, Consume, AtArtifact, At
    <2>5. LocksTypeOK'
      <3>1. LocksTypeOK
        BY <1>1 DEF WorldTyped, ArtifactTypeOK
      <3>2. \/ lock' = lock
            \/ /\ Item(q) \in LockNames
               /\ CreateLock(q, Item(q)) \/ WriteLock(q, Item(q)) \/ Unlock(Item(q))
        BY <1>4, <2>3, PassSteps, ArtifactLocksAssumption
        DEF LockForConsume, NameConsumeLock, UnlinkLock, RemoveLock, UnlockConsumed, At, AtArtifact
      <3> QED
        BY <2>2, <3>1, <3>2, LockTyped DEF LocksTypeOK
    <2> QED
      BY <1>1, <2>1, <2>4, <2>5 DEF WorldTyped, ArtifactTypeOK
  <1>5. ASSUME NEW r \in Repos, DevelopRepo(r)
        PROVE  WorldTyped'
    BY <1>1, <1>5, PipelineAssumption
    DEF WorldTyped, DevelopRepo, RepoState, Change, artifactVars, workerVars, ArtifactTypeOK, LocksTypeOK
  <1>6. ASSUME NEW a \in Artifacts, Expire(a)
        PROVE  WorldTyped'
    BY <1>1, <1>6 DEF WorldTyped, Expire, workerVars, worldVars, ArtifactTypeOK, LocksTypeOK
  <1>7. ASSUME NEW p \in Procs, ExitAll(p)
        PROVE  WorldTyped'
    BY <1>1, <1>7
    DEF WorldTyped, ExitAll, ExitWorkers, worldVars, artifactVars, ArtifactTypeOK, LocksTypeOK
  <1>8. ASSUME UNCHANGED <<used, artifactVars, worldVars>>
        PROVE  WorldTyped'
    BY <1>1, <1>8 DEF WorldTyped, worldVars, artifactVars, ArtifactTypeOK, LocksTypeOK
  <1> QED
    BY <1>3, <1>4, <1>5, <1>6, <1>7, <1>8
    DEF RecoveryNext, PipelineStep, ReserveJob, workerVars, crVars, plVars

\* The pass of q has moved on to c with lists T and I, and no other pass has.
PassIs(q, c, T, I) ==
    /\ rec' \in [Reconcilers -> PassState]
    /\ \A p \in Reconcilers \ {q} : rec'[p] = rec[p]
    /\ rec'[q].pc = c /\ rec'[q].todo = T /\ rec'[q].item = I

LEMMA PassUpdates ==
    ASSUME PassTyped, NEW q \in Reconcilers, NEW c \in RecPC
    PROVE  /\ Move(q, c) => PassIs(q, c, rec[q].todo, rec[q].item)
           /\ Drop(q, c) => PassIs(q, c, rec[q].todo, {})
           /\ \A x \in rec[q].todo :
                  /\ Take(q, x, c) => PassIs(q, c, rec[q].todo \ {x}, {x})
                  /\ Skip(q, x) => PassIs(q, rec[q].pc, rec[q].todo \ {x}, rec[q].item)
           /\ \A T \in Lists :
                  rec' = [rec EXCEPT ![q].pc = c, ![q].todo = T] => PassIs(q, c, T, rec[q].item)
           /\ rec' = [rec EXCEPT ![q] = [@ EXCEPT !.pc = c, !.todo = {}, !.item = {}]]
                  => PassIs(q, c, {}, {})
           /\ \A b \in BOOLEAN :
                  rec' = [rec EXCEPT ![q] = [NothingYet EXCEPT !.pc = c, !.blocked = b]]
                  => PassIs(q, c, {}, {})
  <1> USE DEF PassTyped, PassState, PassIs
  <1>8. {} \in Lists /\ {} \in Items
    BY DEF Lists, Items
  <1>1. Move(q, c) => PassIs(q, c, rec[q].todo, rec[q].item)
    BY DEF Move
  <1>2. ASSUME Drop(q, c)
        PROVE  PassIs(q, c, rec[q].todo, {})
    BY <1>2, <1>8 DEF Drop
  <1>9. ASSUME NEW x \in rec[q].todo
        PROVE  rec[q].todo \ {x} \in Lists /\ {x} \in Items
    BY DEF Lists, Items
  <1>3. ASSUME NEW x \in rec[q].todo, Take(q, x, c)
        PROVE  PassIs(q, c, rec[q].todo \ {x}, {x})
    <2>1. rec' \in [Reconcilers -> PassState]
      BY <1>3, <1>9 DEF Take
    <2> QED
      BY <1>3, <2>1 DEF Take
  <1>4. ASSUME NEW x \in rec[q].todo, Skip(q, x)
        PROVE  PassIs(q, rec[q].pc, rec[q].todo \ {x}, rec[q].item)
    BY <1>4, <1>9 DEF Skip
  <1>5. ASSUME NEW T \in Lists,
               rec' = [rec EXCEPT ![q].pc = c, ![q].todo = T]
        PROVE  PassIs(q, c, T, rec[q].item)
    BY <1>5
  <1>6. ASSUME rec' = [rec EXCEPT ![q] = [@ EXCEPT !.pc = c, !.todo = {}, !.item = {}]]
        PROVE  PassIs(q, c, {}, {})
    BY <1>6, <1>8
  <1>7. ASSUME NEW b \in BOOLEAN,
               rec' = [rec EXCEPT ![q] = [NothingYet EXCEPT !.pc = c, !.blocked = b]]
        PROVE  PassIs(q, c, {}, {})
    BY <1>7, <1>8 DEF NothingYet
  <1> QED
    BY <1>1, <1>2, <1>3, <1>4, <1>5, <1>6, <1>7

\* What each step of a pass makes of the pass.
LEMMA PassTable ==
    ASSUME PassTyped, OwnersKnown, NEW q \in Reconcilers
    PROVE  LET T == rec[q].todo
               I == rec[q].item
           IN /\ StartPass(q) => PassIs(q, "gated", {}, {})
              /\ ListLocks(q) => PassIs(q, "locks", {n \in Artifacts : lock[n] # NoLock}, I)
              /\ ReadLock(q) => \E n \in T : \/ /\ PassIs(q, "unlink", T \ {n}, {n})
                                                /\ lock[n] # NoLock /\ StaleLock(n)
                                             \/ PassIs(q, "locks", T \ {n}, I)
              /\ UnlinkLock(q) => PassIs(q, "locks", T, {})
              /\ LeaveLocks(q) => PassIs(q, "listing", T, I) \/ PassIs(q, "off", T, I)
              /\ ListOperations(q) => PassIs(q, "ops",
                     {[key |-> k, owner |-> operations[k].owner] :
                         k \in {j \in OpKeys : operations[j].state \in Incomplete}}, I)
              /\ JudgeOperation(q) => \E op \in T :
                     \/ PassIs(q, "ops", T \ {op}, I)
                     \/ /\ PassIs(q, "settle_applied", T \ {op}, {op})
                        /\ ~OwnerActive(op.owner) /\ HasEvidence(op.key[1])
                     \/ /\ PassIs(q, "inspect", T \ {op}, {op})
                        /\ ~OwnerActive(op.owner) /\ ~HasEvidence(op.key[1])
              /\ InspectOperation(q) => \/ /\ PassIs(q, "settle_failed", T, I)
                                           /\ Untouched(RepoOf(Item(q).key))
                                        \/ PassIs(q, "ops", T, {})
              /\ SettleOperation(q) => PassIs(q, "ops", T, {}) \/ PassIs(q, "ops", {}, {})
              /\ LeaveOperations(q) => PassIs(q, "artifacts", Artifacts, I)
              /\ JudgeArtifact(q) => \E a \in T :
                     \/ PassIs(q, "artifacts", T \ {a}, I)
                     \/ PassIs(q, "lock", T \ {a}, {a}) /\ HasEvidence(a)
              /\ LockForConsume(q) => \/ PassIs(q, "name", T, I) /\ CreateLock(q, Item(q))
                                      \/ PassIs(q, "artifacts", T, {}) /\ lock' = lock
              /\ NameConsumeLock(q) => PassIs(q, "consume", T, I)
              /\ ConsumeArtifact(q) => PassIs(q, "unlock", T, I)
              /\ UnlockConsumed(q) => PassIs(q, "artifacts", T, {})
              /\ EndPass(q) => PassIs(q, "off", T, I)
  <1> DEFINE T == rec[q].todo
             I == rec[q].item
  <1>1. StartPass(q) => PassIs(q, "gated", {}, {})
    <2>1. LocksBlockRecovery \in BOOLEAN
      BY DEF LocksBlockRecovery
    <2> QED
      BY <2>1, PassUpdates DEF StartPass, OpenPass, RecPC
  <1>2. ListLocks(q) => PassIs(q, "locks", {n \in Artifacts : lock[n] # NoLock}, I)
    BY PassUpdates, ArtifactLocksAssumption DEF ListLocks, GlobLocks, RecPC, Lists
  <1>3. ReadLock(q) => \E n \in T : \/ /\ PassIs(q, "unlink", T \ {n}, {n})
                                       /\ lock[n] # NoLock /\ StaleLock(n)
                                    \/ PassIs(q, "locks", T \ {n}, I)
    BY PassUpdates DEF ReadLock, InspectLock, RecPC, At
  <1>4. UnlinkLock(q) => PassIs(q, "locks", T, {})
    BY PassUpdates DEF UnlinkLock, RemoveLock, RecPC
  <1>5. LeaveLocks(q) => PassIs(q, "listing", T, I) \/ PassIs(q, "off", T, I)
    BY PassUpdates DEF LeaveLocks, PassGate, RecPC
  <1>6. ListOperations(q) => PassIs(q, "ops",
            {[key |-> k, owner |-> operations[k].owner] :
                k \in {j \in OpKeys : operations[j].state \in Incomplete}}, I)
    <2> DEFINE U == {[key |-> k, owner |-> operations[k].owner] :
                        k \in {j \in OpKeys : operations[j].state \in Incomplete}}
    <2>1. U \subseteq ListedOp
      BY DEF OwnersKnown, ListedOp
    <2>2. ListOperations(q) => rec' = [rec EXCEPT ![q].pc = "ops", ![q].todo = U]
      BY DEF ListOperations
    <2> HIDE DEF U
    <2>3. ListOperations(q) => PassIs(q, "ops", U, I)
      BY <2>1, <2>2, PassUpdates DEF RecPC, Lists
    <2> QED
      BY <2>3 DEF U
  <1>7. JudgeOperation(q) => \E op \in T :
            \/ PassIs(q, "ops", T \ {op}, I)
            \/ /\ PassIs(q, "settle_applied", T \ {op}, {op})
               /\ ~OwnerActive(op.owner) /\ HasEvidence(op.key[1])
            \/ /\ PassIs(q, "inspect", T \ {op}, {op})
               /\ ~OwnerActive(op.owner) /\ ~HasEvidence(op.key[1])
    BY PassUpdates DEF JudgeOperation, RecPC, At
  <1>8. InspectOperation(q) => \/ /\ PassIs(q, "settle_failed", T, I)
                                  /\ Untouched(RepoOf(Item(q).key))
                               \/ PassIs(q, "ops", T, {})
    BY PassUpdates DEF InspectOperation, RecPC
  <1>9. SettleOperation(q) => PassIs(q, "ops", T, {}) \/ PassIs(q, "ops", {}, {})
    BY PassUpdates DEF SettleOperation, RecPC
  <1>10. LeaveOperations(q) => PassIs(q, "artifacts", Artifacts, I)
    BY PassUpdates DEF LeaveOperations, RecPC, Lists
  <1>11. JudgeArtifact(q) => \E a \in T :
             \/ PassIs(q, "artifacts", T \ {a}, I)
             \/ PassIs(q, "lock", T \ {a}, {a}) /\ HasEvidence(a)
    BY PassUpdates DEF JudgeArtifact, RecPC, At
  <1>12. LockForConsume(q) => \/ PassIs(q, "name", T, I) /\ CreateLock(q, Item(q))
                              \/ PassIs(q, "artifacts", T, {}) /\ lock' = lock
    BY PassUpdates DEF LockForConsume, RecPC
  <1>13. NameConsumeLock(q) => PassIs(q, "consume", T, I)
    BY PassUpdates DEF NameConsumeLock, RecPC
  <1>14. ConsumeArtifact(q) => PassIs(q, "unlock", T, I)
    BY PassUpdates DEF ConsumeArtifact, RecPC
  <1>15. UnlockConsumed(q) => PassIs(q, "artifacts", T, {})
    BY PassUpdates DEF UnlockConsumed, RecPC
  <1>16. EndPass(q) => PassIs(q, "off", T, I)
    BY PassUpdates DEF EndPass, RecPC
  <1> QED
    BY <1>1, <1>2, <1>3, <1>4, <1>5, <1>6, <1>7, <1>8, <1>9, <1>10, <1>11, <1>12, <1>13, <1>14,
       <1>15, <1>16

\* Each stage of a pass lists, and looks at, its own kind of thing.
LEMMA PassTypedNext ==
    ASSUME Typed, [RecoveryNext]_crVars
    PROVE  PassTyped'
  <1>1. PassTyped /\ OwnersKnown
    BY DEF Typed
  <1>2. ASSUME NEW q \in Reconcilers, StartPass(q) \/ PassStep(q)
        PROVE  PassTyped'
    <2> DEFINE T == rec[q].todo
               I == rec[q].item
               Fits(c, U, J) ==
                   /\ c \in OnArtifacts => U \subseteq Artifacts
                   /\ c \in OnOperations => U \subseteq ListedOp
                   /\ c \in AtArtifact => \E a \in Artifacts : J = {a}
                   /\ c \in AtOperation => \E op \in ListedOp : J = {op}
    <2>1. /\ rec' \in [Reconcilers -> PassState]
          /\ \A p \in Reconcilers \ {q} : rec'[p] = rec[p]
          /\ Fits(rec'[q].pc, rec'[q].todo, rec'[q].item)
      <3> USE DEF PassIs, OnArtifacts, OnOperations, AtArtifact, AtOperation, At
      <3>1. Fits(rec[q].pc, T, I)
        BY <1>1 DEF PassTyped
      <3>2. CASE StartPass(q)
        BY <1>1, <3>2, PassTable
      <3>3. CASE ListLocks(q) \/ UnlinkLock(q) \/ LeaveLocks(q)
        BY <1>1, <3>1, <3>3, PassTable
        DEF ListLocks, UnlinkLock, LeaveLocks, GlobLocks, InspectLock, RemoveLock, PassGate
      <3>4. CASE ReadLock(q)
        BY <1>1, <3>1, <3>4, PassTable DEF ReadLock, InspectLock
      <3>5. CASE ListOperations(q)
        <4> DEFINE V == {[key |-> k, owner |-> operations[k].owner] :
                            k \in {j \in OpKeys : operations[j].state \in Incomplete}}
        <4>1. V \subseteq ListedOp
          BY <1>1 DEF OwnersKnown, ListedOp
        <4>2. PassIs(q, "ops", V, I)
          BY <1>1, <3>5, PassTable
        <4> HIDE DEF V
        <4> QED
          BY <4>1, <4>2
      <3>6. CASE JudgeOperation(q)
        BY <1>1, <3>1, <3>6, PassTable DEF JudgeOperation
      <3>7. CASE InspectOperation(q)
        BY <1>1, <3>1, <3>7, PassTable DEF InspectOperation
      <3>8. CASE SettleOperation(q)
        BY <1>1, <3>1, <3>8, PassTable DEF SettleOperation
      <3>9. CASE LeaveOperations(q) \/ EndPass(q)
        BY <1>1, <3>9, PassTable
      <3>10. CASE JudgeArtifact(q)
        BY <1>1, <3>1, <3>10, PassTable DEF JudgeArtifact
      <3>11. CASE LockForConsume(q) \/ NameConsumeLock(q)
        BY <1>1, <3>1, <3>11, PassTable DEF LockForConsume, NameConsumeLock
      <3>12. CASE ConsumeArtifact(q) \/ UnlockConsumed(q)
        BY <1>1, <3>1, <3>12, PassTable DEF ConsumeArtifact, UnlockConsumed
      <3> QED
        BY <1>2, <3>2, <3>3, <3>4, <3>5, <3>6, <3>7, <3>8, <3>9, <3>10, <3>11, <3>12 DEF PassStep
    <2> QED
      BY <1>1, <2>1 DEF PassTyped
  <1>3. ASSUME NEW p \in Procs, ExitAll(p)
        PROVE  PassTyped'
    BY <1>1, <1>3 DEF ExitAll, NothingYet, PassTyped, PassState, Lists, Items, RecPC, OnArtifacts, OnOperations, AtArtifact, AtOperation
  <1>4. ASSUME UNCHANGED rec
        PROVE  PassTyped'
    BY <1>1, <1>4 DEF PassTyped
  <1> QED
    BY <1>2, <1>3, <1>4 DEF RecoveryNext, crVars

LEMMA TypedNext == Typed /\ [RecoveryNext]_crVars => Typed'
  <1> SUFFICES ASSUME Typed, [RecoveryNext]_crVars PROVE Typed'
    OBVIOUS
  <1>1. StoreInv'
    BY StoreSimulated, StoreInvNext DEF Typed
  <1> QED
    BY <1>1, OwnersKnownNext, WorkersTypedNext, WorldTypedNext, PassTypedNext DEF Typed

\* The inductive part that every proof below starts from.
THEOREM RecoveryTyped == RecoverySpec => []Typed
  BY TypedInit, TypedNext, PTL DEF RecoverySpec

\* apply_artifact and reconcile keep every store, lock file, worktree and
\* pass in a state the code knows.
THEOREM RecoveryTypeCorrect == RecoverySpec => []RecoveryTypeOK
  <1>1. Typed => RecoveryTypeOK
    <2> SUFFICES ASSUME Typed PROVE RecoveryTypeOK
      OBVIOUS
    <2>1. PipelineTypeOK
      BY DEF Typed, StoreInv, WorkersTyped, WorldTyped, PipelineTypeOK
    <2> QED
      BY <2>1 DEF Typed, PassTyped, PassState, Lists, Items, RecoveryTypeOK
  <1> QED
    BY <1>1, RecoveryTyped, PTL

\* Workers and passes together respect the discipline of the store: whatever
\* apply_artifact and reconcile do in whatever order, crashes included, is a
\* behaviour of the operation store on its own.  What is proved of the store
\* therefore holds of the whole.
THEOREM RecoveryUsesStore == RecoverySpec => OSSpec
  <1>1. RecoveryInit => OSInit
    BY DEF RecoveryInit, PipelineInit
  <1>2. Typed /\ [RecoveryNext]_crVars => [OSNext]_osVars
    BY StoreSimulated
  <1> QED
    BY <1>1, <1>2, RecoveryTyped, PTL DEF RecoverySpec, OSSpec

-----------------------------------------------------------------------------
(***************************************************************************)
(* Audit evidence.  The invariant says what a call and a pass know at each  *)
(* stage about the audit log: a call that is past its repository check acts *)
(* on the repository the artifact belongs to, one that is past git has      *)
(* written the patch, one that is past the audit event has left it; a pass  *)
(* that is about to consume or to conclude "applied" has seen the event.    *)
(***************************************************************************)
CallKnows(w) ==
    /\ pc[w] \in {"loaded", "clean", "ready", "writing", "patched"} =>
           TrustedRepo[job[w][1]] = job[w][2]
    /\ pc[w] = "patched" => job[w] \in history
    /\ pc[w] \in {"audited", "consumed", "finishing"} => job[w] \in evidence

PassKnows(q) ==
    /\ rec[q].pc \in {"lock", "name", "consume"} => \A a \in rec[q].item : HasEvidence(a)
    /\ rec[q].pc = "settle_applied" => \A op \in rec[q].item : HasEvidence(op.key[1])

EvidenceInv ==
    /\ \A w \in Workers : CallKnows(w)
    /\ \A q \in Reconcilers : PassKnows(q)
    /\ EvidenceIsTrue
    /\ SuccessHasEvidence

LEMMA EvidenceInvInit == RecoveryInit => EvidenceInv
  BY DEF RecoveryInit, PipelineInit, OSInit, StoreInit, EvidenceInv, CallKnows, PassKnows,
         NothingYet, EvidenceIsTrue, SuccessHasEvidence, NoOperation

\* Neither the audit log nor what git has written is ever taken back.
LEMMA RecordsGrow ==
    ASSUME Typed, [RecoveryNext]_crVars
    PROVE  /\ evidence \subseteq evidence' /\ history \subseteq history'
           /\ \A a : HasEvidence(a) => HasEvidence(a)'
  <1>1. ASSUME NEW w \in Workers, WorkerStep(w) \/ OrphanGit(w)
        PROVE  evidence \subseteq evidence' /\ history \subseteq history'
    BY <1>1, WorldSteps DEF WriteEvidence, GitDone
  <1>2. ASSUME NEW q \in Reconcilers, StartPass(q) \/ PassStep(q)
        PROVE  evidence \subseteq evidence' /\ history \subseteq history'
    BY <1>2, PassSteps
  <1>3. evidence \subseteq evidence' /\ history \subseteq history'
    BY <1>1, <1>2
    DEF RecoveryNext, PipelineStep, ReserveJob, DevelopRepo, Expire, ExitAll, ExitWorkers, worldVars,
        crVars, plVars
  <1> QED
    BY <1>3 DEF HasEvidence

LEMMA CallKnowsNext ==
    ASSUME Typed, [RecoveryNext]_crVars, NEW v \in Workers, CallKnows(v)
    PROVE  CallKnows(v)'
  <1>1. WorkersTyped /\ evidence \subseteq evidence' /\ history \subseteq history'
    BY RecordsGrow DEF Typed
  <1>2. ASSUME pc'[v] = pc[v], job'[v] = job[v]
        PROVE  CallKnows(v)'
    BY <1>1, <1>2 DEF CallKnows
  <1>3. ASSUME NEW w \in Workers, NEW k \in OpKeys, ReserveJob(w, k)
        PROVE  CallKnows(v)'
    BY <1>1, <1>2, <1>3 DEF ReserveJob, Goto, WorkersTyped, CallKnows
  <1>4. ASSUME NEW w \in Workers, WorkerStep(w) \/ OrphanGit(w)
        PROVE  CallKnows(v)'
    <2>1. CASE v # w
      BY <1>1, <1>2, <1>4, <2>1, OthersStay
    <2>2. CASE v = w
      <3>1. CASE LoadArtifact(w)
        BY <1>1, <2>2, <3>1 DEF LoadArtifact, Goto, KeepJob, CallKnows, ArtifactOf, TargetOf, WorkersTyped
      <3>2. CASE CheckRepo(w) \/ CheckUse(w) \/ GitStart(w)
        BY <1>1, <2>2, <3>2 DEF CheckRepo, CheckUse, GitStart, Goto, KeepJob, CallKnows, WorkersTyped
      <3>3. CASE GitDone(w) \/ WriteEvidence(w)
        BY <1>1, <2>2, <3>3 DEF GitDone, WriteEvidence, Goto, KeepJob, CallKnows, WorkersTyped
      <3>4. CASE MarkConsumed(w) \/ LeaveLock(w)
        BY <1>1, <2>2, <3>4 DEF MarkConsumed, LeaveLock, Goto, KeepJob, CallKnows, WorkersTyped
      <3>5. ASSUME pc'[w] \in {"idle", "applying", "naming", "locked", "unwinding", "failing",
                               "releasing", "orphan_writing", "dead"}
            PROVE  CallKnows(v)'
        BY <2>2, <3>5 DEF CallKnows
      <3>6. \/ LoadArtifact(w) \/ CheckRepo(w) \/ CheckUse(w) \/ GitStart(w) \/ GitDone(w)
            \/ WriteEvidence(w) \/ MarkConsumed(w) \/ LeaveLock(w)
            \/ pc'[w] \in {"idle", "applying", "naming", "locked", "unwinding", "failing",
                           "releasing", "orphan_writing", "dead"}
        BY <1>1, <1>4 
        DEF WorkersTyped, WorkerStep, OrphanGit, Goto, Return, BeginApplying, TakeLock, NameLock,
            GitRefuses, GitTorn, DurableWriteFails, Finish, InspectFailure, ReleaseFailed
      <3> QED
        BY <3>1, <3>2, <3>3, <3>4, <3>5, <3>6
    <2> QED
      BY <2>1, <2>2
  <1>5. ASSUME NEW p \in Procs, ExitAll(p)
        PROVE  CallKnows(v)'
    <2>1. job'[v] = job[v] /\ pc'[v] \in {pc[v], "dead", "orphan_ready", "orphan_writing"}
      BY <1>5 DEF ExitAll, ExitWorkers, PCAfterExit
    <2> QED
      BY <1>1, <2>1 DEF CallKnows
  <1>6. ASSUME NEW q \in Reconcilers, StartPass(q) \/ PassStep(q)
        PROVE  pc' = pc /\ job' = job
    BY <1>6, PassSteps
  <1> QED
    BY <1>2, <1>3, <1>4, <1>5, <1>6
    DEF RecoveryNext, PipelineStep, DevelopRepo, Expire, workerVars, crVars, plVars

LEMMA PassKnowsNext ==
    ASSUME Typed, [RecoveryNext]_crVars, NEW p \in Reconcilers, PassKnows(p)
    PROVE  PassKnows(p)'
  <1>1. PassTyped /\ OwnersKnown /\ \A a : HasEvidence(a) => HasEvidence(a)'
    BY RecordsGrow DEF Typed
  <1>2. ASSUME rec'[p] = rec[p]
        PROVE  PassKnows(p)'
    BY <1>1, <1>2 DEF PassKnows
  <1>3. ASSUME NEW q \in Reconcilers, StartPass(q) \/ PassStep(q)
        PROVE  PassKnows(p)'
    <2>1. CASE p # q
      BY <1>1, <1>2, <1>3, <2>1, PassTable DEF PassIs, PassStep
    <2>2. CASE p = q
      <3>1. CASE JudgeOperation(q)
        BY <1>1, <2>2, <3>1, PassTable DEF JudgeOperation, PassKnows, PassIs, At
      <3>2. CASE JudgeArtifact(q)
        BY <1>1, <2>2, <3>2, PassTable DEF JudgeArtifact, PassKnows, PassIs, At
      <3>3. CASE LockForConsume(q) \/ NameConsumeLock(q)
        BY <1>1, <2>2, <3>3, PassTable DEF LockForConsume, NameConsumeLock, PassKnows, PassIs, At
      <3>4. CASE ~JudgeOperation(q) /\ ~JudgeArtifact(q) /\ ~LockForConsume(q) /\ ~NameConsumeLock(q)
        <4>1. rec'[q].pc \notin {"settle_applied", "lock", "name", "consume"}
          BY <1>1, <1>3, <3>4, PassTable DEF PassIs, PassStep
        <4> QED
          BY <2>2, <4>1 DEF PassKnows
      <3> QED
        BY <3>1, <3>2, <3>3, <3>4
    <2> QED
      BY <2>1, <2>2
  <1>4. ASSUME NEW x \in Procs, ExitAll(x)
        PROVE  PassKnows(p)'
    BY <1>1, <1>2, <1>4 DEF ExitAll, NothingYet, PassKnows, PassTyped
  <1> QED
    BY <1>2, <1>3, <1>4 DEF RecoveryNext, crVars

\* A worker that has its event in the log has evidence of its artifact.
LEMMA JobHasEvidence ==
    ASSUME Typed, NEW w \in Workers, job[w] \in evidence
    PROVE  HasEvidence(job[w][1])
  BY DEF Typed, WorldTyped, HasEvidence, OpKeys

\* write_approved_patch_apply_audit_event comes after git and names the
\* repository that was checked under the lock.
LEMMA EvidenceIsTrueNext ==
    ASSUME Typed, EvidenceInv, [RecoveryNext]_crVars
    PROVE  EvidenceIsTrue'
  <1>1. EvidenceIsTrue /\ history \subseteq history'
    BY RecordsGrow DEF EvidenceInv
  <1>2. ASSUME NEW w \in Workers, WriteEvidence(w)
        PROVE  EvidenceIsTrue'
    BY <1>1, <1>2 DEF EvidenceInv, CallKnows, WriteEvidence, EvidenceIsTrue, Goto
  <1>3. ASSUME evidence' = evidence
        PROVE  EvidenceIsTrue'
    BY <1>1, <1>3 DEF EvidenceIsTrue
  <1>4. evidence' = evidence \/ \E w \in Workers : WriteEvidence(w)
    BY WorldSteps, PassSteps
    DEF RecoveryNext, PipelineStep, ReserveJob, DevelopRepo, Expire, ExitAll, ExitWorkers, worldVars,
        crVars, plVars
  <1> QED
    BY <1>2, <1>3, <1>4

\* An artifact is consumed by a call that wrote the event or by a pass that
\* saw it.
LEMMA ConsumedHasEvidenceNext ==
    ASSUME Typed, EvidenceInv, [RecoveryNext]_crVars
    PROVE  \A a \in Artifacts : artifact'[a] = "consumed" => HasEvidence(a)'
  <1>1. /\ \A a \in Artifacts : artifact[a] = "consumed" => HasEvidence(a)
        /\ \A a : HasEvidence(a) => HasEvidence(a)'
        /\ artifact \in [Artifacts -> ArtifactState]
    BY RecordsGrow DEF EvidenceInv, SuccessHasEvidence, Typed, WorldTyped, ArtifactTypeOK
  <1>2. ASSUME NEW w \in Workers, MarkConsumed(w)
        PROVE  \A a \in Artifacts : artifact'[a] = "consumed" => HasEvidence(a)'
    <2>1. HasEvidence(ArtifactOf(w))
      BY <1>2, JobHasEvidence DEF MarkConsumed, Goto, EvidenceInv, CallKnows, ArtifactOf
    <2> QED
      BY <1>1, <1>2, <2>1 DEF MarkConsumed, Consume
  <1>3. ASSUME NEW q \in Reconcilers, ConsumeArtifact(q)
        PROVE  \A a \in Artifacts : artifact'[a] = "consumed" => HasEvidence(a)'
    <2>1. PICK a \in Artifacts : rec[q].item = {a}
      BY <1>3 DEF ConsumeArtifact, At, Typed, PassTyped, AtArtifact
    <2>2. Item(q) = a /\ HasEvidence(a)
      BY <1>3, <2>1, ItemOf DEF ConsumeArtifact, At, EvidenceInv, PassKnows
    <2> QED
      BY <1>1, <1>3, <2>2 DEF ConsumeArtifact, Consume
  <1>4. \/ artifact' = artifact
        \/ \E w \in Workers : MarkConsumed(w)
        \/ \E q \in Reconcilers : ConsumeArtifact(q)
    BY WorldSteps, PassSteps
    DEF RecoveryNext, PipelineStep, ReserveJob, DevelopRepo, Expire, ExitAll, ExitWorkers,
        artifactVars, crVars, plVars
  <1> QED
    BY <1>1, <1>2, <1>3, <1>4

\* The steps of a call that write the operation store.
LEMMA StoreSteps ==
    ASSUME NEW w \in Workers, WorkerStep(w) \/ OrphanGit(w)
    PROVE  \/ UNCHANGED storeVars
           \/ pc[w] = "reserved" /\ pc' = [pc EXCEPT ![w] = "applying"] /\ MarkApplying(job[w], token[w])
           \/ pc[w] = "finishing" /\ pc' = [pc EXCEPT ![w] = "idle"] /\ MarkApplied(job[w], token[w])
           \/ pc[w] = "releasing" /\ pc' = [pc EXCEPT ![w] = "idle"] /\ MarkFailed(job[w], token[w])
  BY DEF WorkerStep, OrphanGit, Goto, Return, BeginApplying, TakeLock,
      NameLock, LoadArtifact, CheckRepo, CheckUse, GitRefuses, GitStart, GitTorn, GitDone,
      WriteEvidence, DurableWriteFails, MarkConsumed, LeaveLock, Finish, InspectFailure,
      ReleaseFailed

\* A row becomes applied by the owner that wrote the event or by a pass that
\* saw it.
LEMMA AppliedHasEvidenceNext ==
    ASSUME Typed, EvidenceInv, [RecoveryNext]_crVars
    PROVE  \A k \in OpKeys : operations'[k].state = "applied" => HasEvidence(k[1])'
  <1> DEFINE Goal == \A k \in OpKeys : operations'[k].state = "applied" => HasEvidence(k[1])'
  <1>1. /\ \A k \in OpKeys : operations[k].state = "applied" => HasEvidence(k[1])
        /\ \A a : HasEvidence(a) => HasEvidence(a)'
        /\ operations \in [OpKeys -> OperationRecord]
        /\ WorkersTyped
    BY RecordsGrow DEF EvidenceInv, SuccessHasEvidence, Typed, StoreInv, OSTypeOK
  <1>2. ASSUME UNCHANGED storeVars
        PROVE  Goal
    BY <1>1, <1>2 DEF storeVars
  <1>3. ASSUME NEW w \in Workers, NEW k \in OpKeys, ReserveJob(w, k)
        PROVE  Goal
    BY <1>1, <1>3 DEF ReserveJob, Reserve
  <1>4. ASSUME NEW w \in Workers, WorkerStep(w) \/ OrphanGit(w), ~ UNCHANGED storeVars
        PROVE  Goal
    <2>1. job[w] \in OpKeys
      BY <1>1, <1>4, OthersStay, JobParts
    <2>2. CASE MarkApplying(job[w], token[w]) \/ MarkFailed(job[w], token[w])
      BY <1>1, <2>1, <2>2 DEF MarkApplying, MarkFailed, OperationRecord
    <2>3. CASE pc[w] = "finishing" /\ MarkApplied(job[w], token[w])
      <3>1. HasEvidence(job[w][1])
        BY <2>3, JobHasEvidence DEF EvidenceInv, CallKnows
      <3> QED
        BY <1>1, <2>1, <2>3, <3>1 DEF MarkApplied, OperationRecord
    <2> QED
      BY <1>4, <2>2, <2>3, StoreSteps
  <1>5. ASSUME NEW q \in Reconcilers, SettleOperation(q), ~ UNCHANGED storeVars
        PROVE  Goal
    <2>1. PICK op \in ListedOp : rec[q].item = {op}
      BY <1>5 DEF SettleOperation, At, Typed, PassTyped, AtOperation
    <2>2. /\ Item(q) = op /\ op.key \in OpKeys
          /\ At(q, "settle_applied") => HasEvidence(op.key[1])
      BY <2>1, ItemOf DEF At, EvidenceInv, PassKnows, ListedOp
    <2>3. \/ At(q, "settle_applied") /\ RecoverTerminal(op.key, "applied")
          \/ RecoverTerminal(op.key, "failed")
      BY <1>5, <2>2 DEF SettleOperation
    <2> QED
      <3>1. CASE At(q, "settle_applied") /\ RecoverTerminal(op.key, "applied")
        BY <1>1, <2>2, <3>1 DEF RecoverTerminal, OperationRecord
      <3>2. CASE RecoverTerminal(op.key, "failed")
        BY <1>1, <2>2, <3>2 DEF RecoverTerminal, OperationRecord
      <3> QED
        BY <2>3, <3>1, <3>2
  <1>6. ASSUME NEW q \in Reconcilers, StartPass(q) \/ PassStep(q)
        PROVE  Goal
    BY <1>2, <1>5, <1>6, PassSteps
  <1> QED
    BY <1>2, <1>3, <1>4, <1>6
    DEF RecoveryNext, PipelineStep, DevelopRepo, Expire, ExitAll, ExitWorkers, crVars, plVars

LEMMA EvidenceInvNext == Typed /\ EvidenceInv /\ [RecoveryNext]_crVars => EvidenceInv'
  <1> SUFFICES ASSUME Typed, EvidenceInv, [RecoveryNext]_crVars PROVE EvidenceInv'
    OBVIOUS
  <1>1. \A w \in Workers : CallKnows(w)'
    BY CallKnowsNext DEF EvidenceInv
  <1>2. \A q \in Reconcilers : PassKnows(q)'
    BY PassKnowsNext DEF EvidenceInv
  <1>3. SuccessHasEvidence'
    BY ConsumedHasEvidenceNext, AppliedHasEvidenceNext DEF SuccessHasEvidence
  <1> QED
    BY <1>1, <1>2, <1>3, EvidenceIsTrueNext DEF EvidenceInv

\* What the audit log, the artifact files and the operation rows say of each
\* other and of what git wrote holds in every state, with any number of
\* workers and concurrent passes: the inductive form of the two theorems below.
THEOREM RecoveryEvidence == RecoverySpec => []EvidenceInv
  BY EvidenceInvInit, EvidenceInvNext, RecoveryTyped, PTL DEF RecoverySpec

\* Whatever crashes and whoever recovers, an audit event of an approved apply
\* is true: git had written that patch to that repository, and it is the one
\* the artifact belongs to.
THEOREM AuditEventsAreTrue == RecoverySpec => []EvidenceIsTrue
  <1>1. EvidenceInv => EvidenceIsTrue
    BY DEF EvidenceInv
  <1> QED
    BY <1>1, RecoveryEvidence, PTL

\* A consumed artifact and an applied row are always backed by an audit
\* event, whether the owner or a recovery pass wrote them, in any number of
\* concurrent passes.
THEOREM SuccessIsBacked == RecoverySpec => []SuccessHasEvidence
  <1>1. EvidenceInv => SuccessHasEvidence
    BY DEF EvidenceInv
  <1> QED
    BY <1>1, RecoveryEvidence, PTL

-----------------------------------------------------------------------------
(***************************************************************************)
(* The artifact lock.  Lock files are removed by path, so exclusion rests   *)
(* on nobody removing a file that another one has created meanwhile.  For a *)
(* call that holds because its lock is not stale while its process runs;    *)
(* for a pass, between reading a stale lock and removing it, because no     *)
(* other pass can remove it first.  Two concurrent passes could, and the    *)
(* code has no lock between passes, so the theorems of this section are     *)
(* about behaviours in which passes, of whatever process, do not overlap.   *)
(***************************************************************************)
PassesApart ==
    \A p, q \in Reconcilers : rec[p].pc \notin {"off", "dead"} /\ rec[q].pc \notin {"off", "dead"}
                              => p = q

Gone == {"dead", "orphan_ready", "orphan_writing"}

LivesOn ==
    /\ \A w \in Workers : pc[w] \notin Gone => ProcOf[w] \in alive
    /\ \A q \in Reconcilers : rec[q].pc # "dead" => ProcOf[q] \in alive

PassLocks(q) ==
    /\ rec[q].pc = "unlink" => \A a \in rec[q].item : StaleLock(a)
    /\ rec[q].pc \in {"name", "consume", "unlock"} => \A a \in rec[q].item : lock[a].holder = q

LockInv ==
    /\ LivesOn
    /\ LockHeldInside
    /\ \A q \in Reconcilers : PassLocks(q)

LEMMA LockInvInit == RecoveryInit => LockInv
  BY PipelineAssumption, ActorAssumption, ReconcilerAssumption
  DEF RecoveryInit, PipelineInit, OSInit, LockInv, LivesOn, LockHeldInside, Locking, PassLocks,
      NothingYet

\* Calls and passes run in processes that are alive.
LEMMA LivesOnNext ==
    ASSUME Typed, LivesOn, [RecoveryNext]_crVars
    PROVE  LivesOn' /\ alive' \subseteq alive
  <1>1. PassTyped /\ OwnersKnown /\ WorkersTyped
    BY DEF Typed
  <1>2. ASSUME NEW w \in Workers, NEW k \in OpKeys, ReserveJob(w, k), UNCHANGED rec
        PROVE  LivesOn' /\ alive' = alive
    BY <1>1, <1>2 DEF ReserveJob, Goto, WorkersTyped, LivesOn
  <1>3. ASSUME NEW w \in Workers, WorkerStep(w) \/ OrphanGit(w), UNCHANGED rec
        PROVE  LivesOn' /\ alive' = alive
    <2>1. /\ pc' \in [Workers -> PC] /\ alive' = alive
          /\ \A v \in Workers \ {w} : pc'[v] = pc[v]
      BY <1>1, <1>3, OthersStay
    <2>2. pc[w] \in Gone => pc'[w] \in Gone
      BY <1>1, <1>3 DEF Gone, WorkersTyped, WorkerStep, OrphanGit, Goto, Return, BeginApplying, TakeLock,
      NameLock, LoadArtifact, CheckRepo, CheckUse, GitRefuses, GitStart, GitTorn, GitDone,
      WriteEvidence, DurableWriteFails, MarkConsumed, LeaveLock, Finish, InspectFailure,
      ReleaseFailed
    <2> QED
      BY <1>3, <2>1, <2>2 DEF LivesOn
  <1>4. ASSUME NEW q \in Reconcilers, StartPass(q) \/ PassStep(q)
        PROVE  LivesOn' /\ alive' = alive
    <2>1. UNCHANGED <<pc, alive>>
      BY <1>4, PassSteps
    <2>2. rec[q].pc # "dead"
      BY <1>4 DEF PassStep, StartPass, ListLocks, ReadLock, UnlinkLock, LeaveLocks, ListOperations,
         JudgeOperation, InspectOperation, SettleOperation, LeaveOperations, JudgeArtifact,
         LockForConsume, NameConsumeLock, ConsumeArtifact, UnlockConsumed, EndPass, At, OpenPass, GlobLocks, InspectLock, RemoveLock, PassGate
    <2>3. \A p \in Reconcilers \ {q} : rec'[p] = rec[p]
      BY <1>1, <1>4, PassTable DEF PassIs, PassStep
    <2> QED
      BY <2>1, <2>2, <2>3 DEF LivesOn
  <1>5. ASSUME NEW p \in Procs, ExitAll(p)
        PROVE  LivesOn' /\ alive' \subseteq alive
    BY <1>1, <1>5
    DEF ExitAll, ExitWorkers, ProcessExit, LivesOn, PCAfterExit, Gone, NothingYet
  <1>6. ASSUME UNCHANGED <<pc, alive, rec>>
        PROVE  LivesOn' /\ alive' = alive
    BY <1>6 DEF LivesOn
  <1> QED
    BY <1>2, <1>3, <1>4, <1>5, <1>6
    DEF RecoveryNext, PipelineStep, DevelopRepo, Expire, workerVars, crVars, plVars

\* Writing the pid into a lock file changes no holder.
LEMMA LockNamed ==
    ASSUME LocksTypeOK, NEW x, NEW n \in LockNames, WriteLock(x, n), NEW m \in LockNames
    PROVE  lock'[m].holder = lock[m].holder /\ (lock[m].written => lock'[m].written)
  <1> DEFINE b == IF lock[n].holder = x THEN TRUE ELSE lock[n].written
  <1>1. lock' = [lock EXCEPT ![n].written = b] /\ (lock[n].written => b)
    BY DEF WriteLock
  <1> HIDE DEF b
  <1>2. lock'[m].holder = lock[m].holder
    BY <1>1 DEF LocksTypeOK, LockFile
  <1>3. CASE m = n
    <2>1. lock'[n].written = b
      BY <1>1 DEF LocksTypeOK, LockFile
    <2> QED
      BY <1>1, <1>2, <1>3, <2>1
  <1>4. CASE m # n
    BY <1>1, <1>4 DEF LocksTypeOK, LockFile
  <1> QED
    BY <1>2, <1>3, <1>4

\* Lock files that somebody removes or creates.  Nobody removes the file of
\* a running call or pass but itself.
LEMMA LockTouched ==
    ASSUME Typed, LockInv, [RecoveryNext]_crVars, NEW a \in Artifacts
    PROVE  \/ lock'[a] = lock[a]
           \/ /\ lock[a] = NoLock
              /\ \/ \E w \in Workers : /\ pc[w] = "applying" /\ pc'[w] = "naming"
                                       /\ job[w][1] = a /\ lock'[a].holder = w
                 \/ \E q \in Reconcilers : /\ rec[q].pc = "lock" /\ rec'[q].pc = "name"
                                           /\ rec[q].item = {a} /\ lock'[a].holder = q
           \/ lock'[a].holder = lock[a].holder /\ (lock[a].written => lock'[a].written)
           \/ /\ lock'[a] = NoLock
              /\ \/ \E w \in Workers : LeaveLock(w) /\ job[w][1] = a
                 \/ \E q \in Reconcilers : /\ UnlinkLock(q) \/ UnlockConsumed(q)
                                           /\ rec[q].item = {a}
  <1>1. WorkersTyped /\ PassTyped /\ OwnersKnown /\ lock \in [Artifacts -> LockFile]
    BY ArtifactLocksAssumption DEF Typed, WorldTyped, ArtifactTypeOK, LocksTypeOK
  <1>2. ASSUME NEW w \in Workers, WorkerStep(w) \/ OrphanGit(w), lock'[a] # lock[a]
        PROVE  \/ /\ lock[a] = NoLock /\ pc[w] = "applying" /\ pc'[w] = "naming"
                  /\ job[w][1] = a /\ lock'[a].holder = w
               \/ lock'[a].holder = lock[a].holder /\ (lock[a].written => lock'[a].written)
               \/ lock'[a] = NoLock /\ LeaveLock(w) /\ job[w][1] = a
    <2>1. ArtifactOf(w) \in Artifacts /\ pc \in [Workers -> PC]
      BY <1>1, <1>2, OthersStay, JobParts DEF WorkersTyped
    <2>2. \/ pc[w] = "applying" /\ pc'[w] = "naming" /\ CreateLock(w, ArtifactOf(w))
          \/ NameLock(w) \/ LeaveLock(w)
      BY <1>1, <1>2, <2>1, WorldSteps
    <2>3. CASE NameLock(w)
      BY <1>1, <2>1, <2>3, LockNamed, ArtifactLocksAssumption DEF NameLock, LocksTypeOK
    <2>4. CASE ~NameLock(w)
      BY <1>1, <1>2, <2>1, <2>2, <2>4 DEF CreateLock, LeaveLock, Unlock, ArtifactOf
    <2> QED
      BY <2>3, <2>4
  <1>3. ASSUME NEW q \in Reconcilers, StartPass(q) \/ PassStep(q), lock'[a] # lock[a]
        PROVE  \/ /\ lock[a] = NoLock /\ rec[q].pc = "lock" /\ rec'[q].pc = "name"
                  /\ rec[q].item = {a} /\ lock'[a].holder = q
               \/ lock'[a].holder = lock[a].holder /\ (lock[a].written => lock'[a].written)
               \/ /\ lock'[a] = NoLock /\ (UnlinkLock(q) \/ UnlockConsumed(q))
                  /\ rec[q].item = {a}
    <2>1. \/ LockForConsume(q) /\ CreateLock(q, Item(q))
          \/ UnlinkLock(q) \/ NameConsumeLock(q) \/ UnlockConsumed(q)
      BY <1>3, PassSteps
    <2>2. PICK b \in Artifacts : rec[q].item = {b}
      BY <1>1, <2>1
      DEF LockForConsume, UnlinkLock, RemoveLock, NameConsumeLock, UnlockConsumed, At, AtArtifact, PassTyped
    <2>3. Item(q) = b
      BY <2>2, ItemOf
    <2>4. CASE LockForConsume(q) /\ CreateLock(q, b)
      <3>1. rec[q].pc = "lock" /\ rec'[q].pc = "name"
        BY <1>1, <1>3, <2>4, PassTable DEF LockForConsume, PassIs, At
      <3> QED
        BY <1>1, <1>3, <2>2, <2>4, <3>1 DEF CreateLock
    <2>5. CASE UnlinkLock(q) \/ UnlockConsumed(q)
      BY <1>1, <1>3, <2>2, <2>3, <2>5 DEF UnlinkLock, RemoveLock, UnlockConsumed, Unlock
    <2>6. CASE NameConsumeLock(q)
      BY <1>1, <2>3, <2>6, LockNamed, ArtifactLocksAssumption DEF NameConsumeLock, LocksTypeOK
    <2> QED
      BY <2>1, <2>3, <2>4, <2>5, <2>6
  <1>4. \/ lock' = lock
        \/ \E w \in Workers : WorkerStep(w) \/ OrphanGit(w)
        \/ \E q \in Reconcilers : StartPass(q) \/ PassStep(q)
    BY DEF RecoveryNext, PipelineStep, ReserveJob, DevelopRepo, Expire, ExitAll, ExitWorkers,
        artifactVars, crVars, plVars
  <1> QED
    BY <1>2, <1>3, <1>4

\* A running holder keeps its lock file until it removes it itself.
LEMMA HeldLockStays ==
    ASSUME Typed, LockInv, [RecoveryNext]_crVars, NEW a \in Artifacts, NEW x \in Actors,
           lock[a].holder = x, ProcOf[x] \in alive
    PROVE  \/ lock'[a].holder = x
           \/ x \in Workers /\ LeaveLock(x) /\ job[x][1] = a
           \/ x \in Reconcilers /\ UnlockConsumed(x) /\ rec[x].item = {a}
  <1>1. lock[a] # NoLock
    BY ActorAssumption DEF NoLock
  <1>2. ASSUME NEW w \in Workers, LeaveLock(w), job[w][1] = a
        PROVE  x = w
    BY <1>2 DEF LeaveLock, Goto, LockInv, LockHeldInside, Locking, ArtifactOf
  <1>3. ASSUME NEW q \in Reconcilers, UnlockConsumed(q), rec[q].item = {a}
        PROVE  x = q
    BY <1>3 DEF UnlockConsumed, At, LockInv, PassLocks
  <1>4. ASSUME NEW q \in Reconcilers, UnlinkLock(q), rec[q].item = {a}
        PROVE  FALSE
    BY <1>4 DEF UnlinkLock, RemoveLock, At, LockInv, PassLocks, StaleLock, OwnerActive
  <1> QED
    BY <1>1, <1>2, <1>3, <1>4, LockTouched

\* Entering the lock is the only way to be inside it.
LEMMA LockingSteps ==
    ASSUME Typed, [RecoveryNext]_crVars, NEW w \in Workers, Locking(w)'
    PROVE  /\ job'[w] = job[w]
           /\ \/ Locking(w) /\ ~LeaveLock(w)
              \/ CreateLock(w, ArtifactOf(w)) /\ job[w] \in OpKeys
  <1>1. WorkersTyped
    BY DEF Typed
  <1>2. ASSUME pc'[w] = pc[w], job'[w] = job[w]
        PROVE  Locking(w) /\ ~LeaveLock(w)
    BY <1>1, <1>2 DEF Locking, LeaveLock, Goto, WorkersTyped
  <1>3. ASSUME NEW v \in Workers, NEW k \in OpKeys, ReserveJob(v, k)
        PROVE  pc'[w] = pc[w] /\ job'[w] = job[w]
    BY <1>1, <1>3 DEF ReserveJob, Goto, WorkersTyped, Locking
  <1>4. ASSUME WorkerStep(w) \/ OrphanGit(w)
        PROVE  /\ job'[w] = job[w]
               /\ \/ Locking(w) /\ ~LeaveLock(w)
                  \/ CreateLock(w, ArtifactOf(w)) /\ job[w] \in OpKeys
    <2>1. job[w] \in OpKeys
      BY <1>1, <1>4, OthersStay, JobParts
    <2>2. job'[w] = job[w]
      BY <1>1, <1>4, OthersStay DEF Locking
    <2>3. Locking(w) \/ CreateLock(w, ArtifactOf(w))
      BY <1>1, <1>4 DEF Locking, WorkersTyped, WorkerStep, OrphanGit, Goto, Return, BeginApplying, TakeLock,
      NameLock, LoadArtifact, CheckRepo, CheckUse, GitRefuses, GitStart, GitTorn, GitDone,
      WriteEvidence, DurableWriteFails, MarkConsumed, LeaveLock, Finish, InspectFailure,
      ReleaseFailed
    <2>4. LeaveLock(w) => ~Locking(w)'
      BY <1>1 DEF LeaveLock, Goto, Locking, WorkersTyped
    <2> QED
      BY <2>1, <2>2, <2>3, <2>4
  <1>5. ASSUME NEW v \in Workers, v # w, WorkerStep(v) \/ OrphanGit(v)
        PROVE  pc'[w] = pc[w] /\ job'[w] = job[w]
    BY <1>1, <1>5, OthersStay
  <1>6. ASSUME NEW q \in Reconcilers, StartPass(q) \/ PassStep(q)
        PROVE  pc'[w] = pc[w] /\ job'[w] = job[w]
    BY <1>6, PassSteps
  <1>7. ASSUME NEW p \in Procs, ExitAll(p)
        PROVE  pc'[w] = pc[w] /\ job'[w] = job[w]
    BY <1>7 DEF ExitAll, ExitWorkers, PCAfterExit, Locking
  <1> QED
    BY <1>2, <1>3, <1>4, <1>5, <1>6, <1>7
    DEF RecoveryNext, PipelineStep, DevelopRepo, Expire, workerVars, crVars, plVars

LEMMA LockHeldInsideNext ==
    ASSUME Typed, LockInv, [RecoveryNext]_crVars
    PROVE  LockHeldInside'
  <1> SUFFICES ASSUME NEW w \in Workers, Locking(w)' PROVE lock'[job'[w][1]].holder = w
    BY DEF LockHeldInside, ArtifactOf
  <1>1. /\ w \in Actors /\ w \notin Reconcilers
        /\ job'[w] = job[w]
        /\ \/ Locking(w) /\ ~LeaveLock(w)
           \/ CreateLock(w, ArtifactOf(w)) /\ job[w] \in OpKeys
    BY LockingSteps, PipelineAssumption, RecoveryAssumption
  <1>2. CASE CreateLock(w, ArtifactOf(w)) /\ job[w] \in OpKeys
    BY <1>1, <1>2, ArtifactLocksAssumption
    DEF CreateLock, ArtifactOf, OpKeys, Typed, WorldTyped, ArtifactTypeOK, LocksTypeOK
  <1>3. CASE Locking(w) /\ ~LeaveLock(w)
    <2>1. ArtifactOf(w) \in Artifacts
      BY <1>3, JobParts DEF Typed, Active, Locking
    <2>2. lock[ArtifactOf(w)].holder = w /\ ProcOf[w] \in alive
      BY <1>3 DEF LockInv, LockHeldInside, LivesOn, Gone, Locking
    <2> QED
      BY <1>1, <1>3, <2>1, <2>2, HeldLockStays DEF ArtifactOf
  <1> QED
    BY <1>1, <1>2, <1>3

LEMMA PassLocksNext ==
    ASSUME Typed, LockInv, PassesApart, [RecoveryNext]_crVars, NEW p \in Reconcilers
    PROVE  PassLocks(p)'
  <1>1. PassTyped /\ OwnersKnown /\ alive' \subseteq alive /\ lock \in [Artifacts -> LockFile]
    BY LivesOnNext, ArtifactLocksAssumption DEF Typed, LockInv, WorldTyped, ArtifactTypeOK, LocksTypeOK
  <1>2. p \in Actors /\ p \notin Workers
    BY ReconcilerAssumption, RecoveryAssumption
  <1>3. ASSUME NEW a \in Artifacts, rec[p].pc = "unlink", rec[p].item = {a}, ~UnlinkLock(p)
        PROVE  StaleLock(a)'
    <2>1. StaleLock(a)
      BY <1>3 DEF LockInv, PassLocks
    <2>2. lock[a] # NoLock
      BY <2>1 DEF StaleLock, NoLock
    <2>3. ASSUME NEW w \in Workers, LeaveLock(w), job[w][1] = a
          PROVE  FALSE
      BY <2>1, <2>3
      DEF LeaveLock, Goto, LockInv, LockHeldInside, LivesOn, Gone, Locking, ArtifactOf, StaleLock, OwnerActive
    <2>4. ASSUME NEW q \in Reconcilers, UnlinkLock(q) \/ UnlockConsumed(q)
          PROVE  FALSE
      BY <1>3, <2>4 DEF PassesApart, UnlinkLock, RemoveLock, UnlockConsumed, At
    <2>5. lock'[a].holder = lock[a].holder /\ lock'[a].written
      BY <2>1, <2>2, <2>3, <2>4, LockTouched DEF StaleLock
    <2> QED
      BY <1>1, <2>1, <2>5 DEF StaleLock, OwnerActive
  <1>4. ASSUME NEW a \in Artifacts, rec[p].pc \in {"name", "consume"}, rec[p].item = {a}
        PROVE  lock'[a].holder = p
    <2>1. lock[a].holder = p /\ ProcOf[p] \in alive
      BY <1>4 DEF LockInv, LivesOn, PassLocks
    <2> QED
      BY <1>2, <1>4, <2>1, HeldLockStays DEF UnlockConsumed, At
  <1>5. ASSUME NEW a \in Artifacts, rec[p].pc = "unlock", rec[p].item = {a}, ~UnlockConsumed(p)
        PROVE  lock'[a].holder = p
    <2>1. lock[a].holder = p /\ ProcOf[p] \in alive
      BY <1>5 DEF LockInv, LivesOn, PassLocks
    <2> QED
      BY <1>2, <1>5, <2>1, HeldLockStays
  <1>6. ASSUME rec'[p] = rec[p], ~UnlinkLock(p), ~UnlockConsumed(p)
        PROVE  PassLocks(p)'
    <2>1. rec[p].pc \in AtArtifact => \E a \in Artifacts : rec[p].item = {a}
      BY <1>1 DEF PassTyped
    <2> QED
      BY <1>3, <1>4, <1>5, <1>6, <2>1 DEF PassLocks, AtArtifact
  <1>7. ASSUME StartPass(p) \/ PassStep(p)
        PROVE  PassLocks(p)'
    <2>1. CASE ReadLock(p)
      <3>1. PICK n \in rec[p].todo : \/ /\ PassIs(p, "unlink", rec[p].todo \ {n}, {n})
                                        /\ lock[n] # NoLock /\ StaleLock(n)
                                     \/ PassIs(p, "locks", rec[p].todo \ {n}, rec[p].item)
        BY <1>1, <2>1, PassTable
      <3>2. lock' = lock
        BY <2>1 DEF ReadLock, InspectLock
      <3> QED
        BY <1>1, <3>1, <3>2 DEF PassIs, PassLocks, StaleLock, OwnerActive
    <2>2. CASE LockForConsume(p)
      <3>1. PICK a \in Artifacts : rec[p].item = {a}
        BY <1>1, <2>2 DEF LockForConsume, At, PassTyped, AtArtifact
      <3>2. Item(p) = a
        BY <3>1, ItemOf
      <3> QED
        BY <1>1, <2>2, <3>1, <3>2, PassTable DEF PassIs, PassLocks, CreateLock
    <2>3. CASE NameConsumeLock(p) \/ ConsumeArtifact(p)
      <3>1. PICK a \in Artifacts : rec[p].item = {a}
        BY <1>1, <2>3 DEF NameConsumeLock, ConsumeArtifact, At, PassTyped, AtArtifact
      <3>2. rec'[p].pc \in {"consume", "unlock"} /\ rec'[p].item = {a}
        BY <1>1, <2>3, <3>1, PassTable DEF PassIs
      <3>3. lock'[a].holder = p
        BY <1>4, <2>3, <3>1 DEF NameConsumeLock, ConsumeArtifact, At
      <3> QED
        BY <3>2, <3>3 DEF PassLocks
    <2>4. CASE ~ReadLock(p) /\ ~LockForConsume(p) /\ ~NameConsumeLock(p) /\ ~ConsumeArtifact(p)
      <3>1. rec'[p].pc \notin {"unlink", "name", "consume", "unlock"}
        BY <1>1, <1>7, <2>4, PassTable DEF PassIs, PassStep, JudgeOperation, JudgeArtifact
      <3> QED
        BY <3>1 DEF PassLocks
    <2> QED
      BY <2>1, <2>2, <2>3, <2>4
  <1>8. ASSUME NEW x \in Procs, ExitAll(x)
        PROVE  PassLocks(p)'
    <2>1. rec'[p] = rec[p] \/ rec'[p].pc = "dead"
      BY <1>8 DEF ExitAll, NothingYet
    <2>2. ~UnlinkLock(p) /\ ~UnlockConsumed(p) 
      BY <1>8 DEF ExitAll, ExitWorkers, ProcessExit, UnlinkLock, UnlockConsumed, ArtifactsIdle, PipelineIdle
    <2> QED
      BY <1>6, <2>1, <2>2 DEF PassLocks
  <1>9. ASSUME UNCHANGED rec
        PROVE  PassLocks(p)'
    <2>1. ~UnlinkLock(p) /\ ~UnlockConsumed(p)
      BY <1>1, <1>9, PassTable DEF UnlinkLock, RemoveLock, UnlockConsumed, At, PassIs
    <2> QED
      BY <1>6, <1>9, <2>1
  <1>10. ASSUME NEW q \in Reconcilers, StartPass(q) \/ PassStep(q)
         PROVE  PassLocks(p)'
    <2>1. CASE p # q
      <3>1. rec'[p] = rec[p]
        BY <1>1, <1>10, <2>1, PassTable DEF PassIs, PassStep
      <3>2. ~UnlinkLock(p) /\ ~UnlockConsumed(p)
        BY <1>1, <3>1, PassTable DEF UnlinkLock, RemoveLock, UnlockConsumed, At, PassIs
      <3> QED
        BY <1>6, <3>1, <3>2
    <2> QED
      BY <1>7, <1>10, <2>1
  <1> QED
    BY <1>8, <1>9, <1>10 DEF RecoveryNext, crVars

\* Lock files, the calls inside _artifact_lock and the pass that sweeps stale
\* locks agree, as long as recovery passes do not overlap: a pass that is about
\* to remove a lock file by its path never has the file of a live call before it.
THEOREM RecoveryLocks == RecoverySpec /\ []PassesApart => []LockInv
  <1>1. Typed /\ LockInv /\ PassesApart /\ [RecoveryNext]_crVars => LockInv'
    BY LivesOnNext, LockHeldInsideNext, PassLocksNext DEF LockInv
  <1> QED
    BY <1>1, LockInvInit, RecoveryTyped, PTL DEF RecoverySpec

\* While a call is inside _artifact_lock, the lock file on disk is its own,
\* as long as recovery passes do not overlap.
THEOREM LockIsExclusive == RecoverySpec /\ []PassesApart => []LockHeldInside
  <1>1. LockInv => LockHeldInside
    BY DEF LockInv
  <1> QED
    BY <1>1, RecoveryLocks, PTL

-----------------------------------------------------------------------------
(***************************************************************************)
(* Recovery and the workers implement ApplyOnce.  Between its search of the *)
(* audit log (CheckUse) and its own event, a call is inside the artifact    *)
(* lock, so nobody else can write an event for its artifact: what it read   *)
(* is still true when git starts to write and when the event is written.    *)
(***************************************************************************)
StillFresh ==
    \A w \in Workers : pc[w] \in {"ready", "writing", "patched"} => ~HasEvidence(ArtifactOf(w))

\* Two calls inside the lock of one artifact are one call.
LEMMA OneInside ==
    ASSUME LockHeldInside, NEW v \in Workers, NEW w \in Workers,
           Locking(v), Locking(w), ArtifactOf(v) = ArtifactOf(w)
    PROVE  v = w
  BY DEF LockHeldInside

LEMMA StillFreshInit == RecoveryInit => StillFresh
  BY DEF RecoveryInit, PipelineInit, StillFresh

LEMMA StillFreshNext ==
    ASSUME Typed, LockHeldInside, StillFresh, [RecoveryNext]_crVars
    PROVE  StillFresh'
  <1>1. WorkersTyped /\ evidence \subseteq OpKeys
    BY DEF Typed, WorldTyped
  <1> SUFFICES ASSUME NEW w \in Workers, pc'[w] \in {"ready", "writing", "patched"}
               PROVE  ~HasEvidence(ArtifactOf(w))'
    BY DEF StillFresh
  <1>2. Locking(w)'
    BY DEF Locking
  <1>3. job'[w] = job[w]
    BY <1>2, LockingSteps
  <1>4. /\ ~HasEvidence(ArtifactOf(w))
        /\ Locking(w) /\ ~WriteEvidence(w)
    <2>1. CASE pc'[w] = pc[w]
      BY <1>1, <2>1 DEF StillFresh, Locking, WriteEvidence, Goto, WorkersTyped
    <2>2. CASE WorkerStep(w) \/ OrphanGit(w)
      <3>1. CASE CheckUse(w)
        BY <1>1, <3>1 DEF CheckUse, Goto, Locking, WriteEvidence, WorkersTyped
      <3>2. CASE ~CheckUse(w)
        <4>1. pc[w] \in {"ready", "writing", "patched"} /\ pc'[w] # "audited"
          BY <1>1, <2>2, <3>2 DEF WorkersTyped, WorkerStep, OrphanGit, Goto, Return, BeginApplying,
             TakeLock, NameLock, LoadArtifact, CheckRepo, CheckUse, GitRefuses, GitStart, GitTorn,
             GitDone, WriteEvidence, DurableWriteFails, MarkConsumed, LeaveLock, Finish,
             InspectFailure, ReleaseFailed
        <4> QED
          BY <1>1, <4>1 DEF StillFresh, Locking, WriteEvidence, Goto, WorkersTyped
      <3> QED
        BY <3>1, <3>2
    <2>3. pc'[w] = pc[w] \/ WorkerStep(w) \/ OrphanGit(w)
      <3>1. ASSUME NEW v \in Workers, v # w, WorkerStep(v) \/ OrphanGit(v)
            PROVE  pc'[w] = pc[w]
        BY <1>1, <3>1, OthersStay
      <3>2. ASSUME NEW v \in Workers, NEW k \in OpKeys, ReserveJob(v, k)
            PROVE  pc'[w] = pc[w]
        BY <1>1, <3>2 DEF ReserveJob, Goto, WorkersTyped
      <3>3. ASSUME NEW p \in Procs, ExitAll(p)
            PROVE  pc'[w] = pc[w]
        BY <3>3 DEF ExitAll, ExitWorkers, PCAfterExit
      <3>4. ASSUME NEW q \in Reconcilers, StartPass(q) \/ PassStep(q)
            PROVE  pc'[w] = pc[w]
        BY <3>4, PassSteps
      <3> QED
        BY <3>1, <3>2, <3>3, <3>4
        DEF RecoveryNext, PipelineStep, DevelopRepo, Expire, workerVars, crVars, plVars
    <2> QED
      BY <2>1, <2>2, <2>3
  <1>5. \/ evidence' = evidence
        \/ \E v \in Workers : WriteEvidence(v)
    BY WorldSteps, PassSteps
    DEF RecoveryNext, PipelineStep, ReserveJob, DevelopRepo, Expire, ExitAll, ExitWorkers, worldVars,
        crVars, plVars
  <1>6. ASSUME NEW v \in Workers, WriteEvidence(v)
        PROVE  ArtifactOf(v) # ArtifactOf(w)
    BY <1>4, <1>6, OneInside DEF WriteEvidence, Goto, Locking
  <1>7. \A r \in Repos : <<ArtifactOf(w), r>> \notin evidence'
    BY <1>1, <1>4, <1>5, <1>6 DEF WriteEvidence, HasEvidence, ArtifactOf
  <1> QED
    BY <1>3, <1>7 DEF HasEvidence, ArtifactOf

\* What a call of apply_artifact read before it took the lock (that nothing
\* was recorded for its artifact) is still true when git writes, as long as
\* recovery passes do not overlap.
THEOREM RecoveryStillFresh == RecoverySpec /\ []PassesApart => []StillFresh
  <1>1. Typed /\ LockHeldInside /\ StillFresh /\ [RecoveryNext]_crVars => StillFresh'
    BY StillFreshNext
  <1> QED
    BY <1>1, StillFreshInit, LockIsExclusive, RecoveryTyped, PTL DEF RecoverySpec

\* The refinement mapping of Once, by name.
AbsRecord == [a \in Artifacts |-> IF artifact[a] = "consumed" THEN "spent"
                                  ELSE IF HasEvidence(a) THEN "recorded" ELSE "open"]
AbsWriting == {ArtifactOf(w) : w \in {v \in Workers : pc[v] = "writing"}}
AbsWritten == {k[1] : k \in history}
AbsTold == [k \in OpKeys |-> IF operations[k].state \in {"applied", "failed"}
                             THEN operations[k].state ELSE "nothing"]

LEMMA OnceInit == RecoveryInit => Once!AOInit
  BY DEF RecoveryInit, PipelineInit, OSInit, StoreInit, NoOperation, HasEvidence, Once!AOInit, OpKeys

LEMMA OnceStutter ==
    ASSUME UNCHANGED <<AbsRecord, AbsWriting, AbsWritten, AbsTold>>
    PROVE  UNCHANGED Once!aoVars
  BY DEF AbsRecord, AbsWriting, AbsWritten, AbsTold, Once!aoVars

\* The artifacts being written are as before when no call starts or stops
\* writing.
LEMMA WritingStays ==
    ASSUME WorkersTyped,
           \A v \in Workers : pc'[v] = "writing" <=> pc[v] = "writing",
           \A v \in Workers : pc[v] = "writing" => job'[v] = job[v]
    PROVE  AbsWriting' = AbsWriting
  BY DEF AbsWriting, ArtifactOf

LEMMA RecordStays ==
    ASSUME artifact' = artifact, evidence' = evidence
    PROVE  AbsRecord' = AbsRecord
  BY DEF AbsRecord, HasEvidence

LEMMA ToldStays ==
    ASSUME operations' = operations
    PROVE  AbsTold' = AbsTold
  BY DEF AbsTold

\* Steps that conclude an operation, or take one up again.
LEMMA OnceTell ==
    ASSUME Typed, NEW k \in OpKeys, NEW what \in {"nothing", "failed", "applied"},
           operations[k].state # "applied",
           what = "applied" => HasEvidence(k[1]),
           \A j \in OpKeys \ {k} : operations'[j] = operations[j],
           what = "nothing" => operations'[k].state \notin {"failed", "applied"},
           what # "nothing" => operations'[k].state = what,
           UNCHANGED <<AbsRecord, AbsWriting, AbsWritten>>
    PROVE  Once!AONext
  <1>1. AbsTold[k] # "applied"
    BY DEF AbsTold
  <1>2. AbsTold' = [AbsTold EXCEPT ![k] = what]
    BY DEF AbsTold
  <1>3. what = "applied" => AbsRecord[k[1]] # "open"
    BY DEF AbsRecord, OpKeys
  <1>4. Once!Tell(k, what)
    BY <1>1, <1>2, <1>3 DEF Once!Tell, AbsRecord, AbsWriting, AbsWritten, AbsTold
  <1> QED
    BY <1>4 DEF Once!AONext, OpKeys

LEMMA OnceSpend ==
    ASSUME Typed, NEW a \in Artifacts, HasEvidence(a), Consume(a), evidence' = evidence,
           UNCHANGED <<AbsWriting, AbsWritten, AbsTold>>
    PROVE  [Once!AONext]_Once!aoVars
  <1>1. artifact \in [Artifacts -> ArtifactState]
    BY DEF Typed, WorldTyped, ArtifactTypeOK
  <1>2. CASE artifact[a] = "consumed"
    <2>1. artifact' = artifact
      BY <1>1, <1>2 DEF Consume
    <2> QED
      BY <2>1, RecordStays, OnceStutter
  <1>3. CASE artifact[a] # "consumed"
    <2>1. AbsRecord[a] = "recorded"
      BY <1>3 DEF AbsRecord
    <2>2. AbsRecord' = [AbsRecord EXCEPT ![a] = "spent"]
      BY <1>1 DEF AbsRecord, HasEvidence, Consume
    <2>3. Once!Spend(a)
      BY <2>1, <2>2 DEF Once!Spend, AbsRecord, AbsWriting, AbsWritten, AbsTold
    <2> QED
      BY <2>3 DEF Once!AONext
  <1> QED
    BY <1>2, <1>3

\* Writing ends for some of the artifacts, some of them complete.
LEMMA OnceEndWrites ==
    ASSUME AbsWriting' \subseteq AbsWriting, NEW W \in SUBSET (AbsWriting \ AbsWriting'),
           AbsWritten' = AbsWritten \cup W,
           UNCHANGED <<AbsRecord, AbsTold>>
    PROVE  Once!AONext
  <1>1. Once!EndWrites
    BY DEF Once!EndWrites, AbsRecord, AbsWriting, AbsWritten, AbsTold
  <1> QED
    BY <1>1 DEF Once!AONext

LEMMA OnceArtifact ==
    ASSUME NEW a \in Artifacts, Once!StartWrite(a) \/ Once!LateWrite(a) \/ Once!Record(a)
    PROVE  Once!AONext
  BY DEF Once!AONext

\* Every step of a call, or of the git child it left behind, is a step of
\* ApplyOnce or no step of it at all.
LEMMA OnceWorker ==
    ASSUME Typed, EvidenceInv, LockHeldInside, StillFresh,
           NEW w \in Workers, WorkerStep(w) \/ OrphanGit(w)
    PROVE  [Once!AONext]_Once!aoVars
  <1> PICK a \in Artifacts : a = ArtifactOf(w)
    BY OthersStay, JobParts DEF Typed
  <1>1. /\ WorkersTyped /\ a \in Artifacts /\ job[w] \in OpKeys
        /\ operations \in [OpKeys -> OperationRecord]
        /\ pc' \in [Workers -> PC]
        /\ \A v \in Workers \ {w} : pc'[v] = pc[v] /\ job'[v] = job[v]
        /\ pc[w] = "writing" => job'[w] = job[w]
    <2>1. WorkersTyped /\ operations \in [OpKeys -> OperationRecord]
      BY DEF Typed, StoreInv, OSTypeOK
    <2>2. pc[w] = "writing" => job'[w] = job[w]
      BY DEF WorkerStep, OrphanGit, Goto, Return, KeepJob, BeginApplying, TakeLock, NameLock,
         LoadArtifact, CheckRepo, CheckUse, GitRefuses, GitStart, GitTorn, GitDone, WriteEvidence,
         DurableWriteFails, MarkConsumed, LeaveLock, Finish, InspectFailure, ReleaseFailed
    <2> QED
      BY <2>1, <2>2, OthersStay, JobParts
  <1>2. ASSUME pc'[w] = "writing" <=> pc[w] = "writing"
        PROVE  AbsWriting' = AbsWriting
    BY <1>1, <1>2, WritingStays
  <1>3. CASE GitStart(w)
    <2>1. pc[w] = "ready" /\ pc' = [pc EXCEPT ![w] = "writing"] /\ job' = job
      BY <1>3 DEF GitStart, Goto, KeepJob
    <2>2. AbsWriting' = AbsWriting \cup {a}
      BY <1>1, <2>1 DEF AbsWriting, ArtifactOf, WorkersTyped
    <2>3. AbsRecord[a] = "open"
      BY <1>1, <2>1 DEF AbsRecord, StillFresh, EvidenceInv, SuccessHasEvidence
    <2>4. UNCHANGED <<AbsRecord, AbsWritten, AbsTold>>
      BY <1>3, RecordStays, ToldStays DEF GitStart, artifactVars, storeVars, AbsWritten
    <2>5. Once!StartWrite(a)
      BY <2>2, <2>3, <2>4 DEF Once!StartWrite, AbsRecord, AbsWriting, AbsWritten, AbsTold
    <2> QED
      BY <1>1, <2>5, OnceArtifact
  <1>4. CASE GitDone(w)
    <2>1. /\ pc[w] = "writing" /\ pc' = [pc EXCEPT ![w] = "patched"] /\ job' = job
          /\ history' = history \cup {job[w]}
      BY <1>4 DEF GitDone, Goto, KeepJob
    <2>2. \A v \in Workers \ {w} : pc[v] = "writing" => ArtifactOf(v) # a
      BY <2>1, OneInside DEF Locking
    <2>3. AbsWriting' \subseteq AbsWriting /\ a \in AbsWriting /\ a \notin AbsWriting'
      BY <1>1, <2>1, <2>2 DEF AbsWriting, ArtifactOf, WorkersTyped
    <2>4. AbsWritten' = AbsWritten \cup {a}
      BY <2>1 DEF AbsWritten, ArtifactOf
    <2>5. UNCHANGED <<AbsRecord, AbsTold>>
      BY <1>4, RecordStays, ToldStays DEF GitDone, artifactVars, storeVars
    <2> QED
      BY <2>3, <2>4, <2>5, OnceEndWrites
  <1>5. CASE GitTorn(w)
    <2>1. pc[w] = "writing" /\ pc' = [pc EXCEPT ![w] = "unwinding"] /\ job' = job
      BY <1>5 DEF GitTorn, Goto, KeepJob
    <2>2. AbsWriting' \subseteq AbsWriting
      BY <1>1, <2>1 DEF AbsWriting, ArtifactOf, WorkersTyped
    <2>3. AbsWritten' = AbsWritten \cup {}
      BY <1>5 DEF GitTorn, AbsWritten, worldVars
    <2>4. UNCHANGED <<AbsRecord, AbsTold>>
      BY <1>5, RecordStays, ToldStays DEF GitTorn, artifactVars, storeVars, worldVars
    <2> QED
      BY <2>2, <2>3, <2>4, OnceEndWrites
  <1>6. CASE WriteEvidence(w)
    <2>1. /\ pc[w] = "patched" /\ pc' = [pc EXCEPT ![w] = "audited"] /\ job' = job
          /\ evidence' = evidence \cup {job[w]}
          /\ UNCHANGED <<artifact, history, operations>>
      BY <1>6 DEF WriteEvidence, Goto, KeepJob, artifactVars, storeVars
    <2>2. AbsWriting' = AbsWriting
      BY <1>1, <1>2, <2>1 DEF WorkersTyped
    <2>3. a \in AbsWritten \ AbsWriting
      <3>1. job[w] \in history
        BY <2>1 DEF EvidenceInv, CallKnows
      <3>2. \A v \in Workers : pc[v] = "writing" => ArtifactOf(v) # a
        BY <2>1, OneInside DEF Locking
      <3> QED
        BY <3>1, <3>2 DEF AbsWritten, AbsWriting, ArtifactOf
    <2>4. AbsRecord[a] = "open"
      BY <1>1, <2>1 DEF AbsRecord, StillFresh, EvidenceInv, SuccessHasEvidence
    <2>5. AbsRecord' = [AbsRecord EXCEPT ![a] = "recorded"]
      <3>1. \A b \in Artifacts : HasEvidence(b)' <=> HasEvidence(b) \/ b = a
        <4>1. job[w] = <<a, TargetOf(w)>> /\ TargetOf(w) \in Repos
          BY <1>1, <2>1, JobParts DEF Active
        <4>2. ASSUME NEW b \in Artifacts, NEW r \in Repos
              PROVE  <<b, r>> \in evidence' <=> <<b, r>> \in evidence \/ (b = a /\ r = TargetOf(w))
          BY <2>1, <4>1
        <4> QED
          BY <4>1, <4>2 DEF HasEvidence
      <3>2. artifact[a] # "consumed"
        BY <1>1, <2>1 DEF StillFresh, EvidenceInv, SuccessHasEvidence
      <3> QED
        BY <1>1, <2>1, <3>1, <3>2 DEF AbsRecord
    <2>6. UNCHANGED <<AbsWritten, AbsTold>>
      BY <2>1, ToldStays DEF AbsWritten
    <2>7. Once!Record(a)
      BY <2>2, <2>3, <2>4, <2>5, <2>6 DEF Once!Record, AbsRecord, AbsWriting, AbsWritten, AbsTold
    <2> QED
      BY <1>1, <2>7, OnceArtifact
  <1>7. CASE MarkConsumed(w)
    <2>1. /\ pc[w] = "audited" /\ pc' = [pc EXCEPT ![w] = "consumed"]
          /\ UNCHANGED <<history, operations, evidence>> /\ Consume(a)
      BY <1>7 DEF MarkConsumed, Goto, storeVars, worldVars
    <2>2. HasEvidence(a)
      BY <2>1, JobHasEvidence DEF EvidenceInv, CallKnows, ArtifactOf
    <2>3. UNCHANGED <<AbsWriting, AbsWritten, AbsTold>>
      BY <1>1, <1>2, <2>1, ToldStays DEF AbsWritten, WorkersTyped
    <2> QED
      BY <1>1, <2>1, <2>2, <2>3, OnceSpend
  <1>8. CASE OrphanGit(w)
    <2>1. UNCHANGED <<AbsRecord, AbsTold>>
      BY <1>8, RecordStays, ToldStays DEF OrphanGit, artifactVars, storeVars
    <2>2. AbsWriting' = AbsWriting
      BY <1>1, <1>2, <1>8 DEF OrphanGit, Goto, WorkersTyped
    <2>3. CASE history' = history
      BY <2>1, <2>2, <2>3, OnceStutter DEF AbsWritten
    <2>4. CASE history' = history \cup {job[w]}
      <3>1. AbsWritten' = AbsWritten \cup {a}
        BY <2>4 DEF AbsWritten, ArtifactOf
      <3>2. Once!LateWrite(a)
        BY <2>1, <2>2, <3>1 DEF Once!LateWrite, AbsRecord, AbsWriting, AbsWritten, AbsTold
      <3> QED
        BY <1>1, <3>2, OnceArtifact
    <2> QED
      BY <1>8, <2>3, <2>4 DEF OrphanGit
  <1>9. CASE WorkerStep(w) /\ ~GitStart(w) /\ ~GitDone(w) /\ ~GitTorn(w) /\ ~WriteEvidence(w)
             /\ ~MarkConsumed(w)
    <2>1. pc[w] # "writing" /\ pc'[w] # "writing"
      BY <1>1, <1>9 DEF WorkersTyped, WorkerStep, Goto, Return, BeginApplying, TakeLock, NameLock,
         LoadArtifact, CheckRepo, CheckUse, GitRefuses, DurableWriteFails, LeaveLock, Finish,
         InspectFailure, ReleaseFailed
    <2>2. UNCHANGED <<artifact, evidence, history>>
      BY <1>9 DEF WorkerStep, BeginApplying, TakeLock, NameLock,
         LoadArtifact, CheckRepo, CheckUse, GitRefuses, DurableWriteFails, LeaveLock, Finish,
         InspectFailure, ReleaseFailed, artifactVars, worldVars
    <2>3. UNCHANGED <<AbsRecord, AbsWriting, AbsWritten>>
      BY <1>2, <2>1, <2>2, RecordStays DEF AbsWritten
    <2>4. CASE UNCHANGED storeVars
      BY <2>3, <2>4, OnceStutter, ToldStays DEF storeVars
    <2>5. CASE MarkApplying(job[w], token[w])
      <3>1. /\ operations[job[w]].state = "reserved" /\ operations'[job[w]].state = "applying"
            /\ \A j \in OpKeys \ {job[w]} : operations'[j] = operations[j]
        BY <1>1, <2>5 DEF MarkApplying, Owns, OperationRecord
      <3> QED
        BY <1>1, <2>3, <3>1, OnceTell
    <2>6. CASE pc[w] = "finishing" /\ MarkApplied(job[w], token[w])
      <3>1. /\ operations[job[w]].state = "applying" /\ operations'[job[w]].state = "applied"
            /\ \A j \in OpKeys \ {job[w]} : operations'[j] = operations[j]
        BY <1>1, <2>6 DEF MarkApplied, Owns, OperationRecord
      <3>2. HasEvidence(job[w][1])
        BY <2>6, JobHasEvidence DEF EvidenceInv, CallKnows
      <3> QED
        BY <1>1, <2>3, <3>1, <3>2, OnceTell
    <2>7. CASE MarkFailed(job[w], token[w])
      <3>1. /\ operations[job[w]].state = "applying" /\ operations'[job[w]].state = "failed"
            /\ \A j \in OpKeys \ {job[w]} : operations'[j] = operations[j]
        BY <1>1, <2>7 DEF MarkFailed, Owns, OperationRecord
      <3> QED
        BY <1>1, <2>3, <3>1, OnceTell
    <2> QED
      BY <1>9, <2>4, <2>5, <2>6, <2>7, StoreSteps
  <1> QED
    BY <1>3, <1>4, <1>5, <1>6, <1>7, <1>8, <1>9

LEMMA OncePass ==
    ASSUME Typed, EvidenceInv, NEW q \in Reconcilers, StartPass(q) \/ PassStep(q)
    PROVE  [Once!AONext]_Once!aoVars
  <1>1. UNCHANGED <<pc, job, evidence, history>>
    BY PassSteps
  <1>2. UNCHANGED <<AbsWriting, AbsWritten>> /\ operations \in [OpKeys -> OperationRecord]
    BY <1>1, WritingStays DEF AbsWritten, Typed, StoreInv, OSTypeOK
  <1>3. CASE ConsumeArtifact(q)
    <2>1. PICK a \in Artifacts : rec[q].item = {a}
      BY <1>3 DEF ConsumeArtifact, At, Typed, PassTyped, AtArtifact
    <2>2. Item(q) = a /\ HasEvidence(a)
      BY <1>3, <2>1, ItemOf DEF ConsumeArtifact, At, EvidenceInv, PassKnows
    <2>3. UNCHANGED AbsTold
      BY <1>3, ToldStays DEF ConsumeArtifact, PipelineIdle, storeVars
    <2>4. CASE artifact' = artifact
      BY <1>1, <1>2, <2>3, <2>4, RecordStays, OnceStutter
    <2>5. CASE Consume(a)
      BY <1>1, <1>2, <2>2, <2>3, <2>5, OnceSpend
    <2> QED
      BY <1>3, <2>2, <2>4, <2>5 DEF ConsumeArtifact
  <1>4. CASE SettleOperation(q) /\ ~ UNCHANGED storeVars
    <2>1. PICK op \in ListedOp : rec[q].item = {op}
      BY <1>4 DEF SettleOperation, At, Typed, PassTyped, AtOperation
    <2>2. /\ Item(q) = op /\ op.key \in OpKeys
          /\ At(q, "settle_applied") => HasEvidence(op.key[1])
      BY <2>1, ItemOf DEF At, EvidenceInv, PassKnows, ListedOp
    <2>3. PICK next \in {"applied", "failed"} :
              RecoverTerminal(op.key, next) /\ (next = "applied" => At(q, "settle_applied"))
      BY <1>4, <2>2 DEF SettleOperation
    <2>4. /\ operations[op.key].state # "applied"
          /\ operations'[op.key].state = next
          /\ \A j \in OpKeys \ {op.key} : operations'[j] = operations[j]
      BY <1>2, <2>2, <2>3 DEF RecoverTerminal, OperationRecord, Incomplete
    <2>5. UNCHANGED AbsRecord
      BY <1>1, <1>4, RecordStays DEF SettleOperation, artifactVars
    <2> QED
      BY <1>2, <2>2, <2>3, <2>4, <2>5, OnceTell
  <1>5. CASE artifact' = artifact /\ UNCHANGED storeVars
    BY <1>1, <1>2, <1>5, RecordStays, ToldStays, OnceStutter DEF storeVars
  <1>6. SettleOperation(q) => artifact' = artifact
    BY DEF SettleOperation, artifactVars
  <1> QED
    BY <1>3, <1>4, <1>5, <1>6, PassSteps

LEMMA OnceNext ==
    ASSUME Typed, EvidenceInv, LockHeldInside, StillFresh, [RecoveryNext]_crVars
    PROVE  [Once!AONext]_Once!aoVars
  <1>1. WorkersTyped /\ operations \in [OpKeys -> OperationRecord]
    BY DEF Typed, StoreInv, OSTypeOK
  <1>2. ASSUME NEW w \in Workers, NEW k \in OpKeys, ReserveJob(w, k)
        PROVE  Once!AONext
    <2>1. UNCHANGED <<artifact, evidence, history>>
      BY <1>2 DEF ReserveJob, artifactVars, worldVars
    <2>2. UNCHANGED AbsWriting
      BY <1>1, <1>2, WritingStays DEF ReserveJob, Goto, WorkersTyped
    <2>3. /\ operations[k].state # "applied" /\ operations'[k].state = "reserved"
          /\ \A j \in OpKeys \ {k} : operations'[j] = operations[j]
      BY <1>1, <1>2 DEF ReserveJob, Reserve, MayReserve
    <2> QED
      BY <2>1, <2>2, <2>3, RecordStays, OnceTell DEF AbsWritten
  <1>3. ASSUME NEW p \in Procs, ExitAll(p)
        PROVE  Once!AONext
    <2>1. UNCHANGED <<artifact, evidence, history, operations, job>>
      BY <1>3 DEF ExitAll, ExitWorkers, artifactVars, worldVars, storeVars
    <2>2. \A v \in Workers : pc'[v] = "writing" => pc[v] = "writing"
      BY <1>3 DEF ExitAll, ExitWorkers, PCAfterExit
    <2>3. AbsWriting' \subseteq AbsWriting
      BY <2>1, <2>2 DEF AbsWriting, ArtifactOf
    <2>4. AbsWritten' = AbsWritten \cup {} /\ UNCHANGED <<AbsRecord, AbsTold>>
      BY <2>1, RecordStays, ToldStays DEF AbsWritten
    <2> QED
      BY <2>3, <2>4, OnceEndWrites
  <1>4. ASSUME UNCHANGED <<artifact, evidence, history, operations, job, pc>>
        PROVE  UNCHANGED Once!aoVars
    BY <1>1, <1>4, RecordStays, ToldStays, WritingStays, OnceStutter DEF AbsWritten
  <1>5. ASSUME NEW r \in Repos, DevelopRepo(r)
        PROVE  UNCHANGED <<artifact, evidence, history, operations, job, pc>>
    BY <1>5 DEF DevelopRepo, artifactVars, storeVars, workerVars
  <1>6. ASSUME NEW a \in Artifacts, Expire(a)
        PROVE  UNCHANGED <<artifact, evidence, history, operations, job, pc>>
    BY <1>6 DEF Expire, worldVars, storeVars, workerVars
  <1>7. CASE UNCHANGED crVars
    BY <1>4, <1>7 DEF crVars, plVars, artifactVars, worldVars, storeVars, workerVars
  <1> QED
    BY <1>2, <1>3, <1>4, <1>5, <1>6, <1>7, OnceWorker, OncePass DEF RecoveryNext, PipelineStep

\* Whatever crashes, retries and recovers, in any number of processes: the
\* audit log, the artifact files and the operation rows together behave as
\* ApplyOnce says, so that a recorded patch is never written again and is
\* reported applied for good, as long as recovery passes do not overlap.
THEOREM RecoveryImplementsApplyOnce == RecoverySpec /\ []PassesApart => ImplementsApplyOnce
  <1>1. Typed /\ EvidenceInv /\ LockHeldInside /\ StillFresh /\ [RecoveryNext]_crVars
        => [Once!AONext]_Once!aoVars
    BY OnceNext
  <1> QED
    BY <1>1, OnceInit, RecoveryTyped, RecoveryEvidence, LockIsExclusive, RecoveryStillFresh, PTL
    DEF RecoverySpec, ImplementsApplyOnce, Once!AOSpec

-----------------------------------------------------------------------------
(***************************************************************************)
(* Ownership of an operation.  _recover_terminal moves whatever incomplete  *)
(* row it finds, so that a live owner keeps its operation only if a pass    *)
(* settles nothing but what still belongs to the dead owner it listed.      *)
(* That is so when an owner does not exit between being listed and judged   *)
(* (the window that the run MCRecoveryStale shows) and passes do not        *)
(* overlap.  The invariant carries it: an operation that a pass has listed  *)
(* under a dead owner is untouched until that pass settles it.              *)
(***************************************************************************)
Running(w) == pc[w] \in PC \ {"idle", "dead", "orphan_ready", "orphan_writing"}

KeepsOperation(w) ==
    Running(w) =>
        /\ operations[job[w]].state = (IF pc[w] = "reserved" THEN "reserved" ELSE "applying")
        /\ operations[job[w]].token = token[w]
        /\ operations[job[w]].owner = ProcOf[w]

TokensApart ==
    \A v, w \in Workers : Running(v) /\ Running(w) /\ token[v] = token[w] => v = w

\* What a pass has listed and not yet settled or skipped.
Pending(q) == rec[q].todo \cup (IF rec[q].pc \in AtOperation THEN rec[q].item ELSE {})

PassOwns(q) ==
    rec[q].pc \in OnOperations =>
        /\ \A op \in Pending(q) : op.owner \notin alive =>
               operations[op.key].state \in Incomplete /\ operations[op.key].owner = op.owner
        /\ \A op, other \in Pending(q) : op.key = other.key => op = other
        /\ rec[q].pc \in AtOperation =>
               \A op \in rec[q].item : op.owner \notin alive /\ op \notin rec[q].todo

OwnerInv ==
    /\ LivesOn
    /\ \A w \in Workers : KeepsOperation(w)
    /\ TokensApart
    /\ \A q \in Reconcilers : PassOwns(q)

LEMMA OwnerInvInit == RecoveryInit => OwnerInv
  <1> SUFFICES ASSUME RecoveryInit PROVE OwnerInv
    OBVIOUS
  <1>1. LivesOn
    BY LockInvInit DEF LockInv
  <1> QED
    BY <1>1 DEF RecoveryInit, PipelineInit, OwnerInv, KeepsOperation, Running, TokensApart,
       PassOwns, NothingYet, OnOperations

\* A step that changes a row ends a reservation that is not there, moves the
\* operation of a running call, or settles what a pass looks at.
LEMMA RowChanges ==
    ASSUME Typed, OwnerInv, [RecoveryNext]_crVars, NEW k \in OpKeys,
           operations'[k] # operations[k]
    PROVE  \/ /\ operations[k].state \notin Incomplete
              /\ \E w \in Workers : ReserveJob(w, k)
           \/ \E w \in Workers : /\ Running(w) /\ job[w] = k /\ WorkerStep(w)
           \/ \E q \in Reconcilers : /\ SettleOperation(q)
                                     /\ \E op \in ListedOp : rec[q].item = {op} /\ op.key = k
  <1>1. WorkersTyped /\ PassTyped /\ operations \in [OpKeys -> OperationRecord]
    BY DEF Typed, StoreInv, OSTypeOK
  <1>2. ASSUME NEW w \in Workers, NEW j \in OpKeys, ReserveJob(w, j)
        PROVE  j = k /\ operations[k].state \notin Incomplete
    BY <1>1, <1>2 DEF ReserveJob, Reserve, MayReserve, Incomplete
  <1>3. ASSUME NEW w \in Workers, WorkerStep(w) \/ OrphanGit(w)
        PROVE  Running(w) /\ job[w] = k /\ WorkerStep(w)
    <2>1. \/ pc[w] = "reserved" /\ MarkApplying(job[w], token[w])
          \/ pc[w] = "finishing" /\ MarkApplied(job[w], token[w])
          \/ pc[w] = "releasing" /\ MarkFailed(job[w], token[w])
      BY <1>3, StoreSteps DEF storeVars
    <2>2. Running(w) /\ ~OrphanGit(w)
      BY <2>1 DEF Running, PC, OrphanGit, Goto
    <2>3. job[w] = k
      BY <1>1, <2>1 DEF MarkApplying, MarkApplied, MarkFailed, OperationRecord
    <2> QED
      BY <1>3, <2>2, <2>3
  <1>4. ASSUME NEW q \in Reconcilers, StartPass(q) \/ PassStep(q)
        PROVE  SettleOperation(q) /\ \E op \in ListedOp : rec[q].item = {op} /\ op.key = k
    <2>1. SettleOperation(q) /\ ~ UNCHANGED storeVars
      BY <1>4, PassSteps DEF storeVars
    <2>2. PICK op \in ListedOp : rec[q].item = {op}
      BY <1>1, <2>1 DEF SettleOperation, At, PassTyped, AtOperation
    <2>3. \E next \in {"applied", "failed"} : RecoverTerminal(op.key, next)
      BY <2>1, <2>2, ItemOf DEF SettleOperation
    <2> QED
      BY <1>1, <2>1, <2>2, <2>3 DEF RecoverTerminal
  <1> QED
    BY <1>2, <1>3, <1>4
    DEF RecoveryNext, PipelineStep, DevelopRepo, Expire, ExitAll, ExitWorkers, storeVars, crVars, plVars

\* Rows that nobody running works on stay as they are.
LEMMA AbandonedRowStays ==
    ASSUME Typed, OwnerInv, [RecoveryNext]_crVars, NEW k \in OpKeys,
           operations[k].state \in Incomplete, operations[k].owner \notin alive,
           \A q \in Reconcilers : SettleOperation(q) =>
               \A op \in rec[q].item : op.key # k
    PROVE  operations'[k] = operations[k]
  <1>1. ASSUME NEW w \in Workers, Running(w), job[w] = k
        PROVE  FALSE
    BY <1>1 DEF OwnerInv, KeepsOperation, LivesOn, Running, Gone
  <1> QED
    BY <1>1, RowChanges

LEMMA KeepsOperationNext ==
    ASSUME Typed, OwnerInv, [RecoveryNext]_crVars, NEW v \in Workers
    PROVE  KeepsOperation(v)'
  <1>1. /\ WorkersTyped /\ PassTyped /\ operations \in [OpKeys -> OperationRecord]
        /\ pc' \in [Workers -> PC]
    BY WorkersTypedNext DEF Typed, StoreInv, OSTypeOK, WorkersTyped
  <1>2. Running(v) => job[v] \in OpKeys /\ ProcOf[v] \in alive
    BY <1>1, JobParts DEF Running, Active, OwnerInv, LivesOn, Gone
  \* What settles or moves the row of a running call is that call.
  <1>3. ASSUME Running(v), operations'[job[v]] # operations[job[v]]
        PROVE  WorkerStep(v)
    <2>1. operations[job[v]].state \in Incomplete /\ operations[job[v]].owner \in alive
      BY <1>2, <1>3 DEF OwnerInv, KeepsOperation, Incomplete
    <2>2. ASSUME NEW w \in Workers, Running(w), job[w] = job[v]
          PROVE  w = v
      BY <1>3, <2>2 DEF OwnerInv, KeepsOperation, TokensApart
    <2>3. ASSUME NEW q \in Reconcilers, SettleOperation(q), NEW op \in ListedOp, rec[q].item = {op}
          PROVE  op.key # job[v]
      <3>1. rec[q].pc \in AtOperation /\ rec[q].pc \in OnOperations
        BY <2>3 DEF SettleOperation, At, AtOperation, OnOperations
      <3>2. op \in Pending(q) /\ op.owner \notin alive
        BY <2>3, <3>1 DEF Pending, OwnerInv, PassOwns
      <3> QED
        BY <2>1, <3>1, <3>2 DEF OwnerInv, PassOwns
    <2> QED
      BY <1>2, <1>3, <2>1, <2>2, <2>3, RowChanges
  <1>4. ASSUME NEW k \in OpKeys, ReserveJob(v, k)
        PROVE  KeepsOperation(v)'
    BY <1>1, <1>4 DEF ReserveJob, Reserve, Goto, KeepsOperation, WorkersTyped
  <1>5. ASSUME WorkerStep(v)
        PROVE  KeepsOperation(v)'
    <2>1. Running(v) /\ (Running(v)' => job' = job /\ token' = token)
      BY <1>1, <1>5
      DEF Running, PC, WorkersTyped, WorkerStep, Goto, Return, KeepJob, BeginApplying, TakeLock, NameLock,
          LoadArtifact, CheckRepo, CheckUse, GitRefuses, GitStart, GitTorn, GitDone, WriteEvidence,
          DurableWriteFails, MarkConsumed, LeaveLock, Finish, InspectFailure, ReleaseFailed
    <2>2. CASE UNCHANGED storeVars
      <3>1. CASE BeginApplying(v)
        <4>1. ~MarkApplying(job[v], token[v])
          BY <1>1, <1>2, <2>1, <2>2 DEF MarkApplying, Owns, OperationRecord, storeVars
        <4> QED
          BY <1>1, <3>1, <4>1 DEF BeginApplying, Return, KeepsOperation, Running, WorkersTyped
      <3>2. CASE ~BeginApplying(v)
        <4>1. Running(v)' => pc[v] # "reserved" /\ pc'[v] # "reserved"
          BY <1>1, <1>5, <3>2
          DEF Running, PC, WorkersTyped, WorkerStep, Goto, Return, TakeLock, NameLock,
              LoadArtifact, CheckRepo, CheckUse, GitRefuses, GitStart, GitTorn, GitDone, WriteEvidence,
              DurableWriteFails, MarkConsumed, LeaveLock, Finish, InspectFailure, ReleaseFailed
        <4> QED
          BY <2>1, <2>2, <4>1 DEF KeepsOperation, OwnerInv, storeVars
      <3> QED
        BY <3>1, <3>2
    <2>3. CASE pc[v] = "reserved" /\ pc' = [pc EXCEPT ![v] = "applying"] /\ MarkApplying(job[v], token[v])
      BY <1>1, <1>2, <2>1, <2>3 DEF MarkApplying, KeepsOperation, OwnerInv, OperationRecord, WorkersTyped
    <2>4. CASE pc' = [pc EXCEPT ![v] = "idle"]
      BY <1>1, <2>4 DEF KeepsOperation, Running, WorkersTyped
    <2> QED
      BY <1>5, <2>2, <2>3, <2>4, StoreSteps
  <1>6. ASSUME pc'[v] = pc[v] \/ ~Running(v)', job'[v] = job[v], token'[v] = token[v], ~WorkerStep(v)
        PROVE  KeepsOperation(v)'
    BY <1>3, <1>6 DEF KeepsOperation, OwnerInv, Running
  <1>7. \/ \E k \in OpKeys : ReserveJob(v, k)
        \/ WorkerStep(v)
        \/ (pc'[v] = pc[v] \/ ~Running(v)') /\ job'[v] = job[v] /\ token'[v] = token[v]
    <2>1. ASSUME NEW w \in Workers, w # v, WorkerStep(w) \/ OrphanGit(w)
          PROVE  pc'[v] = pc[v] /\ job'[v] = job[v] /\ token'[v] = token[v]
      BY <1>1, <2>1, OthersStay
    <2>2. ASSUME OrphanGit(v)
          PROVE  ~Running(v)' /\ job'[v] = job[v] /\ token'[v] = token[v]
      BY <1>1, <2>2 DEF OrphanGit, Goto, KeepJob, Running, WorkersTyped
    <2>3. ASSUME NEW w \in Workers, w # v, NEW k \in OpKeys, ReserveJob(w, k)
          PROVE  pc'[v] = pc[v] /\ job'[v] = job[v] /\ token'[v] = token[v]
      BY <1>1, <2>3 DEF ReserveJob, Goto, WorkersTyped
    <2>4. ASSUME NEW p \in Procs, ExitAll(p)
          PROVE  (pc'[v] = pc[v] \/ ~Running(v)') /\ job'[v] = job[v] /\ token'[v] = token[v]
      BY <2>4 DEF ExitAll, ExitWorkers, PCAfterExit, Running
    <2>5. ASSUME NEW q \in Reconcilers, StartPass(q) \/ PassStep(q)
          PROVE  pc'[v] = pc[v] /\ job'[v] = job[v] /\ token'[v] = token[v]
      BY <2>5, PassSteps
    <2> QED
      BY <2>1, <2>2, <2>3, <2>4, <2>5
      DEF RecoveryNext, PipelineStep, DevelopRepo, Expire, workerVars, crVars, plVars
  <1> QED
    BY <1>4, <1>5, <1>6, <1>7

\* A new reservation has a token that no call has.
LEMMA TokensApartNext ==
    ASSUME Typed, OwnerInv, [RecoveryNext]_crVars
    PROVE  TokensApart'
  <1>1. WorkersTyped /\ lastToken \in Nat
    BY OperationStoreAssumption DEF Typed, StoreInv, OSTypeOK, Tokens
  <1>2. ASSUME NEW w \in Workers, NEW k \in OpKeys, ReserveJob(w, k)
        PROVE  TokensApart'
    <2>1. /\ token' = [token EXCEPT ![w] = lastToken + 1]
          /\ pc' = [pc EXCEPT ![w] = "reserved"]
      BY <1>2 DEF ReserveJob, NewToken, Goto
    <2>2. \A v \in Workers : Running(v) => token[v] <= lastToken /\ token[v] \in Nat
      BY <1>1, JobParts DEF Running, Active
    <2>3. \A v \in Workers \ {w} : token'[v] = token[v] /\ (Running(v)' => Running(v))
      BY <1>1, <2>1 DEF Running, WorkersTyped
    <2>4. token'[w] = lastToken + 1
      BY <1>1, <2>1 DEF WorkersTyped
    <2>5. \A v \in Workers \ {w} : Running(v)' => token'[v] # token'[w]
      BY <1>1, <2>2, <2>3, <2>4
    <2> QED
      BY <2>3, <2>5 DEF TokensApart, OwnerInv
  <1>3. ASSUME \A v \in Workers : Running(v)' => Running(v) /\ token'[v] = token[v]
        PROVE  TokensApart'
    BY <1>3 DEF TokensApart, OwnerInv
  <1>4. ASSUME NEW w \in Workers, WorkerStep(w) \/ OrphanGit(w)
        PROVE  \A v \in Workers : Running(v)' => Running(v) /\ token'[v] = token[v]
    <2>1. /\ \A v \in Workers \ {w} : pc'[v] = pc[v] /\ token'[v] = token[v]
          /\ Running(w)' => token'[w] = token[w]
      BY <1>1, <1>4, OthersStay DEF Running
    <2>2. Running(w)' => Running(w)
      BY <1>1, <1>4
      DEF Running, PC, WorkersTyped, WorkerStep, OrphanGit, Goto, Return, BeginApplying, TakeLock, NameLock,
          LoadArtifact, CheckRepo, CheckUse, GitRefuses, GitStart, GitTorn, GitDone, WriteEvidence,
          DurableWriteFails, MarkConsumed, LeaveLock, Finish, InspectFailure, ReleaseFailed
    <2> QED
      BY <2>1, <2>2 DEF Running
  <1>5. ASSUME NEW p \in Procs, ExitAll(p)
        PROVE  \A v \in Workers : Running(v)' => Running(v) /\ token'[v] = token[v]
    BY <1>5 DEF ExitAll, ExitWorkers, PCAfterExit, Running
  <1>6. ASSUME pc' = pc, token' = token
        PROVE  \A v \in Workers : Running(v)' => Running(v) /\ token'[v] = token[v]
    BY <1>6 DEF Running
  <1>7. ASSUME NEW q \in Reconcilers, StartPass(q) \/ PassStep(q)
        PROVE  pc' = pc /\ token' = token
    BY <1>7, PassSteps
  <1> QED
    BY <1>2, <1>3, <1>4, <1>5, <1>6, <1>7
    DEF RecoveryNext, PipelineStep, DevelopRepo, Expire, workerVars, crVars, plVars

\* An operation listed under a dead owner is as it was listed until its pass
\* settles it.
LEMMA PassOwnsNext ==
    ASSUME Typed, OwnerInv, PassesApart, ~ExitsWhileListed, [RecoveryNext]_crVars,
           NEW q \in Reconcilers
    PROVE  PassOwns(q)'
  <1>1. PassTyped /\ OwnersKnown /\ alive' \subseteq alive
    BY LivesOnNext DEF Typed, OwnerInv
  <1>2. rec[q].pc \in OnOperations => \A op \in Pending(q) : op \in ListedOp /\ op.key \in OpKeys
    BY <1>1 DEF PassTyped, Pending, ListedOp, OnOperations, AtOperation
  \* Listed rows with a dead owner stay, but for the one that q settles.
  <1>3. ASSUME rec[q].pc \in OnOperations, NEW op \in Pending(q), op.owner \notin alive,
               SettleOperation(q) => op \notin rec[q].item
        PROVE  operations'[op.key].state \in Incomplete /\ operations'[op.key].owner = op.owner
    <2>1. operations[op.key].state \in Incomplete /\ operations[op.key].owner = op.owner
      BY <1>3 DEF OwnerInv, PassOwns
    <2>2. ASSUME NEW p \in Reconcilers, SettleOperation(p), NEW other \in rec[p].item
          PROVE  other.key # op.key
      <3>1. p = q
        BY <1>3, <2>2 DEF PassesApart, SettleOperation, At, OnOperations
      <3>2. other \in Pending(q) /\ other # op
        BY <1>3, <2>2, <3>1 DEF Pending, SettleOperation, At, AtOperation
      <3> QED
        BY <1>3, <3>2 DEF OwnerInv, PassOwns
    <2>3. operations'[op.key] = operations[op.key]
      BY <1>2, <1>3, <2>1, <2>2, AbandonedRowStays
    <2> QED
      BY <2>1, <2>3
  <1>4. ASSUME rec'[q] = rec[q], ~SettleOperation(q), alive' = alive
        PROVE  PassOwns(q)'
    BY <1>3, <1>4 DEF PassOwns, Pending, OwnerInv
  <1>5. ASSUME StartPass(q) \/ PassStep(q)
        PROVE  PassOwns(q)'
    <2>1. alive' = alive
      BY <1>5, PassSteps
    <2>2. CASE ListOperations(q)
      <3> DEFINE U == {[key |-> k, owner |-> operations[k].owner] :
                          k \in {j \in OpKeys : operations[j].state \in Incomplete}}
      <3>1. rec'[q].pc = "ops" /\ rec'[q].todo = U
        BY <1>1, <2>2, PassTable DEF PassIs
      <3>2. operations' = operations
        BY <2>2 DEF ListOperations, PipelineIdle, storeVars
      <3>3. Pending(q)' = U
        BY <3>1 DEF Pending, AtOperation
      <3>4. \A op \in U : op.key \in OpKeys /\ operations[op.key].state \in Incomplete
                          /\ op.owner = operations[op.key].owner /\ op = [key |-> op.key, owner |-> op.owner]
        OBVIOUS
      <3> HIDE DEF U
      <3> QED
        BY <3>1, <3>2, <3>3, <3>4 DEF PassOwns, AtOperation
    <2>3. CASE JudgeOperation(q)
      <3>1. rec[q].pc = "ops" /\ Pending(q) = rec[q].todo
        BY <2>3 DEF JudgeOperation, At, Pending, AtOperation
      <3>2. PICK op \in rec[q].todo :
                \/ PassIs(q, "ops", rec[q].todo \ {op}, rec[q].item)
                \/ PassIs(q, "settle_applied", rec[q].todo \ {op}, {op}) /\ ~OwnerActive(op.owner)
                \/ PassIs(q, "inspect", rec[q].todo \ {op}, {op}) /\ ~OwnerActive(op.owner)
        BY <1>1, <2>3, PassTable
      <3>3. Pending(q)' \subseteq Pending(q)
        BY <3>1, <3>2 DEF PassIs, Pending, AtOperation
      <3>4. rec'[q].pc \in AtOperation => rec'[q].item = {op} /\ op.owner \notin alive /\ op \notin rec'[q].todo
        BY <3>2 DEF PassIs, AtOperation, OwnerActive
      <3>5. ~SettleOperation(q) /\ rec[q].pc \in OnOperations
        BY <3>1 DEF SettleOperation, At, OnOperations
      <3> QED
        BY <1>3, <2>1, <3>3, <3>4, <3>5 DEF PassOwns, OwnerInv
    <2>4. CASE InspectOperation(q)
      <3>1. rec[q].pc = "inspect" /\ ~SettleOperation(q)
        BY <2>4 DEF InspectOperation, At, SettleOperation
      <3>2. /\ rec'[q].todo = rec[q].todo
            /\ \/ rec'[q].pc = "ops"
               \/ rec'[q].pc = "settle_failed" /\ rec'[q].item = rec[q].item
        BY <1>1, <2>4, PassTable DEF PassIs
      <3>3. Pending(q)' \subseteq Pending(q)
        BY <3>1, <3>2 DEF Pending, AtOperation
      <3> QED
        BY <1>3, <2>1, <3>1, <3>2, <3>3 DEF PassOwns, OwnerInv, AtOperation, OnOperations
    <2>5. CASE SettleOperation(q)
      <3>1. rec[q].pc \in AtOperation /\ rec[q].pc \in OnOperations
        BY <2>5 DEF At, SettleOperation, AtOperation, OnOperations
      <3>2. rec'[q].todo \subseteq rec[q].todo /\ rec'[q].pc = "ops"
        BY <1>1, <2>5, PassTable DEF PassIs
      <3>3. /\ Pending(q)' \subseteq Pending(q)
            /\ \A op \in Pending(q)' : op \notin rec[q].item
        BY <3>1, <3>2 DEF Pending, AtOperation, OwnerInv, PassOwns
      <3> QED
        BY <1>3, <2>1, <3>1, <3>2, <3>3 DEF PassOwns, OwnerInv, AtOperation
    <2>6. CASE ~ListOperations(q) /\ ~JudgeOperation(q) /\ ~InspectOperation(q) /\ ~SettleOperation(q)
      <3>1. rec'[q].pc \notin OnOperations
        BY <1>1, <1>5, <2>6, PassTable DEF PassIs, PassStep, OnOperations
      <3> QED
        BY <3>1 DEF PassOwns
    <2> QED
      BY <2>2, <2>3, <2>4, <2>5, <2>6
  <1>6. ASSUME NEW p \in Reconcilers, p # q, StartPass(p) \/ PassStep(p)
        PROVE  PassOwns(q)'
    <2>1. rec'[q] = rec[q] /\ alive' = alive
      BY <1>1, <1>6, PassTable, PassSteps DEF PassIs, PassStep
    <2>2. ~SettleOperation(q)
      BY <1>1, <2>1, PassTable DEF SettleOperation, At, PassIs
    <2> QED
      BY <1>4, <2>1, <2>2
  <1>7. ASSUME NEW p \in Procs, ExitAll(p)
        PROVE  PassOwns(q)'
    <2>1. alive' = alive \ {p} /\ ~Listed(p) /\ operations' = operations
      BY <1>7 DEF ExitAll, ExitWorkers, ProcessExit, storeVars
    <2>2. rec'[q] = rec[q] \/ rec'[q].pc = "dead"
      BY <1>7 DEF ExitAll, NothingYet
    <2>3. CASE rec'[q] = rec[q] /\ rec[q].pc \in OnOperations
      <3>1. \A op \in rec[q].todo : op.owner # p
        BY <2>1, <2>3 DEF Listed, OnOperations
      <3>2. \A op \in Pending(q) : op.owner \notin alive' => op.owner \notin alive
        BY <2>1, <2>3, <3>1 DEF Pending, OwnerInv, PassOwns
      <3> QED
        BY <2>1, <2>3, <3>2 DEF PassOwns, OwnerInv, Pending
    <2>4. CASE rec'[q].pc \notin OnOperations
      BY <2>4 DEF PassOwns
    <2> QED
      BY <2>2, <2>3, <2>4 DEF OnOperations
  <1>8. ASSUME rec' = rec
        PROVE  ~SettleOperation(q)
    BY <1>1, <1>8, PassTable DEF SettleOperation, At, PassIs
  <1>9. ASSUME PipelineStep
        PROVE  alive' = alive
    BY <1>9, OthersStay DEF PipelineStep, ReserveJob, DevelopRepo, Expire, Typed
  <1> QED
    BY <1>4, <1>5, <1>6, <1>7, <1>8, <1>9 DEF RecoveryNext, crVars, plVars

\* The operation rows, the leases and the running workers agree on who owns
\* what, provided that no owner exits between being listed by a pass and being
\* judged, and that passes do not overlap.
THEOREM RecoveryOwners ==
    ASSUME ~ExitsWhileListed
    PROVE  RecoverySpec /\ []PassesApart => []OwnerInv
  <1>1. Typed /\ OwnerInv /\ PassesApart /\ [RecoveryNext]_crVars => OwnerInv'
    BY LivesOnNext, KeepsOperationNext, TokensApartNext, PassOwnsNext DEF OwnerInv
  <1> QED
    BY <1>1, OwnerInvInit, RecoveryTyped, PTL DEF RecoverySpec

\* A running worker never loses its operation, provided that no owner exits
\* between being listed by a pass and being judged, and that passes do not
\* overlap: "Operation ownership or state changed" has no other cause.
THEOREM LiveOwnerKeeps ==
    ASSUME ~ExitsWhileListed
    PROVE  RecoverySpec /\ []PassesApart => []LiveOwnerKeepsOperation
  <1>1. OwnerInv => LiveOwnerKeepsOperation
    BY DEF OwnerInv, KeepsOperation, Running, LiveOwnerKeepsOperation
  <1> QED
    BY <1>1, RecoveryOwners, PTL

-----------------------------------------------------------------------------
(***************************************************************************)
(* One writer per repository, and clean failures.  Both follow from         *)
(* ownership once no git child outlives its process: whoever may touch a    *)
(* worktree is a running call with the one incomplete operation on it.      *)
(***************************************************************************)
NoOrphans == \A w \in Workers : pc[w] \notin {"orphan_ready", "orphan_writing"}

LEMMA NoOrphansNext ==
    ASSUME Typed, NoOrphans, ~GitSurvives, [RecoveryNext]_crVars
    PROVE  NoOrphans'
  <1>1. WorkersTyped
    BY DEF Typed
  <1>2. ASSUME NEW w \in Workers, NEW k \in OpKeys, ReserveJob(w, k)
        PROVE  NoOrphans'
    BY <1>1, <1>2 DEF ReserveJob, Goto, NoOrphans, WorkersTyped
  <1>3. ASSUME NEW w \in Workers, WorkerStep(w) \/ OrphanGit(w)
        PROVE  NoOrphans'
    <2>1. pc'[w] \notin {"orphan_ready", "orphan_writing"}
      BY <1>1, <1>3
      DEF NoOrphans, WorkersTyped, WorkerStep, OrphanGit, Goto, Return, BeginApplying, TakeLock, NameLock,
          LoadArtifact, CheckRepo, CheckUse, GitRefuses, GitStart, GitTorn, GitDone, WriteEvidence,
          DurableWriteFails, MarkConsumed, LeaveLock, Finish, InspectFailure, ReleaseFailed
    <2> QED
      BY <1>1, <1>3, <2>1, OthersStay DEF NoOrphans
  <1>4. ASSUME NEW p \in Procs, ExitAll(p)
        PROVE  NoOrphans'
    BY <1>4 DEF ExitAll, ExitWorkers, PCAfterExit, NoOrphans
  <1>5. ASSUME pc' = pc
        PROVE  NoOrphans'
    BY <1>5 DEF NoOrphans
  <1>6. ASSUME NEW q \in Reconcilers, StartPass(q) \/ PassStep(q)
        PROVE  pc' = pc
    BY <1>6, PassSteps
  <1> QED
    BY <1>2, <1>3, <1>4, <1>5, <1>6
    DEF RecoveryNext, PipelineStep, DevelopRepo, Expire, workerVars, crVars, plVars

\* Two running calls on one repository are one call.
LEMMA OneRunning ==
    ASSUME Typed, OwnerInv, NEW v \in Workers, NEW w \in Workers,
           Running(v), Running(w), TargetOf(v) = TargetOf(w)
    PROVE  v = w
  <1>1. job[v] \in OpKeys /\ job[w] \in OpKeys
    BY JobParts DEF Running, Active, Typed
  <1>2. operations[job[v]].state \in Incomplete /\ operations[job[w]].state \in Incomplete
    BY DEF OwnerInv, KeepsOperation, Incomplete
  <1>3. leases[RepoOf(job[v])].key = job[v] /\ leases[RepoOf(job[w])].key = job[w]
    BY <1>1, <1>2 DEF Typed, StoreInv, LeaseMatchesOperation
  <1>4. job[v] = job[w]
    BY <1>3 DEF RepoOf, TargetOf
  <1> QED
    BY <1>4 DEF OwnerInv, KeepsOperation, TokensApart

\* At most one call, of any process, is between its clean-repository check
\* and the end of git on one trusted repository.
THEOREM OneWriter ==
    ASSUME ~ExitsWhileListed, ~GitSurvives
    PROVE  RecoverySpec /\ []PassesApart => []SingleWriter
  <1>1. RecoveryInit => NoOrphans
    BY DEF RecoveryInit, PipelineInit, NoOrphans
  <1>2. Typed /\ OwnerInv /\ NoOrphans => SingleWriter
    BY OneRunning DEF SingleWriter, Mutating, NoOrphans, Running, PC
  <1>3. Typed /\ NoOrphans /\ [RecoveryNext]_crVars => NoOrphans'
    BY NoOrphansNext
  <1> QED
    BY <1>1, <1>2, <1>3, RecoveryTyped, RecoveryOwners, PTL DEF RecoverySpec

\* A patch is only in a worktree while its operation is applying or applied;
\* whoever is about to call the operation failed knows that it is not there.
Absent(k) == k[1] \notin repo[k[2]].files

CleanInv ==
    /\ NoOrphans
    /\ \A k \in OpKeys : operations[k].state \in {"absent", "reserved", "failed"} => Absent(k)
    /\ \A w \in Workers : pc[w] = "releasing" => Absent(job[w])
    /\ \A q \in Reconcilers : rec[q].pc = "settle_failed" => \A op \in rec[q].item : Absent(op.key)

LEMMA CleanInvInit == RecoveryInit => CleanInv
  BY DEF RecoveryInit, PipelineInit, CleanInv, NoOrphans, Absent, NothingYet, OpKeys

\* Only git, started by the call that has the operation, puts a patch into a
\* worktree.
LEMMA PatchEnters ==
    ASSUME Typed, NoOrphans, [RecoveryNext]_crVars, NEW k \in OpKeys, Absent(k), ~Absent(k)'
    PROVE  \E w \in Workers : pc[w] = "ready" /\ job[w] = k /\ GitStart(w)
  <1>1. WorkersTyped /\ repo \in [Repos -> RepoState] /\ k[1] \in Artifacts /\ k[2] \in Repos
        /\ k = <<k[1], k[2]>>
    BY DEF Typed, WorldTyped, OpKeys
  <1>2. ASSUME NEW w \in Workers, WorkerStep(w) \/ OrphanGit(w)
        PROVE  pc[w] = "ready" /\ job[w] = k /\ GitStart(w)
    <2>1. job[w] = <<ArtifactOf(w), TargetOf(w)>> /\ TargetOf(w) \in Repos
      BY <1>1, <1>2, OthersStay, JobParts
    <2>2. GitStart(w) /\ repo' = [repo EXCEPT ![TargetOf(w)].files = @ \cup {ArtifactOf(w)}]
      BY <1>2, WorldSteps DEF NoOrphans, Absent
    <2>3. k[2] = TargetOf(w) /\ k[1] = ArtifactOf(w)
      BY <1>1, <2>1, <2>2 DEF Absent, RepoState
    <2> QED
      BY <1>1, <2>1, <2>2, <2>3 DEF GitStart, Goto
  <1>3. ASSUME NEW r \in Repos, DevelopRepo(r)
        PROVE  FALSE
    BY <1>1, <1>3, PipelineAssumption DEF DevelopRepo, Absent, RepoState
  <1>4. ASSUME NEW q \in Reconcilers, StartPass(q) \/ PassStep(q)
        PROVE  FALSE
    BY <1>4, PassSteps DEF Absent
  <1> QED
    BY <1>2, <1>3, <1>4
    DEF RecoveryNext, PipelineStep, ReserveJob, Expire, ExitAll, ExitWorkers, worldVars, Absent,
        crVars, plVars

LEMMA CleanInvNext ==
    ASSUME Typed, OwnerInv, CleanInv, PassesApart, ~GitSurvives, ~ExitsWhileListed,
           [RecoveryNext]_crVars
    PROVE  CleanInv'
  <1>1. /\ WorkersTyped /\ PassTyped /\ OwnersKnown /\ NoOrphans
        /\ operations \in [OpKeys -> OperationRecord]
        /\ repo \in [Repos -> RepoState]
    BY DEF Typed, StoreInv, OSTypeOK, CleanInv, WorldTyped
  <1>2. ASSUME NEW w \in Workers, pc[w] = "ready"
        PROVE  /\ Running(w) /\ job[w] \in OpKeys
               /\ operations[job[w]].state = "applying" /\ operations[job[w]].owner \in alive
    BY <1>1, <1>2, JobParts DEF Running, PC, Active, OwnerInv, KeepsOperation, LivesOn, Gone
  <1>3. ASSUME NEW k \in OpKeys, operations'[k].state \in {"absent", "reserved", "failed"}
        PROVE  Absent(k)'
    <2>1. CASE operations'[k] = operations[k]
      <3>1. Absent(k)
        BY <1>3, <2>1 DEF CleanInv
      <3>2. ASSUME NEW w \in Workers, pc[w] = "ready", job[w] = k
            PROVE  FALSE
        BY <1>2, <1>3, <2>1, <3>2
      <3> QED
        BY <1>1, <3>1, <3>2, PatchEnters
    <2>2. CASE operations'[k] # operations[k]
      <3>1. ASSUME NEW w \in Workers, ReserveJob(w, k)
            PROVE  Absent(k)'
        BY <1>1, <3>1 DEF CleanInv, ReserveJob, Reserve, MayReserve, Absent, worldVars
      <3>2. ASSUME NEW w \in Workers, Running(w), job[w] = k, WorkerStep(w)
            PROVE  Absent(k)'
        <4>1. ~MarkApplying(k, token[w]) /\ ~MarkApplied(k, token[w]) /\ ~ UNCHANGED storeVars
          BY <1>1, <1>3, <2>2 DEF MarkApplying, MarkApplied, OperationRecord, storeVars
        <4>2. pc[w] = "releasing" /\ ~GitStart(w)
          BY <3>2, <4>1, StoreSteps DEF GitStart, Goto
        <4>3. repo' = repo
          BY <1>1, <3>2, <4>2, WorldSteps
        <4> QED
          BY <3>2, <4>2, <4>3 DEF CleanInv, Absent
      <3>3. ASSUME NEW q \in Reconcilers, SettleOperation(q), NEW op \in ListedOp,
                   rec[q].item = {op}, op.key = k
            PROVE  Absent(k)'
        <4>1. At(q, "settle_failed")
          <5>1. RecoverTerminal(k, "applied") => operations'[k].state = "applied"
            BY <1>1 DEF RecoverTerminal, OperationRecord
          <5>2. ~ UNCHANGED storeVars
            BY <2>2 DEF storeVars
          <5>3. Item(q).key = k
            BY <3>3, ItemOf
          <5> QED
            BY <1>3, <3>3, <5>1, <5>2, <5>3 DEF SettleOperation
        <4>2. repo' = repo
          BY <3>3 DEF SettleOperation, worldVars
        <4> QED
          BY <3>3, <4>1, <4>2 DEF CleanInv, Absent, At
      <3> QED
        BY <2>2, <3>1, <3>2, <3>3, RowChanges
    <2> QED
      BY <2>1, <2>2
  <1>4. ASSUME NEW w \in Workers, pc'[w] = "releasing"
        PROVE  Absent(job[w])' /\ job'[w] = job[w]
    <2>1. CASE pc[w] = "releasing" /\ job'[w] = job[w]
      <3>1. Absent(job[w]) /\ Running(w) /\ job[w] \in OpKeys
        BY <1>1, <2>1, JobParts DEF CleanInv, Running, PC, Active
      <3>2. ASSUME NEW v \in Workers, pc[v] = "ready", job[v] = job[w]
            PROVE  FALSE
        BY <1>2, <2>1, <3>1, <3>2, OneRunning DEF TargetOf
      <3>3. ~ ~Absent(job[w])'
        BY <1>1, <2>1, <3>1, <3>2, PatchEnters
      <3> QED
        BY <2>1, <3>3
    <2>2. CASE InspectFailure(w)
      <3>1. Untouched(TargetOf(w)) /\ repo' = repo /\ job' = job
        BY <1>1, <1>4, <2>2 DEF InspectFailure, Return, Goto, WorkersTyped, worldVars, KeepJob
      <3> QED
        BY <3>1 DEF Untouched, Absent, TargetOf
    <2>3. InspectFailure(w) \/ (pc[w] = "releasing" /\ job'[w] = job[w])
      <3>1. ASSUME NEW v \in Workers, v # w, WorkerStep(v) \/ OrphanGit(v)
            PROVE  pc[w] = "releasing" /\ job'[w] = job[w]
        BY <1>1, <1>4, <3>1, OthersStay
      <3>2. ASSUME NEW v \in Workers, NEW k \in OpKeys, ReserveJob(v, k)
            PROVE  pc[w] = "releasing" /\ job'[w] = job[w]
        BY <1>1, <1>4, <3>2 DEF ReserveJob, Goto, WorkersTyped
      <3>3. ASSUME WorkerStep(w) \/ OrphanGit(w)
            PROVE  InspectFailure(w)
        BY <1>1, <1>4, <3>3
        DEF WorkersTyped, WorkerStep, OrphanGit, Goto, Return, BeginApplying, TakeLock, NameLock,
            LoadArtifact, CheckRepo, CheckUse, GitRefuses, GitStart, GitTorn, GitDone, WriteEvidence,
            DurableWriteFails, MarkConsumed, LeaveLock, Finish, ReleaseFailed
      <3>4. ASSUME NEW p \in Procs, ExitAll(p)
            PROVE  pc[w] = "releasing" /\ job'[w] = job[w]
        BY <1>4, <3>4 DEF ExitAll, ExitWorkers, PCAfterExit
      <3>5. ASSUME NEW q \in Reconcilers, StartPass(q) \/ PassStep(q)
            PROVE  pc[w] = "releasing" /\ job'[w] = job[w]
        BY <1>4, <3>5, PassSteps
      <3> QED
        BY <1>4, <3>1, <3>2, <3>3, <3>4, <3>5
        DEF RecoveryNext, PipelineStep, DevelopRepo, Expire, workerVars, crVars, plVars
    <2> QED
      BY <2>1, <2>2, <2>3
  <1>5. ASSUME NEW q \in Reconcilers, rec'[q].pc = "settle_failed", NEW op \in rec'[q].item
        PROVE  Absent(op.key)'
    <2>1. CASE rec'[q] = rec[q]
      <3>1. Absent(op.key) /\ op \in ListedOp /\ op \in Pending(q) /\ rec[q].pc \in OnOperations
            /\ rec[q].pc \in AtOperation
        BY <1>1, <1>5, <2>1 DEF CleanInv, PassTyped, Pending, AtOperation, OnOperations
      <3>2. op.key \in OpKeys /\ operations[op.key].owner \notin alive
        BY <1>5, <2>1, <3>1 DEF OwnerInv, PassOwns, ListedOp
      <3>3. ASSUME NEW v \in Workers, pc[v] = "ready", job[v] = op.key
            PROVE  FALSE
        BY <1>2, <3>2, <3>3
      <3> QED
        BY <1>1, <3>1, <3>2, <3>3, PatchEnters
    <2>2. CASE InspectOperation(q)
      <3>1. PICK o \in ListedOp : rec[q].item = {o}
        BY <1>1, <2>2 DEF InspectOperation, At, PassTyped, AtOperation
      <3>2. rec'[q].item = {o} /\ Untouched(RepoOf(o.key))
        BY <1>1, <1>5, <2>2, <3>1, ItemOf, PassTable DEF PassIs
      <3>3. repo' = repo
        BY <2>2 DEF InspectOperation, PipelineIdle, worldVars
      <3> QED
        BY <1>5, <3>2, <3>3 DEF Untouched, Absent, RepoOf
    <2>3. ASSUME StartPass(q) \/ PassStep(q)
          PROVE  InspectOperation(q) \/ rec'[q] = rec[q]
      BY <1>1, <1>5, <2>3, PassTable DEF PassIs, PassStep
    <2>4. ASSUME NEW p \in Reconcilers, p # q, StartPass(p) \/ PassStep(p)
          PROVE  rec'[q] = rec[q]
      BY <1>1, <2>4, PassTable DEF PassIs, PassStep
    <2>5. ASSUME NEW p \in Procs, ExitAll(p)
          PROVE  rec'[q] = rec[q]
      BY <1>5, <2>5 DEF ExitAll, NothingYet
    <2> QED
      BY <2>1, <2>2, <2>3, <2>4, <2>5 DEF RecoveryNext, crVars
  <1> QED
    BY <1>1, <1>3, <1>4, <1>5, NoOrphansNext DEF CleanInv, Absent

\* A retryable failure never hides a patch that is still in the worktree.
THEOREM FailuresAreClean ==
    ASSUME ~ExitsWhileListed, ~GitSurvives
    PROVE  RecoverySpec /\ []PassesApart => []FailedLeftNothing
  <1>1. Typed /\ OwnerInv /\ CleanInv /\ PassesApart /\ [RecoveryNext]_crVars => CleanInv'
    BY CleanInvNext
  <1>2. CleanInv => FailedLeftNothing
    BY DEF CleanInv, Absent, FailedLeftNothing, OpKeys
  <1> QED
    BY <1>1, <1>2, CleanInvInit, RecoveryTyped, RecoveryOwners, PTL DEF RecoverySpec

=============================================================================
