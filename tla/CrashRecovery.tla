---------------------------- MODULE CrashRecovery ----------------------------
(***************************************************************************)
(* Crash recovery of interrupted applies: RecoveryReconciler.reconcile      *)
(* (recovery_reconciler.py) with SQLiteOperationStore.reconcile_incomplete  *)
(* (operation_store.py), running beside the workers of ApplyPipeline.       *)
(*                                                                          *)
(* A reconciler makes passes.  A pass                                       *)
(*   - reads all artifact locks once and remembers whether one of them      *)
(*     blocks artifact recovery (Gate),                                     *)
(*   - lists the lock files and removes those whose process is gone,        *)
(*   - unless blocked, lists the incomplete operations and settles each     *)
(*     from the record it listed, and then marks consumed every pending     *)
(*     artifact that has audit evidence.                                    *)
(* Between any two of these accesses other processes run.                   *)
(***************************************************************************)
EXTENDS ApplyPipeline, RecoveryPass

CONSTANT ExitsWhileListed    \* an owner may exit between being listed and judged

ASSUME RecoveryAssumption ==
    /\ Reconcilers \cap Workers = {}
    /\ ExitsWhileListed \in BOOLEAN

\* A row of the incomplete-operations listing: the key and the owner read.
ListedOp == [key: OpKeys, owner: Procs]

RecPC == {"off", "gated", "locks", "unlink", "listing", "ops", "inspect",
          "settle_applied", "settle_failed", "artifacts",
          "lock", "name", "consume", "unlock", "dead"}

crVars == <<plVars, rec>>

RecoveryInit ==
    /\ PipelineInit
    /\ rec = [q \in Reconcilers |-> NothingYet]

----------------------------------------------------------------------------

PipelineIdle == UNCHANGED <<storeVars, alive, workerVars, worldVars>>

ArtifactsIdle == PipelineIdle /\ UNCHANGED <<artifact, expired>>

\* The gate and the stale locks.
StartPass(q) == OpenPass(q) /\ ArtifactsIdle
ListLocks(q) == GlobLocks(q, "gated") /\ ArtifactsIdle
ReadLock(q) == InspectLock(q) /\ ArtifactsIdle
UnlinkLock(q) == RemoveLock(q) /\ ArtifactsIdle
LeaveLocks(q) == PassGate(q, "locks", "listing", "off") /\ ArtifactsIdle

\* list_incomplete.
ListOperations(q) ==
    /\ At(q, "listing")
    /\ rec' = [rec EXCEPT ![q].pc = "ops", ![q].todo =
           {[key |-> k, owner |-> operations[k].owner] :
               k \in {j \in OpKeys : operations[j].state \in Incomplete}}]
    /\ PipelineIdle /\ UNCHANGED artifactVars

\* Fault: the owner is not checked.
JudgeAnyOwner(q) ==
    /\ At(q, "ops")
    /\ \E op \in rec[q].todo :
           Take(q, op, IF HasEvidence(op.key[1]) THEN "settle_applied" ELSE "inspect")
    /\ PipelineIdle /\ UNCHANGED artifactVars

\* The owner of the listed record, then the audit evidence.
JudgeOperation(q) ==
    /\ At(q, "ops")
    /\ \E op \in rec[q].todo :
           IF OwnerActive(op.owner) THEN Skip(q, op)
           ELSE Take(q, op, IF HasEvidence(op.key[1]) THEN "settle_applied" ELSE "inspect")
    /\ PipelineIdle /\ UNCHANGED artifactVars

\* Fault: an operation without evidence is never released.
InspectUnresolved(q) ==
    /\ At(q, "inspect")
    /\ Drop(q, "ops")
    /\ PipelineIdle /\ UNCHANGED artifactVars

\* Without evidence the repository decides; a changed one stays UNRESOLVED.
InspectOperation(q) ==
    /\ At(q, "inspect")
    /\ IF Untouched(RepoOf(Item(q).key))
       THEN Move(q, "settle_failed")
       ELSE Drop(q, "ops")
    /\ PipelineIdle /\ UNCHANGED artifactVars

\* _recover_terminal.  A row that is no longer incomplete raises a conflict,
\* which ends reconcile_incomplete with the rest of its list unread.
SettleOperation(q) ==
    /\ At(q, "settle_applied") \/ At(q, "settle_failed")
    /\ LET next == IF At(q, "settle_applied") THEN "applied" ELSE "failed"
       IN \/ RecoverTerminal(Item(q).key, next) /\ Drop(q, "ops")
          \/ /\ operations[Item(q).key].state \notin Incomplete
             /\ rec' = [rec EXCEPT ![q] = [@ EXCEPT !.pc = "ops", !.todo = {}, !.item = {}]]
             /\ UNCHANGED storeVars
    /\ UNCHANGED <<alive, workerVars, worldVars, artifactVars>>

\* Fault: the pass ends after the operations.
LeaveForGood(q) ==
    /\ At(q, "ops")
    /\ rec[q].todo = {}
    /\ Move(q, "off")
    /\ PipelineIdle /\ UNCHANGED artifactVars

LeaveOperations(q) ==
    /\ At(q, "ops")
    /\ rec[q].todo = {}
    /\ rec' = [rec EXCEPT ![q].pc = "artifacts", ![q].todo = Artifacts]
    /\ PipelineIdle /\ UNCHANGED artifactVars

\* Each artifact: pending with evidence means an interrupted apply.
JudgeArtifact(q) ==
    /\ At(q, "artifacts")
    /\ \E a \in rec[q].todo :
           IF artifact[a] = "pending" /\ HasEvidence(a) THEN Take(q, a, "lock") ELSE Skip(q, a)
    /\ PipelineIdle /\ UNCHANGED artifactVars

\* mark_consumed, under the artifact lock.
LockForConsume(q) ==
    /\ At(q, "lock")
    /\ \/ CreateLock(q, Item(q)) /\ Move(q, "name")
       \/ LockBusy(Item(q)) /\ Drop(q, "artifacts") /\ UNCHANGED lock
    /\ PipelineIdle /\ UNCHANGED <<artifact, expired>>

NameConsumeLock(q) ==
    /\ At(q, "name")
    /\ WriteLock(q, Item(q))
    /\ Move(q, "consume")
    /\ PipelineIdle /\ UNCHANGED <<artifact, expired>>

\* Load and replace; an artifact that is consumed by now raises instead.
ConsumeArtifact(q) ==
    /\ At(q, "consume")
    /\ \/ artifact[Item(q)] = "pending" /\ Consume(Item(q))
       \/ artifact[Item(q)] # "pending" /\ UNCHANGED artifact
    /\ Move(q, "unlock")
    /\ PipelineIdle /\ UNCHANGED <<expired, lock>>

UnlockConsumed(q) ==
    /\ At(q, "unlock")
    /\ Unlock(Item(q))
    /\ Drop(q, "artifacts")
    /\ PipelineIdle /\ UNCHANGED <<artifact, expired>>

EndPass(q) ==
    /\ At(q, "artifacts")
    /\ rec[q].todo = {}
    /\ Move(q, "off")
    /\ PipelineIdle /\ UNCHANGED artifactVars

PassStep(q) ==
    \/ ListLocks(q) \/ ReadLock(q) \/ UnlinkLock(q) \/ LeaveLocks(q)
    \/ ListOperations(q) \/ JudgeOperation(q) \/ InspectOperation(q)
    \/ SettleOperation(q) \/ LeaveOperations(q) \/ JudgeArtifact(q)
    \/ LockForConsume(q) \/ NameConsumeLock(q) \/ ConsumeArtifact(q)
    \/ UnlockConsumed(q) \/ EndPass(q)

\* Some pass has listed an operation of p as incomplete, not yet judged it.
Listed(p) ==
    \E q \in Reconcilers :
        /\ rec[q].pc \in {"ops", "inspect", "settle_applied", "settle_failed"}
        /\ \E op \in rec[q].todo : op.owner = p

\* A process exit also ends the passes that run in it.
ExitAll(p) ==
    /\ ExitsWhileListed \/ ~Listed(p)
    /\ ExitWorkers(p)
    /\ rec' = [q \in Reconcilers |->
                  IF ProcOf[q] = p THEN [NothingYet EXCEPT !.pc = "dead"] ELSE rec[q]]

RecoveryNext ==
    \/ PipelineStep /\ UNCHANGED rec
    \/ \E q \in Reconcilers : StartPass(q) \/ PassStep(q)
    \/ \E p \in Procs : ExitAll(p)

RecoverySpec == RecoveryInit /\ [][RecoveryNext]_crVars

\* A call that runs is not suspended for ever, and passes keep being made.
FairRecoverySpec ==
    /\ RecoverySpec
    /\ \A w \in Workers : WF_crVars(WorkerStep(w) /\ UNCHANGED rec)
    /\ \A q \in Reconcilers : WF_crVars(StartPass(q) \/ PassStep(q))

----------------------------------------------------------------------------

\* The same with recovery: a pass works on listed operations or artifacts,
\* one at a time.
RecoveryTypeOK ==
    /\ PipelineTypeOK
    /\ \A q \in Reconcilers :
           /\ rec[q].pc \in RecPC
           /\ rec[q].blocked \in BOOLEAN
           /\ rec[q].todo \subseteq ListedOp \/ rec[q].todo \subseteq Artifacts
           /\ rec[q].item \subseteq ListedOp \/ rec[q].item \subseteq Artifacts
           /\ \A x, y \in rec[q].item : x = y

\* A live owner never loses its operation: from its reservation until it
\* gives the operation up itself, the row is incomplete under its token.
\* This is what makes "Operation ownership or state changed" impossible for
\* a running worker.
LiveOwnerKeepsOperation ==
    \A w \in Workers :
        pc[w] \in PC \ {"idle", "dead", "orphan_ready", "orphan_writing"} =>
            /\ operations[job[w]].state =
                   (IF pc[w] = "reserved" THEN "reserved" ELSE "applying")
            /\ operations[job[w]].token = token[w]

\* Recovery and the workers together implement ApplyOnce: the audit events,
\* the consumed artifacts and the rows of the operation store, which no
\* transaction joins, tell one story that only moves forward.
Once == INSTANCE ApplyOnce WITH
    Targets <- Repos,
    record <- [a \in Artifacts |-> IF artifact[a] = "consumed" THEN "spent"
                                   ELSE IF HasEvidence(a) THEN "recorded" ELSE "open"],
    writing <- {ArtifactOf(w) : w \in {v \in Workers : pc[v] = "writing"}},
    written <- {k[1] : k \in history},
    told <- [k \in OpKeys |-> IF operations[k].state \in {"applied", "failed"}
                              THEN operations[k].state ELSE "nothing"]

\* Once a patch has its audit event it is never written again, not by a retry
\* or after the developer discarded it; it is consumed only after the event,
\* and reported as applied only after it, for good.
ImplementsApplyOnce == Once!AOSpec

\* An apply that was interrupted after its audit event is completed by
\* recovery: the operation becomes applied and the artifact consumed, unless
\* an unverifiable lock stands in the way.
InterruptedApplyCompletes ==
    \A k \in OpKeys :
        /\ k \in evidence
        /\ operations[k].state \in Incomplete
        /\ ~OwnerActive(operations[k].owner)
        ~> \/ operations[k].state = "applied" /\ artifact[k[1]] = "consumed"
           \/ UnverifiableLock

\* An operation whose owner is gone does not hold its repository for ever:
\* it is settled, or the repository has changes that only a person can judge,
\* or an unverifiable lock stands in the way.
AbandonedOperationSettles ==
    \A k \in OpKeys :
        /\ operations[k].state \in Incomplete
        /\ ~OwnerActive(operations[k].owner)
        ~> \/ operations[k].state \notin Incomplete
           \/ ~Untouched(RepoOf(k)) /\ ~HasEvidence(k[1])
           \/ UnverifiableLock

=============================================================================
