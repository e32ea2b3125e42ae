-------------------------- MODULE ApprovalLifecycle --------------------------
(***************************************************************************)
(* The life of a patch that needs approval, from the guarded run that       *)
(* produced it to its consumption:                                          *)
(*   - a run persists the artifact and then submits the request             *)
(*     (_persist_pending_approval in guarded_patch_finalizer.py), undoing   *)
(*     the first when the second raises;                                    *)
(*   - reviewers approve and reject through ApprovalArtifactService         *)
(*     (approval_service.py) or through the queue endpoints (api.py);       *)
(*   - recovery passes quarantine artifacts without an approval and reject  *)
(*     approvals whose artifact has expired (_reconcile_artifacts in        *)
(*     recovery_reconciler.py).                                             *)
(*                                                                          *)
(* The artifact file, the queue database and the audit log share no         *)
(* transaction, and each step below is one access to one of them.  The run  *)
(* root is the data directory of the local runtime, so that runs and        *)
(* recovery see one artifact store.                                         *)
(***************************************************************************)
EXTENDS ApprovalQueue, ArtifactStore, RecoveryPass

CONSTANTS
    Runs,              \* guarded runs whose patch needs approval
    ArtifactOf,        \* the artifact each run persists, a fresh id
    Deciders,          \* the actors that make approve and reject calls
    PersonOf,          \* who makes the calls
    Mortal,            \* processes that may exit
    SubmitFails        \* where submit may raise: "before", "after" the commit

ASSUME LifecycleAssumption ==
    /\ Runs \subseteq Actors /\ Deciders \subseteq Actors
    /\ Runs \cap Deciders = {} /\ Reconcilers \cap (Runs \cup Deciders) = {}
    /\ ArtifactOf \in [Runs -> Artifacts]
    /\ \A u, v \in Runs : ArtifactOf[u] = ArtifactOf[v] => u = v
    /\ PersonOf \in [Deciders -> People]
    /\ Mortal \subseteq Procs
    /\ SubmitFails \subseteq {"before", "after"}

RunPC == {"ready", "naming", "writing", "unlocking", "giving_up", "verifying",
          "submitting", "undoing", "undo_naming", "deleting", "undo_unlocking",
          "pending_approval", "failed", "dead"}

DecPC == {"idle", "deciding", "auditing", "dead"}

LifePC == {"off", "gated", "locks", "unlink", "paths", "queue", "artifacts",
           "quarantine", "rejecting", "auditing", "dead"}

\* A decider's call: the approval it is about and the decision it made.
NoCall == [pc |-> "idle", on |-> {}, made |-> {}]

NothingListed == [a \in Artifacts |-> "none"]

VARIABLES
    run,       \* [Runs -> RunPC]
    call,      \* [Deciders -> the call it is making]
    seen,      \* [Reconcilers -> the queue as its pass listed it]
    audited    \* approval_decided audit events: pairs <<artifact, decision>>

lifeVars == <<alive, artifactVars, queueVars, run, call, rec, seen, audited>>

LifecycleInit ==
    /\ alive = Procs
    /\ artifact = [a \in Artifacts |-> "absent"]
    /\ expired = {}
    /\ lock = [a \in Artifacts |-> NoLock]
    /\ QueueInit
    /\ run = [u \in Runs |-> "ready"]
    /\ call = [d \in Deciders |-> NoCall]
    /\ rec = [q \in Reconcilers |-> NothingYet]
    /\ seen = [q \in Reconcilers |-> NothingListed]
    /\ audited = {}

Stays == UNCHANGED <<alive, expired, audited>>
Runless == UNCHANGED <<run, call>>
NoPass == UNCHANGED <<rec, seen>>

----------------------------------------------------------------------------
\* A guarded run persists its patch and asks for approval.

Go(u, from, to) ==
    /\ run[u] = from
    /\ run' = [run EXCEPT ![u] = to]
    /\ UNCHANGED call

InFlight(u) == run[u] \notin {"ready", "pending_approval", "failed", "dead"}

\* PatchArtifactStore.persist, inside the artifact lock ...
PersistLock(u) ==
    /\ ProcOf[u] \in alive
    /\ Go(u, "ready", "naming")
    /\ CreateLock(u, ArtifactOf[u])
    /\ Stays /\ NoPass /\ UNCHANGED <<artifact, queueVars>>

PersistName(u) ==
    /\ Go(u, "naming", "writing")
    /\ WriteLock(u, ArtifactOf[u])
    /\ Stays /\ NoPass /\ UNCHANGED <<artifact, queueVars>>

\* ... writes the file, or raises with nothing to undo.
PersistWrite(u) ==
    /\ \/ /\ Go(u, "writing", "unlocking")
          /\ artifact' = [artifact EXCEPT ![ArtifactOf[u]] = "pending"]
       \/ Go(u, "writing", "giving_up") /\ UNCHANGED artifact
    /\ Stays /\ NoPass /\ UNCHANGED <<lock, queueVars>>

PersistUnlock(u) ==
    /\ Go(u, "unlocking", "verifying") \/ Go(u, "giving_up", "failed")
    /\ Unlock(ArtifactOf[u])
    /\ Stays /\ NoPass /\ UNCHANGED <<artifact, queueVars>>

\* persist loads the file back; without it the run fails, keeping nothing.
PersistVerify(u) ==
    /\ Go(u, "verifying",
          IF Loadable(ArtifactOf[u], TRUE, TRUE) THEN "submitting" ELSE "failed")
    /\ Stays /\ NoPass /\ UNCHANGED <<artifact, lock, queueVars>>

\* approval_queue.submit; a run without an approval queue only persists.
Submit(u) ==
    /\ Go(u, "submitting", "pending_approval")
    /\ SubmitRequest(ArtifactOf[u]) \/ UNCHANGED queueVars
    /\ Stays /\ NoPass /\ UNCHANGED <<artifact, lock>>

\* After its commit submit reads the whole queue again, so it may raise when
\* the row is already durable.
SubmitRaises(u) ==
    /\ Go(u, "submitting", "undoing")
    /\ \/ "before" \in SubmitFails /\ UNCHANGED queueVars
       \/ "after" \in SubmitFails /\ SubmitRequest(ArtifactOf[u])
    /\ Stays /\ NoPass /\ UNCHANGED <<artifact, lock>>

\* store.delete, best effort, inside the artifact lock.
UndoLock(u) ==
    /\ \/ Go(u, "undoing", "undo_naming") /\ CreateLock(u, ArtifactOf[u])
       \/ Go(u, "undoing", "failed") /\ LockBusy(ArtifactOf[u]) /\ UNCHANGED lock
    /\ Stays /\ NoPass /\ UNCHANGED <<artifact, queueVars>>

UndoName(u) ==
    /\ Go(u, "undo_naming", "deleting")
    /\ WriteLock(u, ArtifactOf[u])
    /\ Stays /\ NoPass /\ UNCHANGED <<artifact, queueVars>>

UndoDelete(u) ==
    /\ Go(u, "deleting", "undo_unlocking")
    /\ artifact' = [artifact EXCEPT ![ArtifactOf[u]] =
                       IF @ \in {"pending", "consumed"} THEN "absent" ELSE @]
    /\ Stays /\ NoPass /\ UNCHANGED <<lock, queueVars>>

UndoUnlock(u) ==
    /\ Go(u, "undo_unlocking", "failed")
    /\ Unlock(ArtifactOf[u])
    /\ Stays /\ NoPass /\ UNCHANGED <<artifact, queueVars>>

RunStep(u) ==
    \/ PersistName(u) \/ PersistWrite(u) \/ PersistUnlock(u) \/ PersistVerify(u)
    \/ Submit(u) \/ SubmitRaises(u)
    \/ UndoLock(u) \/ UndoName(u) \/ UndoDelete(u) \/ UndoUnlock(u)

----------------------------------------------------------------------------
\* Reviewers decide.

Target(d) == CHOOSE a \in call[d].on : TRUE
Made(d) == CHOOSE m \in call[d].made : TRUE

Ask(d, a, want, bound, receipt) ==
    call' = [call EXCEPT ![d] =
        [pc |-> "deciding", on |-> {a},
         made |-> {[status |-> want, by |-> PersonOf[d], bound |-> bound,
                    receipt |-> receipt]}]]

Accepted(d) == call' = [call EXCEPT ![d].pc = "auditing"]

Over(d) == call' = [call EXCEPT ![d] = NoCall]

\* ApprovalArtifactService.approve and reject: the request must exist and its
\* artifact load, for an approval neither expired nor consumed.
AskService(d) ==
    /\ call[d] = NoCall /\ ProcOf[d] \in alive
    /\ \E a \in Artifacts :
           /\ status[a] # "none"
           /\ \/ /\ Loadable(a, FALSE, FALSE)
                 /\ receipts < MaxReceipts
                 /\ receipts' = receipts + 1
                 /\ Ask(d, a, "approved", TRUE, receipts + 1)
              \/ /\ Loadable(a, TRUE, TRUE)
                 /\ Ask(d, a, "rejected", TRUE, NoReceipt)
                 /\ UNCHANGED receipts
    /\ Stays /\ NoPass /\ UNCHANGED <<artifact, lock, status, decision, run>>

\* POST /v1/approvals/{id}/approve and /reject: the queue alone.
AskQueue(d) ==
    /\ call[d] = NoCall /\ ProcOf[d] \in alive
    /\ \E a \in Artifacts, want \in Terminal :
           /\ status[a] # "none"
           /\ Ask(d, a, want, FALSE, NoReceipt)
    /\ Stays /\ NoPass /\ UNCHANGED <<artifact, lock, queueVars, run>>

\* Fault: the caller's decision is audited whatever the queue answered.
DecideAuditsAll(d) ==
    /\ call[d].pc = "deciding"
    /\ Accepted(d)
    /\ \/ Record(Target(d), Made(d)) /\ UNCHANGED receipts
       \/ ~MayRecord(Target(d), Made(d)) /\ UNCHANGED queueVars
    /\ Stays /\ NoPass /\ UNCHANGED <<artifact, lock, run>>

\* record_decision, one transaction.
Decide(d) ==
    /\ call[d].pc = "deciding"
    /\ \/ Record(Target(d), Made(d)) /\ Accepted(d) /\ UNCHANGED receipts
       \/ Repeats(Target(d), Made(d)) /\ Accepted(d) /\ UNCHANGED queueVars
       \/ Refused(Target(d), Made(d)) /\ Over(d) /\ UNCHANGED queueVars
    /\ Stays /\ NoPass /\ UNCHANGED <<artifact, lock, run>>

\* The decision event, after the commit and outside it; the write may raise.
AuditDecision(d) ==
    /\ call[d].pc = "auditing"
    /\ \/ audited' = audited \cup {<<Target(d), Made(d)>>}
       \/ UNCHANGED audited
    /\ Over(d)
    /\ NoPass /\ UNCHANGED <<alive, artifactVars, queueVars, run>>

\* apply_artifact as one step: its guards on the decision and the artifact,
\* and its consumption of the artifact.  Its own steps are in ApplyPipeline.
ApplyApproved(a) ==
    /\ \E m \in decision[a] : m.status = "approved" /\ m.bound
    /\ Loadable(a, FALSE, FALSE)
    /\ lock[a] = NoLock
    /\ Consume(a)
    /\ Stays /\ NoPass /\ Runless /\ UNCHANGED <<lock, queueVars>>

Expire(a) ==
    /\ artifact[a] = "pending" /\ a \notin expired
    /\ expired' = expired \cup {a}
    /\ NoPass /\ Runless /\ UNCHANGED <<alive, artifact, lock, queueVars, audited>>

----------------------------------------------------------------------------
\* A recovery pass over the artifacts and the approvals.

PassOnly == Stays /\ Runless

Elsewhere == PassOnly /\ UNCHANGED <<queueVars, seen>>

BeginPass(q) ==
    /\ OpenPass(q)
    /\ Elsewhere /\ UNCHANGED artifact

SweepLocks(q) ==
    /\ \/ GlobLocks(q, "gated") \/ InspectLock(q) \/ RemoveLock(q)
       \/ PassGate(q, "locks", "paths", "off")
    /\ Elsewhere /\ UNCHANGED artifact

\* The artifact files first ...
ListPaths(q) ==
    /\ At(q, "paths")
    /\ rec' = [rec EXCEPT ![q].pc = "queue",
                          ![q].todo = {a \in Artifacts : Loadable(a, TRUE, TRUE)}]
    /\ Elsewhere /\ UNCHANGED artifactVars

\* ... then the queue; both lists serve the whole pass.
ListQueue(q) ==
    /\ At(q, "queue")
    /\ seen' = [seen EXCEPT ![q] = status]
    /\ Move(q, "artifacts")
    /\ PassOnly /\ UNCHANGED <<queueVars, artifactVars>>

\* Fault: an expired artifact cannot be read.
ReadsFresh(a) == Loadable(a, FALSE, TRUE)

\* artifact_store.load, whatever the age and the state of the artifact.
Reads(a) == Loadable(a, TRUE, TRUE)

Orphan(q, a) == seen[q][a] = "none"

OverdueRequest(q, a) ==
    seen[q][a] = "pending" /\ artifact[a] = "pending" /\ a \in expired

\* Each listed file is loaded and judged by the listed approvals; a file that
\* is gone, and every other combination, is only reported.
JudgeFile(q) ==
    /\ At(q, "artifacts")
    /\ \E a \in rec[q].todo :
           \/ Reads(a) /\ Orphan(q, a) /\ Take(q, a, "quarantine")
           \/ Reads(a) /\ OverdueRequest(q, a) /\ Take(q, a, "rejecting")
           \/ /\ Reads(a) => ~Orphan(q, a) /\ ~OverdueRequest(q, a)
              /\ Skip(q, a)
    /\ Elsewhere /\ UNCHANGED artifactVars

\* Fault: an orphan is reported and left where it is.
QuarantineNothing(q) ==
    /\ At(q, "quarantine")
    /\ Drop(q, "artifacts")
    /\ Elsewhere /\ UNCHANGED artifactVars

\* _quarantine_orphan_artifact: os.replace into quarantine/.
Quarantine(q) ==
    /\ At(q, "quarantine")
    /\ artifact' = [artifact EXCEPT ![Item(q)] =
                       IF @ \in {"pending", "consumed"} THEN "quarantined" ELSE @]
    /\ Drop(q, "artifacts")
    /\ Elsewhere /\ UNCHANGED <<expired, lock>>

RecoveryRejection ==
    [status |-> "rejected", by |-> RecoveryUser, bound |-> TRUE, receipt |-> NoReceipt]

\* approval_service.reject as rygnal_recovery; a decision that was made
\* meanwhile stands and the artifact is reported.
RejectExpired(q) ==
    /\ At(q, "rejecting")
    /\ \/ /\ Record(Item(q), RecoveryRejection) /\ Move(q, "auditing")
          /\ UNCHANGED receipts
       \/ Repeats(Item(q), RecoveryRejection) /\ Move(q, "auditing") /\ UNCHANGED queueVars
       \/ Refused(Item(q), RecoveryRejection) /\ Drop(q, "artifacts") /\ UNCHANGED queueVars
    /\ PassOnly /\ UNCHANGED <<artifactVars, seen>>

\* The lists of a pass are gone with it.
EndPass(q) ==
    /\ rec' = [rec EXCEPT ![q] = NothingYet]
    /\ seen' = [seen EXCEPT ![q] = NothingListed]

\* The decision event; an audit error ends the pass.
AuditRejection(q) ==
    /\ At(q, "auditing")
    /\ \/ /\ audited' = audited \cup {<<Item(q), RecoveryRejection>>}
          /\ Drop(q, "artifacts")
          /\ UNCHANGED seen
       \/ EndPass(q) /\ UNCHANGED audited
    /\ Runless /\ UNCHANGED <<alive, artifactVars, queueVars>>

FinishPass(q) ==
    /\ At(q, "artifacts") /\ rec[q].todo = {}
    /\ EndPass(q)
    /\ PassOnly /\ UNCHANGED <<queueVars, artifactVars>>

PassStep(q) ==
    \/ SweepLocks(q) \/ ListPaths(q) \/ ListQueue(q) \/ JudgeFile(q)
    \/ Quarantine(q) \/ RejectExpired(q) \/ AuditRejection(q) \/ FinishPass(q)

----------------------------------------------------------------------------

\* A process exit ends everything that runs in it.
Exit(p) ==
    /\ p \in Mortal
    /\ ProcessExit(p)
    /\ run' = [u \in Runs |-> IF ProcOf[u] = p THEN "dead" ELSE run[u]]
    /\ call' = [d \in Deciders |->
                   IF ProcOf[d] = p THEN [NoCall EXCEPT !.pc = "dead"] ELSE call[d]]
    /\ rec' = [q \in Reconcilers |->
                  IF ProcOf[q] = p THEN [NothingYet EXCEPT !.pc = "dead"] ELSE rec[q]]
    /\ seen' = [q \in Reconcilers |-> IF ProcOf[q] = p THEN NothingListed ELSE seen[q]]
    /\ UNCHANGED <<artifactVars, queueVars, audited>>

LifecycleNext ==
    \/ \E u \in Runs : PersistLock(u) \/ RunStep(u)
    \/ \E d \in Deciders : AskService(d) \/ AskQueue(d) \/ Decide(d) \/ AuditDecision(d)
    \/ \E a \in Artifacts : ApplyApproved(a) \/ Expire(a)
    \/ \E q \in Reconcilers : BeginPass(q) \/ PassStep(q)
    \/ \E p \in Procs : Exit(p)

LifecycleSpec == LifecycleInit /\ [][LifecycleNext]_lifeVars

\* A run that works is not suspended for ever, and passes keep being made.
FairLifecycleSpec ==
    /\ LifecycleSpec
    /\ \A u \in Runs : WF_lifeVars(RunStep(u))
    /\ \A q \in Reconcilers : WF_lifeVars(BeginPass(q) \/ PassStep(q))

----------------------------------------------------------------------------

\* Artifacts, queue rows, runs, calls and passes are in states the code knows.
LifecycleTypeOK ==
    /\ alive \subseteq Procs
    /\ ArtifactTypeOK /\ QueueTypeOK
    /\ run \in [Runs -> RunPC]
    /\ call \in [Deciders -> [pc: DecPC, on: SUBSET Artifacts, made: SUBSET Decision]]
    /\ \A q \in Reconcilers :
           /\ rec[q].pc \in LifePC
           /\ rec[q].todo \subseteq Artifacts /\ rec[q].item \subseteq Artifacts
    /\ seen \in [Reconcilers -> [Artifacts -> Undecided \cup Terminal]]
    /\ audited \subseteq Artifacts \X Decision

\* A patch is consumed only on a durable approval that binds it and that was
\* given by somebody other than its requester who is permitted to approve.
ConsumedWasGranted ==
    \A a \in Artifacts : artifact[a] = "consumed" =>
        /\ status[a] = "approved"
        /\ \E m \in decision[a] :
               /\ m.bound /\ m.by # RequestedBy[a]
               /\ ReviewerGrant[m.by] = "granted"
                    \/ \A p \in People : ReviewerGrant[p] = "unlisted"

\* The audit log never tells another decision than the queue: a call that
\* lost the race leaves no event behind.
AuditTellsDecision ==
    \A e \in audited : decision[e[1]] = {e[2]}

\* An artifact that nobody was asked about does not stay in the store: once
\* its run is over, recovery moves it to quarantine.
OrphanSettles ==
    \A u \in Runs :
        /\ artifact[ArtifactOf[u]] = "pending"
        /\ status[ArtifactOf[u]] = "none"
        /\ ~InFlight(u)
        ~> artifact[ArtifactOf[u]] = "quarantined" \/ UnverifiableLock

\* A request whose artifact has expired does not wait for ever, unless the
\* artifact was taken away, as a pass with an old listing of the queue may do.
ExpiredSettles ==
    \A a \in Artifacts :
        /\ status[a] = "pending"
        /\ a \in expired
        ~> status[a] \in Terminal \/ ~Loadable(a, TRUE, TRUE) \/ UnverifiableLock

=============================================================================
