---------------------------- MODULE ApplyPipeline ----------------------------
(***************************************************************************)
(* Applying an approved patch artifact to its trusted repository:           *)
(* ApprovalArtifactService.apply_artifact (approval_service.py), which      *)
(* drives the operation store, PatchArtifactStore.apply_approved            *)
(* (patch_artifact.py) and apply_approved_patch (approved_apply.py).        *)
(*                                                                          *)
(* A worker is one call of apply_artifact: a CLI process or a thread of the *)
(* API server.  Each call reads and writes several stores that no common    *)
(* transaction covers, and each step below is one such access.              *)
(*                                                                          *)
(*   idle -Reserve-> reserved -BeginApplying-> applying -TakeLock->         *)
(*   naming -NameLock-> locked -Load-> loaded -CheckRepo-> clean            *)
(*   -CheckUse-> ready -GitStart-> writing -GitDone-> patched               *)
(*   -WriteEvidence-> audited -MarkConsumed-> consumed -LeaveLock->         *)
(*   finishing -Finish-> idle                                               *)
(*                                                                          *)
(* and every exception goes unwinding -LeaveLock-> failing -Inspect->       *)
(* releasing or idle.                                                       *)
(***************************************************************************)
EXTENDS OperationStore, ArtifactStore

CONSTANTS
    Workers,       \* the actors that call apply_artifact
    TrustedRepo,   \* the repository each artifact was produced from
    Mortal,        \* processes that may exit while they work
    GitSurvives,   \* a git child may outlive the process that spawned it
    Perishable,    \* artifacts whose expires_at may pass
    MaxEdits       \* bound: changes a developer makes to the repositories

ASSUME PipelineAssumption ==
    /\ Workers \subseteq Actors
    /\ TrustedRepo \in [Artifacts -> Repos]
    /\ Mortal \subseteq Procs
    /\ GitSurvives \in BOOLEAN
    /\ Perishable \subseteq Artifacts
    /\ MaxEdits \in Nat
    /\ "dev" \notin Artifacts   \* a developer's change is no artifact's

PC == {"idle", "reserved", "applying", "naming", "locked", "loaded", "clean",
       "ready", "writing", "patched", "audited", "consumed", "finishing",
       "unwinding", "failing", "releasing",
       "orphan_ready", "orphan_writing",   \* git runs on without its parent
       "dead"}

VARIABLES
    pc,        \* [Workers -> PC]
    job,       \* [Workers -> OpKeys \cup {NoKey}]: artifact and repository
    token,     \* [Workers -> Tokens]: owner token of the reservation
    used,      \* _USED_PATCH_APPROVALS of each process: pairs <<proc, artifact>>
    repo,      \* [Repos -> [head, files]]: HEAD and the uncommitted changes
    evidence,  \* approved_patch_apply audit events: pairs <<artifact, repo>>
    history,   \* patches git finished writing (ghost)
    edits      \* developer changes so far

workerVars == <<pc, job, token, used>>
worldVars == <<repo, evidence, history, edits>>
plVars == <<storeVars, alive, artifactVars, workerVars, worldVars>>

\* An uncommitted change is a patch, whole or torn, or a developer's own.
Change == Artifacts \cup {"dev"}
RepoState == [head: {"base", "moved"}, files: SUBSET Change]

PipelineInit ==
    /\ OSInit
    /\ artifact = [a \in Artifacts |-> "pending"]
    /\ expired = {}
    /\ lock = [a \in Artifacts |-> NoLock]
    /\ pc = [w \in Workers |-> "idle"]
    /\ job = [w \in Workers |-> NoKey]
    /\ token = [w \in Workers |-> 0]
    /\ used = {}
    /\ repo = [r \in Repos |-> [head |-> "base", files |-> {}]]
    /\ evidence = {}
    /\ history = {}
    /\ edits = 0

----------------------------------------------------------------------------

ArtifactOf(w) == job[w][1]
TargetOf(w) == job[w][2]

\* Fault: HEAD is compared, git status is not.
AtBaseline(r) == repo[r].head = "base"

\* The state a call finds when it looks at a worktree: git status is empty
\* and HEAD is the baseline commit of the artifact.
Untouched(r) == repo[r] = [head |-> "base", files |-> {}]

\* Evidence is matched on approval id, patch digest and baseline commit,
\* which an artifact fixes; the repository of the event is not compared.
HasEvidence(a) == \E r \in Repos : <<a, r>> \in evidence

Goto(w, from, to) == pc[w] = from /\ pc' = [pc EXCEPT ![w] = to]

\* Leaving apply_artifact, with a result or an exception.
Return(w, from) ==
    /\ pc[w] = from
    /\ pc' = [pc EXCEPT ![w] = "idle"]
    /\ job' = [job EXCEPT ![w] = NoKey]
    /\ token' = [token EXCEPT ![w] = 0]
    /\ UNCHANGED used

KeepJob == UNCHANGED <<job, token>>

----------------------------------------------------------------------------
\* apply_artifact up to the reservation.  The approval is APPROVED and its
\* artifact loads (expired and consumed ones included).  A refusal or the
\* replay of a recorded result leaves every store as it was.
ReserveJob(w, k) ==
    /\ ProcOf[w] \in alive
    /\ Goto(w, "idle", "reserved")
    /\ Loadable(k[1], TRUE, TRUE)
    /\ Reserve(ProcOf[w], k)
    /\ job' = [job EXCEPT ![w] = k]
    /\ token' = [token EXCEPT ![w] = NewToken]
    /\ UNCHANGED <<alive, used, artifactVars, worldVars>>

\* mark_applying is outside the try block: a conflict goes to the caller.
BeginApplying(w) ==
    /\ UNCHANGED <<alive, artifactVars, worldVars, used>>
    /\ \/ /\ Goto(w, "reserved", "applying")
          /\ MarkApplying(job[w], token[w])
          /\ KeepJob
       \/ /\ Return(w, "reserved")
          /\ ~Owns(job[w], token[w], "reserved")
          /\ UNCHANGED storeVars

\* _artifact_lock: create the file, or give up after the retries.
TakeLock(w) ==
    /\ UNCHANGED <<storeVars, alive, artifact, expired, worldVars, used>>
    /\ KeepJob
    /\ \/ Goto(w, "applying", "naming") /\ CreateLock(w, ArtifactOf(w))
       \/ /\ Goto(w, "applying", "failing")
          /\ LockBusy(ArtifactOf(w))
          /\ UNCHANGED lock

NameLock(w) ==
    /\ Goto(w, "naming", "locked")
    /\ WriteLock(w, ArtifactOf(w))
    /\ KeepJob
    /\ UNCHANGED <<storeVars, alive, artifact, expired, worldVars, used>>

\* Under the lock: load (neither expired nor consumed) and compare the
\* trusted repository identity.
LoadArtifact(w) ==
    /\ LET accepted == /\ Loadable(ArtifactOf(w), FALSE, FALSE)
                       /\ TrustedRepo[ArtifactOf(w)] = TargetOf(w)
       IN Goto(w, "locked", IF accepted THEN "loaded" ELSE "unwinding")
    /\ KeepJob
    /\ UNCHANGED <<storeVars, alive, artifactVars, worldVars, used>>

\* _ensure_clean_repo and _ensure_target_at_baseline.
CheckRepo(w) ==
    /\ Goto(w, "loaded", IF Untouched(TargetOf(w)) THEN "clean" ELSE "unwinding")
    /\ KeepJob
    /\ UNCHANGED <<storeVars, alive, artifactVars, worldVars, used>>

\* Fault: the audit log is not searched, only this process's memory.
CheckUseInMemory(w) ==
    /\ pc[w] = "clean"
    /\ <<ProcOf[w], ArtifactOf(w)>> \notin used
    /\ Goto(w, "clean", "ready")
    /\ used' = used \cup {<<ProcOf[w], ArtifactOf(w)>>}
    /\ KeepJob
    /\ UNCHANGED <<storeVars, alive, artifactVars, worldVars>>

\* _ensure_approval_not_previously_applied, then _reserve_approval_use.
CheckUse(w) ==
    /\ pc[w] = "clean"
    /\ KeepJob
    /\ UNCHANGED <<storeVars, alive, artifactVars, worldVars>>
    /\ LET use == <<ProcOf[w], ArtifactOf(w)>>
           fresh == ~HasEvidence(ArtifactOf(w)) /\ use \notin used
       IN \/ /\ fresh
             /\ Goto(w, "clean", "ready")
             /\ used' = used \cup {use}
          \/ /\ ~fresh
             /\ Goto(w, "clean", "unwinding")
             /\ UNCHANGED used

\* git apply --check refuses: the approval use is given back.
GitRefuses(w) ==
    /\ Goto(w, "ready", "unwinding")
    /\ used' = used \ {<<ProcOf[w], ArtifactOf(w)>>}
    /\ KeepJob
    /\ UNCHANGED <<storeVars, alive, artifactVars, worldVars>>

\* git apply begins to write; the worktree is dirty from here on.
GitStart(w) ==
    /\ Goto(w, "ready", "writing")
    /\ repo' = [repo EXCEPT ![TargetOf(w)].files = @ \cup {ArtifactOf(w)}]
    /\ KeepJob
    /\ UNCHANGED <<storeVars, alive, artifactVars, used, evidence, history, edits>>

\* Fault: the exit status of git apply is ignored.
GitTornUnnoticed(w) ==
    /\ Goto(w, "writing", "patched")
    /\ KeepJob
    /\ UNCHANGED <<storeVars, alive, artifactVars, worldVars, used>>

\* git apply stops half way (no space, file in use).
GitTorn(w) ==
    /\ Goto(w, "writing", "unwinding")
    /\ used' = used \ {<<ProcOf[w], ArtifactOf(w)>>}
    /\ KeepJob
    /\ UNCHANGED <<storeVars, alive, artifactVars, worldVars>>

GitDone(w) ==
    /\ Goto(w, "writing", "patched")
    /\ history' = history \cup {job[w]}
    /\ KeepJob
    /\ UNCHANGED <<storeVars, alive, artifactVars, used, repo, evidence, edits>>

\* write_approved_patch_apply_audit_event, or the exception it raises.
WriteEvidence(w) ==
    /\ Goto(w, "patched", "audited")
    /\ evidence' = evidence \cup {job[w]}
    /\ KeepJob
    /\ UNCHANGED <<storeVars, alive, artifactVars, used, repo, history, edits>>

\* Fault: an audit error is swallowed and the apply goes on.
AuditErrorSwallowed(w) ==
    /\ Goto(w, "patched", "audited")
    /\ KeepJob
    /\ UNCHANGED <<storeVars, alive, artifactVars, worldVars, used>>

\* Writing the audit event or the consumed artifact raises an error after
\* the repository was changed.  The approval use stays taken.
DurableWriteFails(w) ==
    /\ Goto(w, "patched", "unwinding") \/ Goto(w, "audited", "unwinding")
    /\ KeepJob
    /\ UNCHANGED <<storeVars, alive, artifactVars, worldVars, used>>

MarkConsumed(w) ==
    /\ Goto(w, "audited", "consumed")
    /\ Consume(ArtifactOf(w))
    /\ KeepJob
    /\ UNCHANGED <<storeVars, alive, expired, lock, worldVars, used>>

LeaveLock(w) ==
    /\ Goto(w, "consumed", "finishing") \/ Goto(w, "unwinding", "failing")
    /\ Unlock(ArtifactOf(w))
    /\ KeepJob
    /\ UNCHANGED <<storeVars, alive, artifact, expired, worldVars, used>>

\* mark_applied, or "Patch applied, but durable operation completion could
\* not be recorded".
Finish(w) ==
    /\ Return(w, "finishing")
    /\ \/ MarkApplied(job[w], token[w])
       \/ ~Owns(job[w], token[w], "applying") /\ UNCHANGED storeVars
    /\ UNCHANGED <<alive, artifactVars, worldVars>>

\* fail_or_preserve_ambiguous looks at the repository first ...
InspectFailure(w) ==
    /\ \/ /\ Goto(w, "failing", "releasing")
          /\ Untouched(TargetOf(w))
          /\ KeepJob /\ UNCHANGED used
       \/ Return(w, "failing") /\ ~Untouched(TargetOf(w))
    /\ UNCHANGED <<storeVars, alive, artifactVars, worldVars>>

\* ... and then fails the operation in a transaction of its own.
ReleaseFailed(w) ==
    /\ Return(w, "releasing")
    /\ \/ MarkFailed(job[w], token[w])
       \/ ~Owns(job[w], token[w], "applying") /\ UNCHANGED storeVars
    /\ UNCHANGED <<alive, artifactVars, worldVars>>

WorkerStep(w) ==
    \/ BeginApplying(w) \/ TakeLock(w) \/ NameLock(w) \/ LoadArtifact(w)
    \/ CheckRepo(w) \/ CheckUse(w) \/ GitRefuses(w) \/ GitStart(w)
    \/ GitTorn(w) \/ GitDone(w) \/ WriteEvidence(w) \/ DurableWriteFails(w)
    \/ MarkConsumed(w) \/ LeaveLock(w) \/ Finish(w) \/ InspectFailure(w)
    \/ ReleaseFailed(w)

----------------------------------------------------------------------------
\* The world outside: process exits, orphaned git children, developers who
\* edit, discard or commit, and time.

\* A worker stops with its process; a git child may be left running.
PCAfterExit(w) ==
    IF GitSurvives /\ pc[w] = "ready" THEN "orphan_ready"
    ELSE IF GitSurvives /\ pc[w] = "writing" THEN "orphan_writing"
    ELSE "dead"

ExitWorkers(p) ==
    /\ p \in Mortal
    /\ ProcessExit(p)
    /\ pc' = [w \in Workers |-> IF ProcOf[w] = p THEN PCAfterExit(w) ELSE pc[w]]
    /\ used' = {u \in used : u[1] # p}
    /\ UNCHANGED <<storeVars, artifactVars, job, token, worldVars>>

OrphanGit(w) ==
    /\ KeepJob
    /\ UNCHANGED <<storeVars, alive, artifactVars, used, evidence, edits>>
    /\ \/ /\ Goto(w, "orphan_ready", "orphan_writing")
          /\ repo' = [repo EXCEPT ![TargetOf(w)].files = @ \cup {ArtifactOf(w)}]
          /\ UNCHANGED history
       \/ /\ Goto(w, "orphan_writing", "dead")
          /\ history' = history \cup {job[w]}
          /\ UNCHANGED repo

\* A developer touches a file, throws the changes away, or commits them.
DevelopRepo(r) ==
    /\ edits < MaxEdits
    /\ edits' = edits + 1
    /\ \/ repo' = [repo EXCEPT ![r].files = @ \cup {"dev"}]
       \/ repo[r].files # {} /\ repo' = [repo EXCEPT ![r].files = {}]
       \/ /\ repo[r].files # {}
          /\ repo' = [repo EXCEPT ![r] = [head |-> "moved", files |-> {}]]
    /\ UNCHANGED <<storeVars, alive, artifactVars, workerVars, evidence, history>>

\* expires_at of the artifact passes.
Expire(a) ==
    /\ a \in Perishable \ expired
    /\ expired' = expired \cup {a}
    /\ UNCHANGED <<storeVars, alive, artifact, lock, workerVars, worldVars>>

PipelineStep ==
    \/ \E w \in Workers, k \in OpKeys : ReserveJob(w, k)
    \/ \E w \in Workers : WorkerStep(w) \/ OrphanGit(w)
    \/ \E r \in Repos : DevelopRepo(r)
    \/ \E a \in Artifacts : Expire(a)

PipelineNext == PipelineStep \/ \E p \in Procs : ExitWorkers(p)

PipelineSpec == PipelineInit /\ [][PipelineNext]_plVars

----------------------------------------------------------------------------

\* Every store, worker and repository is in a state the code knows.
PipelineTypeOK ==
    /\ OSTypeOK
    /\ ArtifactTypeOK
    /\ pc \in [Workers -> PC]
    /\ job \in [Workers -> OpKeys \cup {NoKey}]
    /\ token \in [Workers -> Tokens]
    /\ used \subseteq Procs \X Artifacts
    /\ repo \in [Repos -> RepoState]
    /\ evidence \subseteq OpKeys
    /\ history \subseteq OpKeys
    /\ edits \in 0 .. MaxEdits

\* From the moment it has seen the repository clean until git has finished
\* with it, a worker relies on nobody else applying a patch there.
Mutating(w) ==
    pc[w] \in {"clean", "ready", "writing", "orphan_ready", "orphan_writing"}

\* At most one worker, of any process, is between its clean-repository check
\* and the end of its git apply on one trusted repository.  The guarantee is
\* the lease of operation_store.py; nothing in approved_apply.py itself
\* excludes a second process.
SingleWriter ==
    \A v, w \in Workers :
        Mutating(v) /\ Mutating(w) /\ TargetOf(v) = TargetOf(w) => v = w

\* Workers inside _artifact_lock.
Locking(w) ==
    pc[w] \in {"naming", "locked", "loaded", "clean", "ready", "writing", "patched",
               "audited", "consumed", "unwinding"}

\* The artifact lock is exclusive: while a worker is inside it, the lock file
\* on disk is its own.  Locks are removed by path, on exit and by recovery.
LockHeldInside ==
    \A w \in Workers : Locking(w) => lock[ArtifactOf(w)].holder = w

\* A consumed artifact and a recorded success both have their audit event:
\* replay of a result is always backed by durable evidence.
SuccessHasEvidence ==
    /\ \A a \in Artifacts : artifact[a] = "consumed" => HasEvidence(a)
    /\ \A k \in OpKeys : operations[k].state = "applied" => HasEvidence(k[1])

\* Every audit event is true: its patch was written to that repository, the
\* one the artifact belongs to.
EvidenceIsTrue ==
    \A k \in evidence : k \in history /\ TrustedRepo[k[1]] = k[2]

\* A retryable failure never hides a patch that is still in the worktree:
\* the repository was clean when fail_or_preserve_ambiguous or recovery let
\* the operation go, and only a later owner may write to it.
FailedLeftNothing ==
    \A a \in Artifacts, r \in Repos :
        /\ operations[<<a, r>>].state = "failed"
        /\ a \in repo[r].files
        => \E w \in Workers : pc[w] \in {"writing", "patched", "audited", "consumed",
                                         "finishing", "unwinding", "failing"}
                              /\ job[w] = <<a, r>>

=============================================================================
