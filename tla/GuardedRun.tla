----------------------------- MODULE GuardedRun ------------------------------
(***************************************************************************)
(* A guarded run (run_guarded in guarded_runner.py): it takes the lock of   *)
(* the trusted repository, executes a command in a disposable worktree,     *)
(* decides about the resulting patch, applies it when it is harmless        *)
(* (auto_apply_safe_patch in safe_apply.py), tears the worktree down and    *)
(* drops the lock.  Beside the runs, recovery passes tear down workspaces   *)
(* and remove lock files that crashed runs left on the same run root.       *)
(*                                                                          *)
(*   ready -> locking [-> reading -> judging -> locking] -> naming ->       *)
(*   entered -> marking -> adding -> running -> deciding                    *)
(*     -> persisting                          (asking for approval)         *)
(*     -> checking -> applying -> verifying -> logging [-> rolling]         *)
(*   -> reporting -> cleaning -> removing -> clearing -> emptying           *)
(*   -> unlocking -> done                                                   *)
(***************************************************************************)
EXTENDS PatchDecision, RecoverySession, RecoveryPass, Naturals

CONSTANTS
    Repos,          \* trusted repositories
    RepoOf,         \* the repository of each run
    Preserving,     \* runs configured with preserve_workspace
    Mortal,         \* processes that may exit
    StartsOverlap,  \* runs and passes may start beside a run that is taking
                    \* its lock, and runs beside a pass
    Inputs,         \* what commands and their patches turn out to be
    AuditFails,     \* where audit writes may raise: in the body of the run,
                    \* after the apply, for the outcome, before the cleanup
    MaxEdits        \* bound: changes made to the repositories by others

ASSUME GuardedAssumption ==
    /\ LockNames = Repos
    /\ Runs \subseteq Actors /\ Runs \cap Reconcilers = {}
    /\ RepoOf \in [Runs -> Repos]
    /\ Preserving \subseteq Runs /\ Mortal \subseteq Procs
    /\ StartsOverlap \in BOOLEAN
    /\ AuditFails \subseteq {"body", "apply", "final", "cleanup"}
    /\ Inputs \subseteq Facts
    /\ MaxEdits \in Nat

RunPC == {"ready", "locking", "reading", "judging", "naming", "entered",
          "marking", "adding", "undoing", "running", "deciding", "persisting",
          "checking", "applying", "verifying", "logging", "rolling",
          "reporting", "cleaning", "removing", "clearing", "emptying",
          "unlocking", "done", "dead"}

NoFacts == [cmd |-> "unknown", patch |-> FALSE, risk |-> "unverified", intent |-> "clear"]

NewRun == [pc |-> "ready", saw |-> NoActor, base |-> 0, facts |-> NoFacts,
           status |-> "none", outcome |-> "none", raised |-> FALSE]

VARIABLES
    run,      \* [Runs -> the state of the run]
    repo,     \* [Repos -> [head, files]]: HEAD and the uncommitted changes
    landed,   \* runs whose patch is in the trusted repository (ghost)
    edits     \* changes made by others so far

guardedVars == <<alive, lock, session, rec, run, repo, landed, edits>>

GuardedInit ==
    /\ alive = Procs
    /\ lock = [r \in LockNames |-> NoLock]
    /\ session = [u \in Runs |-> "none"]
    /\ rec = [q \in Reconcilers |-> NothingYet]
    /\ run = [u \in Runs |-> NewRun]
    /\ repo = [r \in Repos |-> [head |-> 0, files |-> {}]]
    /\ landed = {}
    /\ edits = 0

----------------------------------------------------------------------------

In(u, where) == run[u].pc = where

Step(u, from, to) == In(u, from) /\ run' = [run EXCEPT ![u].pc = to]

\* Leaves `from` with the status and outcome the run will report.
Settle(u, from, to, s, o) ==
    /\ In(u, from)
    /\ run' = [run EXCEPT ![u] = [@ EXCEPT !.pc = to, !.status = s, !.outcome = o]]

World == <<repo, landed, edits>>
OnlyRun == UNCHANGED <<alive, rec, World>>

Acquiring(u) == run[u].pc \in {"locking", "reading", "judging", "naming"}
Passing(q) == rec[q].pc \notin {"off", "dead"}

\* The run has passed the lock and has not dropped it.
Inside(u) == run[u].pc \notin {"ready", "locking", "reading", "judging",
                               "naming", "done", "dead"}

Home(u) == repo[RepoOf[u]]
Clean(u) == Home(u).files = {}

----------------------------------------------------------------------------
\* run_guarded up to the lock: a dirty repository blocks the run unless it
\* is explicitly allowed, and so do invalid arguments and backends.
Begin(u) ==
    /\ ProcOf[u] \in alive
    /\ StartsOverlap \/ /\ \A v \in Runs : ~Acquiring(v)
                        /\ \A q \in Reconcilers : ~Passing(q)
    /\ \/ Step(u, "ready", "locking")
       \/ Settle(u, "ready", "done", "blocked", "none")
    /\ OnlyRun /\ UNCHANGED <<lock, session>>

\* _guarded_run_concurrency_guard: create the file, or read who holds it.
TakeLock(u) ==
    /\ \/ CreateLock(u, RepoOf[u]) /\ Step(u, "locking", "naming")
       \/ /\ lock[RepoOf[u]] # NoLock
          /\ Step(u, "locking", "reading")
          /\ UNCHANGED lock
    /\ OnlyRun /\ UNCHANGED session

\* A file that is gone, empty or without a pid reads as held by nobody.
ReadHolder(u) ==
    /\ In(u, "reading")
    /\ LET f == lock[RepoOf[u]] IN
       run' = [run EXCEPT ![u] = [@ EXCEPT !.pc = "judging",
                  !.saw = IF f.written THEN f.holder ELSE NoActor]]
    /\ OnlyRun /\ UNCHANGED <<lock, session>>

HolderRuns(u) == run[u].saw # NoActor /\ OwnerActive(ProcOf[run[u].saw])

\* Fault: a lock is believed to be stale although its process runs.
JudgeStale(u) ==
    /\ Step(u, "judging", "locking") /\ Unlock(RepoOf[u])
    /\ OnlyRun /\ UNCHANGED session

\* The holder runs and the run is refused, or the file is unlinked, whoever's
\* it is by now, and the loop tries again.
JudgeHolder(u) ==
    /\ In(u, "judging")
    /\ \/ /\ HolderRuns(u)
          /\ run' = [run EXCEPT ![u] = [NewRun EXCEPT !.pc = "done", !.status = "blocked"]]
          /\ UNCHANGED lock
       \/ /\ ~HolderRuns(u)
          /\ run' = [run EXCEPT ![u] = [NewRun EXCEPT !.pc = "locking"]]
          /\ Unlock(RepoOf[u])
    /\ OnlyRun /\ UNCHANGED session

NameLock(u) ==
    /\ Step(u, "naming", "entered")
    /\ WriteLock(u, RepoOf[u])
    /\ OnlyRun /\ UNCHANGED session

----------------------------------------------------------------------------
\* create_recovery_session.  Untracked files, overlapping roots, submodules
\* and whatever else it checks first refuse it.
OpenSession(u) ==
    /\ In(u, "entered")
    /\ \/ /\ run' = [run EXCEPT ![u] = [@ EXCEPT !.pc = "marking", !.base = Home(u).head]]
          /\ MakeDir(u)
       \/ /\ Settle(u, "entered", "unlocking", "blocked", "none")
          /\ UNCHANGED session
    /\ OnlyRun /\ UNCHANGED lock

\* Without its marker the directory stays behind.
MarkSession(u) ==
    /\ \/ Step(u, "marking", "adding") /\ WriteMarker(u)
       \/ /\ "mark" \in GitFaults
          /\ Settle(u, "marking", "unlocking", "blocked", "none")
          /\ UNCHANGED session
    /\ OnlyRun /\ UNCHANGED lock

AddTree(u) ==
    /\ \/ Step(u, "adding", "running") /\ AddWorktree(u)
       \/ Step(u, "adding", "undoing") /\ AddFails(u)
    /\ OnlyRun /\ UNCHANGED lock

UndoSession(u) ==
    /\ Settle(u, "undoing", "unlocking", "blocked", "none")
    /\ UndoCreate(u)
    /\ OnlyRun /\ UNCHANGED lock

----------------------------------------------------------------------------
\* The command, the changed files, the patch and its classification.  A
\* workspace that is gone and whatever else raises ends in "failed" without a
\* patch; an audit write that raises leaves the status as it was and goes on
\* to the finally block.  A sandbox that cannot be set up is "blocked".
RunCommand(u) ==
    /\ In(u, "running")
    /\ \E f \in Inputs, raised \in BOOLEAN :
          /\ raised => "body" \in AuditFails
          /\ \E status \in {"failed"} \cup
                 (IF ~HasTree(u) \/ f.cmd = "unknown" THEN {}
                  ELSE [ok |-> {"completed"}, failed |-> {"blocked"},
                        timed_out |-> {"timed_out"}][f.cmd]) :
                run' = [run EXCEPT ![u] = [@ EXCEPT !.pc = "deciding",
                           !.status = status,
                           !.facts = IF status = "failed" THEN [f EXCEPT !.patch = FALSE] ELSE f,
                           !.raised = raised]]
    /\ OnlyRun /\ UNCHANGED <<lock, session>>

\* The intent evaluation, which fails closed, and finalize_guarded_patch up
\* to the approval or the automatic apply.
DecidePatch(u) ==
    /\ In(u, "deciding")
    /\ \E status \in {run[u].status, "failed"} :
          LET d == Decide(run[u].facts, status)
              to == [end |-> "reporting", ask |-> "persisting", apply |-> "checking"]
          IN run' = [run EXCEPT ![u] = [@ EXCEPT !.pc = to[d.next],
                        !.facts = IF d.next = "apply" THEN run[u].facts ELSE NoFacts,
                        !.status = d.status, !.outcome = d.outcome]]
    /\ OnlyRun /\ UNCHANGED <<lock, session>>

\* The audit writes before it are in the finally block themselves: when one
\* raises, nothing is decided and nothing is torn down.
DecisionRaises(u) ==
    /\ In(u, "deciding") /\ "body" \in AuditFails
    /\ run' = [run EXCEPT ![u] = [@ EXCEPT !.pc = "unlocking", !.facts = NoFacts,
                                           !.raised = TRUE]]
    /\ OnlyRun /\ UNCHANGED <<lock, session>>

\* _persist_pending_approval, in detail in ApprovalLifecycle.
PersistPatch(u) ==
    /\ \/ Settle(u, "persisting", "reporting", "approval_required", "pending_approval")
       \/ Settle(u, "persisting", "reporting", "failed", "apply_failed")
    /\ OnlyRun /\ UNCHANGED <<lock, session>>

----------------------------------------------------------------------------
\* auto_apply_safe_patch.  The paths must be safe, the repository clean and at
\* the baseline; a patch that is not eligible is then handed to the approval
\* path.
CheckTarget(u) ==
    /\ \/ /\ Clean(u) /\ Home(u).head = run[u].base
          /\ Step(u, "checking", IF run[u].facts.risk = "safe" THEN "applying" ELSE "persisting")
       \/ Settle(u, "checking", "reporting", "failed", "apply_failed")
    /\ OnlyRun /\ UNCHANGED <<lock, session>>

\* git apply writes the patch, or refuses what others changed meanwhile.
GitApply(u) ==
    /\ \/ /\ Step(u, "applying", "verifying")
          /\ repo' = [repo EXCEPT ![RepoOf[u]].files = @ \cup {u}]
          /\ landed' = landed \cup {u}
       \/ /\ Settle(u, "applying", "reporting", "failed", "apply_failed")
          /\ UNCHANGED <<repo, landed>>
    /\ UNCHANGED <<alive, rec, edits, lock, session>>

\* _verify_applied_patch: the diff against the baseline is the patch.  That
\* is so, too, when somebody committed just that; git may fail as well.
VerifyApplied(u) ==
    /\ \/ /\ Home(u).files = {u} \/ Clean(u)
          /\ Step(u, "verifying", "logging")
       \/ Step(u, "verifying", "rolling")
    /\ OnlyRun /\ UNCHANGED <<lock, session>>

\* Fault: the error of the audit write is not taken as a failure.
LogApplyLoosely(u) ==
    /\ \/ Settle(u, "logging", "reporting", "completed", "applied")
       \/ "apply" \in AuditFails /\ Settle(u, "logging", "reporting", "failed", "apply_failed")
    /\ OnlyRun /\ UNCHANGED <<lock, session>>

LogApply(u) ==
    /\ \/ Settle(u, "logging", "reporting", "completed", "applied")
       \/ "apply" \in AuditFails /\ Step(u, "logging", "rolling")
    /\ OnlyRun /\ UNCHANGED <<lock, session>>

\* _rollback_after_failed_apply: git apply --reverse, then the repository must
\* be clean and at the baseline again.
RollBack(u) ==
    /\ In(u, "rolling")
    /\ \/ /\ u \in Home(u).files
          /\ repo' = [repo EXCEPT ![RepoOf[u]].files = @ \ {u}]
          /\ landed' = landed \ {u}
          /\ Settle(u, "rolling", "reporting", "failed",
                    IF Home(u) = [head |-> run[u].base, files |-> {u}]
                    THEN "apply_failed" ELSE "unrestored")
       \/ /\ Settle(u, "rolling", "reporting", "failed", "unrestored")
          /\ UNCHANGED <<repo, landed>>
    /\ UNCHANGED <<alive, rec, edits, lock, session>>

\* The audit event of the outcome.  When it raises, the run is a failed one;
\* when the event of the failure raises as well, nothing is torn down.
Report(u) ==
    /\ In(u, "reporting")
    /\ \/ run' = [run EXCEPT ![u] = [@ EXCEPT !.pc = "cleaning", !.facts = NoFacts]]
       \/ /\ "final" \in AuditFails
          /\ \/ Settle(u, "reporting", "cleaning", "failed", "apply_failed")
             \/ run' = [run EXCEPT ![u] = [@ EXCEPT !.pc = "unlocking", !.raised = TRUE,
                           !.status = "failed", !.outcome = "apply_failed"]]
    /\ OnlyRun /\ UNCHANGED <<lock, session>>

----------------------------------------------------------------------------
\* destroy_recovery_session, unless the workspace is to be preserved.  (An
\* audit write that raises after it changes nothing any more.)
CleanUp(u) ==
    /\ In(u, "cleaning")
    /\ \/ u \in Preserving /\ Step(u, "cleaning", "unlocking")
       \/ u \notin Preserving /\ Owned(u) /\ Step(u, "cleaning", "removing")
       \/ /\ u \notin Preserving /\ ~Owned(u)
          /\ Settle(u, "cleaning", "unlocking", "cleanup_failed", run[u].outcome)
       \/ /\ u \notin Preserving /\ "cleanup" \in AuditFails
          /\ run' = [run EXCEPT ![u] = [@ EXCEPT !.pc = "unlocking", !.raised = TRUE]]
    /\ OnlyRun /\ UNCHANGED <<lock, session>>

CleanupFails(u, from) == Settle(u, from, "unlocking", "cleanup_failed", run[u].outcome)

RemoveTree(u) ==
    /\ \/ Step(u, "removing", "clearing") /\ RemoveWorktree(u, "removed")
       \/ CleanupFails(u, "removing") /\ RemoveWorktree(u, "quarantined")
       \/ CleanupFails(u, "removing") /\ RemoveWorktree(u, "failed")
    /\ OnlyRun /\ UNCHANGED lock

ClearSession(u) ==
    /\ \/ Step(u, "clearing", "emptying") /\ ClearMarker(u, "cleared")
       \/ CleanupFails(u, "clearing") /\ ClearMarker(u, "quarantined")
       \/ Step(u, "clearing", "emptying") /\ ClearMarker(u, "no marker")
       \/ /\ ClearMarker(u, "gone")    \* iterdir raises
          /\ In(u, "clearing")
          /\ run' = [run EXCEPT ![u] = [@ EXCEPT !.pc = "unlocking", !.raised = TRUE]]
    /\ OnlyRun /\ UNCHANGED lock

EmptySession(u) ==
    /\ \/ Step(u, "emptying", "unlocking") /\ RemoveDir(u, "removed")
       \/ CleanupFails(u, "emptying") /\ RemoveDir(u, "failed")
    /\ OnlyRun /\ UNCHANGED lock

\* The finally of the guard: unlink, whoever's file is there now.
DropLock(u) ==
    /\ Step(u, "unlocking", "done")
    /\ Unlock(RepoOf[u])
    /\ OnlyRun /\ UNCHANGED session

----------------------------------------------------------------------------
\* A recovery pass: the gate over the guarded-run locks, the workspaces, the
\* stale locks.

OnlyPass == UNCHANGED <<alive, run, World>>

BeginPass(q) ==
    /\ StartsOverlap \/ ~ \E u \in Runs : Acquiring(u)
    /\ OpenPass(q)
    /\ OnlyPass /\ UNCHANGED session

EnterWorkspaces(q) ==
    /\ PassGate(q, "gated", "listing", "swept")
    /\ OnlyPass /\ UNCHANGED session

\* _reconcile_workspaces: iterdir.
ListWorkspaces(q) ==
    /\ At(q, "listing")
    /\ rec' = [rec EXCEPT ![q].pc = "workspaces",
                  ![q].todo = {u \in Runs : session[u] \notin {"none", "quarantined"}}]
    /\ OnlyPass /\ UNCHANGED <<lock, session>>

\* Fault: only sessions with a registered worktree are recovered.
RecoverWorkspaceTrees(q) ==
    /\ At(q, "workspaces")
    /\ \E u \in rec[q].todo :
          /\ IF session[u] = "tree" THEN Take(q, u, "removing") ELSE Skip(q, u)
          /\ UNCHANGED session
    /\ OnlyPass /\ UNCHANGED lock

\* _recover_workspace: without a marker nothing is touched; unregistered files
\* go to quarantine; a session without files loses its marker; a worktree is
\* destroyed as a run destroys its own.
RecoverWorkspace(q) ==
    /\ At(q, "workspaces")
    /\ \E u \in rec[q].todo :
          \/ session[u] = "tree" /\ Take(q, u, "removing") /\ UNCHANGED session
          \/ session[u] = "marked" /\ Take(q, u, "clearing") /\ UNCHANGED session
          \/ session[u] = "stray" /\ Skip(q, u) /\ Put(u, "quarantined")
          \/ /\ session[u] \in {"none", "bare", "unmarked", "quarantined"}
             /\ Skip(q, u) /\ UNCHANGED session
    /\ OnlyPass /\ UNCHANGED lock

DestroyTree(q) ==
    /\ At(q, "removing")
    /\ \/ RemoveWorktree(Item(q), "removed") /\ Move(q, "clearing")
       \/ RemoveWorktree(Item(q), "quarantined") /\ Drop(q, "workspaces")
       \/ RemoveWorktree(Item(q), "failed") /\ Drop(q, "workspaces")
    /\ OnlyPass /\ UNCHANGED lock

DestroyMarker(q) ==
    /\ At(q, "clearing")
    /\ \/ ClearMarker(Item(q), "cleared") /\ Move(q, "emptying")
       \/ ClearMarker(Item(q), "quarantined") /\ Drop(q, "workspaces")
       \/ ClearMarker(Item(q), "no marker") /\ Drop(q, "workspaces")
       \/ ClearMarker(Item(q), "gone") /\ Drop(q, "workspaces")
    /\ OnlyPass /\ UNCHANGED lock

DestroyDir(q) ==
    /\ At(q, "emptying")
    /\ RemoveDir(Item(q), "removed") \/ RemoveDir(Item(q), "failed")
    /\ Drop(q, "workspaces")
    /\ OnlyPass /\ UNCHANGED lock

LeaveWorkspaces(q) ==
    /\ At(q, "workspaces") /\ rec[q].todo = {}
    /\ Move(q, "swept")
    /\ OnlyPass /\ UNCHANGED <<lock, session>>

\* _reconcile_guarded_locks, and the end of the pass.
SweepLocks(q) ==
    /\ \/ GlobLocks(q, "swept") \/ InspectLock(q) \/ RemoveLock(q)
       \/ PassGate(q, "locks", "off", "off")
    /\ OnlyPass /\ UNCHANGED session

----------------------------------------------------------------------------
\* Others work in the trusted repository: a developer, or an approved apply.
Develop(r) ==
    /\ edits < MaxEdits
    /\ edits' = edits + 1
    /\ \/ repo' = [repo EXCEPT ![r].files = @ \cup {"dev"}]
       \/ repo' = [repo EXCEPT ![r] = [head |-> edits + 1, files |-> {}]]
    /\ UNCHANGED <<alive, lock, session, rec, run, landed>>

Exit(p) ==
    /\ p \in Mortal
    /\ ProcessExit(p)
    /\ run' = [u \in Runs |->
                  IF ProcOf[u] = p /\ ~In(u, "done")
                  THEN [run[u] EXCEPT !.pc = "dead"] ELSE run[u]]
    /\ rec' = [q \in Reconcilers |->
                  IF ProcOf[q] = p THEN [NothingYet EXCEPT !.pc = "dead"] ELSE rec[q]]
    /\ UNCHANGED <<lock, session, World>>

RunStep(u) ==
    \/ TakeLock(u) \/ ReadHolder(u) \/ JudgeHolder(u) \/ NameLock(u)
    \/ OpenSession(u) \/ MarkSession(u) \/ AddTree(u) \/ UndoSession(u)
    \/ RunCommand(u) \/ DecidePatch(u) \/ DecisionRaises(u) \/ PersistPatch(u)
    \/ CheckTarget(u) \/ GitApply(u) \/ VerifyApplied(u) \/ LogApply(u) \/ RollBack(u)
    \/ Report(u) \/ CleanUp(u) \/ RemoveTree(u) \/ ClearSession(u) \/ EmptySession(u)
    \/ DropLock(u)

PassStep(q) ==
    \/ EnterWorkspaces(q) \/ ListWorkspaces(q) \/ RecoverWorkspace(q)
    \/ DestroyTree(q) \/ DestroyMarker(q) \/ DestroyDir(q) \/ LeaveWorkspaces(q)
    \/ SweepLocks(q)

GuardedNext ==
    \/ \E u \in Runs : Begin(u) \/ RunStep(u)
    \/ \E q \in Reconcilers : BeginPass(q) \/ PassStep(q)
    \/ \E r \in Repos : Develop(r)
    \/ \E p \in Procs : Exit(p)

GuardedSpec == GuardedInit /\ [][GuardedNext]_guardedVars

\* A running process goes on, a command is bounded by its timeout, and passes
\* keep being made; nothing obliges a run to start or a process to exit.
FairGuardedSpec ==
    /\ GuardedSpec
    /\ \A u \in Runs : WF_guardedVars(RunStep(u))
    /\ \A q \in Reconcilers : WF_guardedVars(BeginPass(q)) /\ WF_guardedVars(PassStep(q))

----------------------------------------------------------------------------
\* Runs report statuses and outcomes of GuardedRunStatus and
\* GuardedPatchApplyOutcome, and sessions are in a known state.
GuardedTypeOK ==
    /\ alive \subseteq Procs /\ LocksTypeOK
    /\ session \in [Runs -> SessionState]
    /\ run \in [Runs -> [pc: RunPC, saw: Actors \cup {NoActor}, base: 0..MaxEdits,
                         facts: Facts, status: RunStatus \cup {"none"},
                         outcome: ApplyOutcome \cup {"none"}, raised: BOOLEAN]]
    /\ repo \in [Repos -> [head: 0..MaxEdits, files: SUBSET (Runs \cup {"dev"})]]
    /\ landed \subseteq Runs /\ edits \in 0..MaxEdits
    /\ \A q \in Reconcilers : rec[q].item \subseteq Runs \cup Repos

\* "guarded run already active for trusted repository": two runs are never
\* past the lock of the same repository.
OneRunPerRepo ==
    \A u, v \in Runs : u # v /\ Inside(u) /\ Inside(v) => RepoOf[u] # RepoOf[v]

\* "An active process lock protects this recovery category": the worktree of
\* a run that is still using it is not taken away.
LiveWorkspaceKept ==
    \A u \in Runs :
        run[u].pc \in {"running", "deciding", "persisting", "checking", "applying",
                       "verifying", "logging", "rolling", "reporting", "cleaning"}
            => session[u] = "tree"

\* A patch is in the trusted repository only when the command succeeded, no
\* intent rule objected and the patch was found harmless.
LandedWasAllowed ==
    \A u \in landed : run[u].pc \in {"verifying", "logging", "rolling"} =>
        /\ run[u].facts.cmd = "ok" /\ run[u].facts.patch
        /\ run[u].facts.risk = "safe" /\ run[u].facts.intent = "clear"

\* "failed closed": a run that reports anything but an applied patch, or a
\* repository it could not restore, has left no patch behind.
FailedRunChangedNothing ==
    \A u \in Runs :
        run[u].outcome \in {"not_generated", "not_applied", "pending_approval", "apply_failed"}
            /\ run[u].pc \in {"reporting", "cleaning", "removing", "clearing",
                              "emptying", "unlocking", "done"}
            => u \notin landed

\* A workspace that its run abandoned is removed or quarantined, as long as
\* no lock file without an owner closes the gate.
AbandonedSessionSettles ==
    \A u \in Runs :
        /\ run[u].pc = "dead"
        /\ session[u] \in {"marked", "tree", "stray"}
        ~> session[u] \in {"none", "quarantined"} \/ UnverifiableLock

=============================================================================
