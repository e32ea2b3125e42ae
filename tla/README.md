# Rygnal Core: verification

TLA+ models of the parts of Rygnal that decide, change or record something:
tool calls, guarded runs and the commands they supervise, the assessment of
patches, patch artifacts, approvals, applies, recovery and the audit log with its
database migrations. TLC checks the models on small instances, and liveness only
there; TLAPS proves every safety property of the runs for any size, some of them
under the conditions section 4 names. `PROJECT.json` maps every definition to the
source lines it stands for.

## 1. The system

Rygnal runs an agent's command in a disposable git worktree, turns what it
changed into a patch, decides whether the patch may be applied to the *trusted
repository* automatically, must be approved by a person, or is refused, and
records all of it in an audit log. A patch that needs approval becomes a durable
*artifact* with a request in the *approval queue*; an approved artifact is
applied later, usually by another process. A *recovery pass* repairs what
processes that died left behind. Beside that, the *interceptor* scores single
tool calls of an agent, asks a policy and possibly a reviewer, and runs the tool.

### Components, state, operations

| Component | Source (`src/src/rygnal/`) | State | Operations |
|---|---|---|---|
| Operation store | `operation_store.py` | SQLite tables `operations`, `resource_leases` | reserve, mark applying/applied/failed, list and settle incomplete ones |
| Patch artifact store | `patch_artifact.py` | one JSON file and one lock file per artifact | persist, load, delete, consume, apply approved |
| Approval service, approved apply | `approval_service.py`, `approved_apply.py` | trusted repository, audit events, used approvals of the process | approve, reject, apply |
| Approval queue | `approval_queue.py`, `approval_state.py`, `approval_authorization.py`, `approval_receipt.py` | SQLite table of requests and decisions | submit, record decision |
| Guarded runner | `guarded_runner.py` | lock file per repository, run result | run, assess the patch |
| Patch finalizer | `guarded_patch_finalizer.py` | none | decide, persist and submit, apply automatically |
| Safe apply | `safe_apply.py` | trusted repository | check, apply, verify, roll back |
| Recovery session | `recovery_session.py` | session directory, owner marker, git worktree | create, destroy, quarantine |
| Recovery reconciler | `recovery_reconciler.py` | none of its own | gate, stale locks, workspaces, operations, artifacts |
| Audit log | `audit_logger.py`, `audit_storage.py`, `audit_query.py` | hash-chained events in JSONL and SQLite, file lock | write, verify, query |
| Migrations | `sqlite_migrations.py`, `sqlite_runtime.py` | schema record, backups, marker, migration lock | open, migrate, back up, restore |
| Tool interceptor | `interceptor.py`, `tool_executor.py`, `approval.py`, `core.py` | audit events, tool handlers | intercept, evaluate, register |
| Risk engine | `risk_engine.py`, `subjective_risk.py` | scores per trace | score a request |
| Policy engine | `policy_engine.py`, bundled policies | the loaded policy | load, evaluate |
| Change risk and gate | `change_risk.py`, `change_gate.py`, `diff_limits.py`, `dependency_governance.py`, `action_intent.py` | none | classify, gate, eligibility |
| Intent | `action_normalizer.py`, `capability_matcher.py`, `intent_fallback_policy.py` | none | normalize, match, combine |
| Execution backends | `execution_backend.py`, `production_containment.py`, part of `guarded_runner.py` | process tree, reader threads | select, run, stop |
| Interfaces | `api*.py`, `engine_api.py`, `cli*.py`, Go CLI and engine client | configuration | requests |
| Kernel | Rust | none | classification of source text |

### How they interact

The stores share the file system and no transaction. A guarded run writes the
artifact file, then the queue. The service reads the queue and the artifact,
commits a decision, then writes an audit event. An apply reserves in the
operation store, takes the artifact lock, checks the repository, runs git, writes
the audit event that counts as *evidence*, consumes the artifact and completes
the operation. A recovery pass reads all of these, in another process, and
decides from what it read a moment ago. Nothing but the operation lease, the lock
files and the single SQLite transactions excludes anybody. Tool calls run in
threads of one process that share the risk history, which no lock protects. A supervised command is a process
tree that shares pipes with two reader threads and obeys nobody.

### What is hard

- processes interleave between any two file, database or git accesses;
- a process may die after any of them, and a git child may outlive it;
- a lock file is created empty, filled afterwards, and removed by path;
- recovery lists first and acts later;
- an audit write may fail after the thing it reports has happened;
- a line of the log may be torn, and a migration interrupted at any point;
- the kernel is asked twice about one patch and may answer differently;
- an artifact is applied later by gates that look at what was stored;
- a timeout races the end of the command, its descendants and the readers;
- callers retry.

### What makes each component correct

- operation store: tables agree, one operation per repository, tokens identify
  reservations, a success is final;
- apply: one writer per repository, evidence is true and complete, no patch is
  written again once it is recorded, a failure leaves nothing;
- recovery: never acts against a live owner, completes what was interrupted,
  settles what was abandoned;
- approvals: nothing is consumed without a decision by someone entitled to it;
  the log tells the decision that was taken; orphans and expired requests settle;
- guarded runs: one per repository, no harmful or failed patch lands, a failed
  run changed nothing, no workspace is lost or taken away from a live run;
- audit log: the chain verifies and keeps what was acknowledged, a restore loses
  nothing, a foreign database is left alone, calls end;
- tool calls: what runs was permitted and logged, the caller is told the truth,
  repeated risk escalates, a policy fails closed;
- assessment: no answer of the kernel opens or closes the gate, a second
  classification lowers nothing, what lands unasked is harmless and in scope,
  what was approved can be applied;
- supervision: results are complete, what is stopped is dead, the call ends.

## 2. The modules

| Module | Models | Extends |
|---|---|---|
| `Processes` | process incarnations and their exit | |
| `RygnalSystem` | artifacts | `Processes` |
| `LockFiles` | a directory of pid lock files | `Processes` |
| `OperationStore` | `operation_store.py`, one action per transaction | `RygnalSystem` |
| `OperationStoreProofs` | its theorems | `OperationStore`, `TLAPS` |
| `ArtifactStore` | artifact files and locks | `RygnalSystem`, `LockFiles` |
| `ApplyPipeline` | `apply_artifact` down to git | `OperationStore`, `ArtifactStore` |
| `ApplyOnce` | abstract specification of applies and recovery together | |
| `RecoveryPass` | gate and stale-lock sweep of a pass | `LockFiles` |
| `CrashRecovery` | settling operations and interrupted applies; implements `ApplyOnce` | `ApplyPipeline`, `RecoveryPass` |
| `CrashRecoveryProofs` | theorems about applies and recovery, the refinement | `CrashRecovery`, `OperationStoreProofs` |
| `ApprovalQueue` | queue transactions, state machine, authorization | `RygnalSystem` |
| `ApprovalLifecycle` | persist, submit, decide, consume; orphans and expiry in recovery | `ApprovalQueue`, `ArtifactStore`, `RecoveryPass` |
| `ApprovalLifecycleProofs` | its theorems | `ApprovalLifecycle` |
| `PatchDecision` | the decision order of `finalize_guarded_patch` | |
| `RecoverySession` | the disposable workspace | |
| `GuardedRun` | the guarded run with automatic apply; workspaces in recovery | `PatchDecision`, `RecoverySession`, `RecoveryPass` |
| `GuardedRunProofs` | its theorems | `GuardedRun` |
| `GuardedCommand` | choice of a backend, supervision of the process tree | |
| `GuardedCommandProofs` | its theorems | `GuardedCommand` |
| `PathTables` | what the four pattern tables say of paths and added lines | |
| `ChangeRisk` | risk report, limits, gate, eligibility | `PathTables` |
| `IntentMatching` | actions, scopes, matching, fallback | `PathTables` |
| `PatchAssessment` | the assessment of one patch from classification to apply | `ChangeRisk`, `IntentMatching`, `PatchDecision` |
| `PatchAssessmentProofs` | its theorems | `PatchAssessment` |
| `RiskScore` | scoring of a tool request | |
| `PolicyRules` | validation, order and evaluation of rules; bundled policies | |
| `ToolInterceptor` | tool calls in threads | `RiskScore`, `PolicyRules` |
| `ToolInterceptorProofs` | theorems about policies, calls and histories | `ToolInterceptor` |
| `SqliteMigration` | opening a database | `Processes` |
| `AuditLog` | store, mirror and plain log; verification and query | `SqliteMigration` |
| `AuditLogProofs` | theorems about both | `AuditLog` |

`MC*.tla` give the constants values. Definitions introduced by *Fault:* are
deliberately wrong forms of the definition that follows them; the mutants of
`PROJECT.json` put them in its place to show that a property can fail.

### Correspondence

*OperationStore.* An operation key is the digest of artifact, approval, patch,
baseline and repository; an artifact fixes all but the last, so a key is a pair
`<<artifact, repository>>`. `operations[k]` is the row, `leases[r]` the lease.
Owner tokens are uuids, hence numbered in the order of issue. `Reserve` is the
acquiring branch of `reserve_artifact_apply`; its refusals change nothing.
`MarkApplying`, `MarkApplied`, `MarkFailed` are `_owned_transition` with its
WHERE clause `Owns`; `RecoverTerminal` is `_recover_terminal`, which has none.

*ApplyPipeline.* A worker is a call of `apply_artifact`; `pc[w]` is where it
stands and every action is one access to one store. `repo[r]` keeps whether HEAD
is the baseline and which changes are uncommitted: a patch (whole or torn) or
somebody's own. `evidence` holds the `approved_patch_apply` audit events,
`used` the in-memory set of used approvals, `history` (ghost) what git really
wrote. `DurableWriteFails` is any store raising after the repository changed.

*RecoveryPass, CrashRecovery.* `rec[q]` holds the position of a pass and the
lists it made, so staleness is explicit: `JudgeOperation` uses the owner that was
listed, `InspectOperation` looks at the repository, `SettleOperation` writes.

*ApplyOnce.* The durable record of an artifact moves from open over recorded to
spent; a patch may be written again only while it is open; an operation is told
*applied* only about a recorded patch and for good. Under the refinement mapping
of `CrashRecovery`, `record` is computed from the artifact's state and the
evidence, `writing` from the workers whose `pc` is `"writing"`, `written` from
the ghost `history` and `told` from the rows of the operation store. Tokens,
leases, locks, passes and process deaths are hidden: all their steps stutter or
end a write.

*ApprovalLifecycle.* `run[u]` walks through `_persist_pending_approval`, `call[d]`
through a reviewer's request by the service (bound to the patch) or by the queue
endpoints (unbound); `seen[q]` is the queue as a pass listed it. A receipt is a
number that is fresh for every approval object, because its hash covers
`decided_at`. `ApplyApproved` stands for the whole of ApplyPipeline.

*GuardedRun.* `run[u].pc` walks through `run_guarded`; `session[u]` is the
directory. The command, the risk classification and the intent evaluation are
the inputs `Facts`; `Decide` combines them in the order of the code.
`landed` (ghost) holds the runs whose patch is in the repository. The two inputs
have modules of their own, `GuardedCommand` and `PatchAssessment`; the latter
uses the same `Decide`.

*GuardedCommand.* `kin` is the process tree: the leader (bwrap itself in a
sandbox), a child in its group and a stray that left the group. `call.pc` is the
supervising thread, `capture[s]` a reader thread with its `_StreamCapture`.
`doomed` are processes with a deadly signal on its way, `deaf` those that ignore
SIGTERM. A wait with a timeout is two actions, one for the event and one for the
clock. Output is counted in units, in production only: the other backends keep
all of it.

*PathTables, ChangeRisk, IntentMatching.* Four files of the code keep tables of
path patterns, and they do not agree. There is a representative path, or kind of
added line, for every way in which they differ, and a table is the set of those
it matches. The rest are pure operators: a report is the reasons of every file
and of the patch, a level is the highest of some reasons, a contract is matched
with one action at a time and the matches are combined.

*PatchAssessment.* `stage` walks through `classify_and_decide_patch`: the first
classification, the subjective reasons file by file, the second classification if
there are any, the contract, the finalizer and, for a pending patch, the later
apply, which uses only what `artifact` stored. The kernel is external: every call
of it may answer anything or fail.

*RiskScore, PolicyRules, ToolInterceptor.* A request is what the detectors and
the rules can tell about it. `call[c]` walks through `intercept` (or the evaluate
endpoint, which ends after the policy): the history of the trace is read with the
score, appended and trimmed in steps of their own, as the engine has no lock. `serving` is the start of the service, which may refuse a
policy. `ledger` (ghost) counts the calls of a trace that were assessed.

*SqliteMigration, AuditLog.* `mig[p]` is where a process stands in opening the
database, between any two file operations; `wr[p]` is the event it writes. An
event is its number and that of its predecessor, so that hashes are equal exactly
if the events are. A line of the JSONL file may be torn, and what is appended to
a torn line is garbage. Disk faults may strike the database, the backup and the
marker.

## 3. The runs

Deadlock checking is off throughout: everybody may be finished or dead.

| Run | Instance | Shows |
|---|---|---|
| `operation_store` | 2 artifacts, 2 repositories, 2 processes, 3 reservations | tables agree; one operation per repository; tokens unique; success final; with stale owners and recovery at any moment |
| `recovery_quiet` | 2 applies of 2 artifacts to one repository in 2 processes, passes in a third, 2 reservations, 1 foreign edit | one writer; an operation recorded as failed left nothing of its patch |
| `recovery_race` | the same with surviving git children, an artifact that expires and owners exiting while listed | lock exclusive; evidence true and complete; `ApplyOnce` implemented |
| `recovery_live` | 2 applies, fair passes | interrupted applies complete, abandoned operations settle |
| `lifecycle` | 1 run, a reviewer and the requester, passes; submit raising before and after its commit | what is consumed was granted, the log tells the decision; orphans and expired requests settle |
| `guarded_runs` | 2 runs on one repository (one preserving its workspace), passes | one run per repository; live workspaces kept; abandoned sessions settle |
| `guarded_apply` | 1 run with all 120 combinations of facts, failing git and audit calls, 2 foreign edits, a pass at any moment | only allowed patches land; a run that reports a failure changed nothing |
| `guarded_command` | every backend on all 64 kinds of host, a tree of three processes | results without a warning are complete; what is stopped is dead; the call ends |
| `patch_assessment` | patches of 1 to 4 files, 8 contracts and none, 5 commands, any kernel | no level drops; the kernel decides no gate; what lands unasked is harmless and in scope; what is approved can be applied |
| `tool_calls` | 3 calls in 2 threads, 4 modes, 2 bundled and 8 odd policies, 7 answers of a reviewer, one failing step | what runs was permitted and logged; answers true; history escalates; policies decide by precedence and fail closed |
| `audit_log` | 2 processes, stores and plain logs, databases of 7 origins, 3 events | the chain verifies and keeps what was acknowledged; restore loses nothing; foreign databases untouched; calls end |
| `recovery_takes_live_operation` | violation, see 5 | |

### Bounds

- Two contenders, one repository and one pass at a time suffice for every
  conflict here: locks and leases are pairwise. Two repositories and two
  artifacts are used where keys could be confused (`operation_store`).
- `MaxToken` bounds reservations: 3 let a key be failed, retried and contended;
  2 suffice with recovery, where a reservation is a whole apply.
- `MaxEdits` bounds what others do to the repository: 2 in `guarded_apply` let
  it become dirty and clean again behind the run's back.
- `MaxReceipts` bounds the approvals made by the service; one retry of an
  approval needs 2, which is the case described in section 5.
- `Mortal` names the processes that may die; `GitSurvives`, `Perishable`,
  `SubmitFails`, `AuditFails` and `GitFaults` switch on the failures a run is
  about. `Preserving` runs keep their workspace. `Inputs` are the facts tried.
- `ExitsWhileListed = FALSE` (`recovery_quiet`, `recovery_live`) and
  `StartsOverlap = FALSE` (`guarded_runs`) are *environment assumptions*: no
  owner exits between a pass listing and judging it; nobody starts while a run
  is taking its lock, and no run starts during a pass. The properties of those
  runs fail without them; section 5 says how. Every other run leaves them on.
- `AuditFails` lacks `"final"` in `guarded_apply` for the same reason;
  `guarded_runs` has it.
- `audit_log`: three events give a chain with a middle; one torn line, one disk
  fault and two attempts to open per process let every repair be followed by a
  second opening; `Retention = 1` makes every backup push out the one before.
- `tool_calls`: three calls are the two that fill a trace's history and the one
  that must escalate; a `HistoryLimit` of 2 makes trimming happen; one step may
  raise. One handler may be registered late, and then before the first call. An
  answer's `approved` agrees with its status. A policy given as an object is
  not validated, as in the code.
- `patch_assessment`: soft and hard limits are one apart (2 and 3 files, 4 and 5
  lines, 1 and 2 units of size, 0 and 1 binaries), so that every limit is met,
  reached and passed. Pairs of files bring the reasons of different files
  together; three and four files cross the limits on their number.
- `guarded_command`: a `Limit` of 1 and reads of 2 units with up to 3 units
  written cut a chunk in the middle, fill the buffer exactly and overflow it.

### Fairness

Weak fairness of the steps of every running worker, run and pass: each is a
sequence of system calls with bounded waits (40 lock attempts, command timeout,
SQLite busy timeout). Passes are assumed to be made again and again, as the
service start and the `recover` command do. No fairness is assumed of starting
work, of reviewers, of exits or of failures; a process that has died takes no
step.

`AuditCallsEnd` assumes weak fairness of a process that is opening the store or
writing an event; the operating system releases the locks of one that dies.

`SupervisionEnds` assumes that the supervising thread goes on and its clocks
run, that runnable reader threads run, that a deadly signal kills and that a
sandbox without its leader falls (`--die-with-parent`, its pid namespace).
Nothing makes a command end, write or close its pipes, and nothing makes an
interrupt come. `StoppedTreeIsDead` and `CommandResultIsTrue` use one timing
assumption: a grace period is long enough for a runnable thread to run and for a
sandbox without its leader to fall. `ToolInterceptor` and `PatchAssessment` have
no liveness: a call waits for a reviewer as long as the reviewer likes.

The liveness properties of recovery exempt one state, `UnverifiableLock`: a
process died between creating a lock file and writing its pid. Recovery refuses
to judge such a lock and defers what it protects until somebody removes the file.

## 4. What is proved

The theorems hold for all sets of artifacts, repositories, processes, workers,
runs, calls, reviewers and requests and for all values of the bounds of section
3. Each is `Spec => []Property` or, for an action property or a refinement,
`Spec => Property`.

| Module | Theorem | Property | Condition |
|---|---|---|---|
| `OperationStoreProofs` | `StoreTypeCorrect` | `OSTypeOK` | |
| | `LeasesMatch` | `LeaseMatchesOperation` | |
| | `TokensUnique` | `TokensIdentifyRows` | |
| | `RepoMutualExclusion` | `OneOperationPerRepo` | |
| | `AppliedStays` | `AppliedIsFinal` | |
| `CrashRecoveryProofs` | `RecoveryUsesStore` | the steps are transactions of `OperationStore` | |
| | `AuditEventsAreTrue` | `EvidenceIsTrue` | |
| | `SuccessIsBacked` | `SuccessHasEvidence` | |
| | `LockIsExclusive` | `LockHeldInside` | (a) |
| | `RecoveryImplementsApplyOnce` | `ImplementsApplyOnce` | (a) |
| | `LiveOwnerKeeps` | `LiveOwnerKeepsOperation` | (a), (b) |
| | `OneWriter` | `SingleWriter` | (a), (b), (c) |
| | `FailuresAreClean` | `FailedLeftNothing` | (a), (b), (c) |
| `ApprovalLifecycleProofs` | `LifecycleTypeCorrect` | `LifecycleTypeOK` | |
| | `ConsumedIsGranted` | `ConsumedWasGranted` | |
| | `AuditAgrees` | `AuditTellsDecision` | |
| | `DecisionsAreFinal` | decisions never change | |
| `GuardedRunProofs` | `LandedIsAllowed` | `LandedWasAllowed` | |
| | `FailedChangedNothing` | `FailedRunChangedNothing` | (d) |
| | `OneRunAtATime` | `OneRunPerRepo` | (e) |
| | `WorkspaceIsKept` | `LiveWorkspaceKept` | (e) |
| `GuardedCommandProofs` | `ResultsAreTrue` | `CommandResultIsTrue` | |
| | `StoppedTreeDies` | `StoppedTreeIsDead` | |
| `PatchAssessmentProofs` | `SecondNeverLower` | `LevelNeverDrops` | |
| | `GateIsDeterministic` | `KernelNeverDecidesGate` | |
| | `UnaskedIsHarmless` | `AppliedIsHarmless` | |
| | `ApprovedIsAppliable` | `PendingCanBeApplied` | |
| | `UnaskedIsIntended` | `EnforcedIntentHolds` | |
| `ToolInterceptorProofs` | `CallsTypeCorrect` | `CallsTyped` | |
| | `PoliciesDecide` | `LoadedPolicyDecides` | |
| | `RunsArePermitted` | `RunWasPermitted` | |
| | `ResultsHold` | `ResultIsTrue` | |
| | `RepetitionEscalates` | `RepeatedRiskEscalates` | |
| `AuditLogProofs` | `RestoreIsSafe` | `RestoreLosesNothing` | |
| | `ForeignIsLeftAlone` | `ForeignSchemaUntouched` | |
| | `StoreChainKept` | `StoreKeepsChain` | |
| | `PlainFileKept` | `PlainFileKeepsChain` | |
| | `PagesAreChained` | `VerifiedPageIsChained` | |

### Conditions

None of these is ensured by the code; section 5 tells what happens without them.
They are hypotheses of the theorem, so that it says exactly what is missing.

- (a) `[]PassesApart`: recovery passes, of whatever process, do not overlap. The
  runs have one reconciler, which has the same effect.
- (b) `~ExitsWhileListed`: no owner exits between being listed by a pass and
  being judged by it. `LiveOwnerKeeps` shows that the violation of
  `recovery_takes_live_operation` has no other cause.
- (c) `~GitSurvives`: no git child outlives the process that started it.
- (d) `"final" \notin AuditFails`: the audit event of the outcome is written.
- (e) `~StartsOverlap`: no run takes its lock while another takes one or a pass
  is made.

### Assumptions on constants

Named sets do not contain the values that stand for "none" (`NoKey`, `NoProc`,
`NoTrace`), bounds are natural numbers, tables have the types the code reads. In
particular a patch has files (the runner classifies only a report that has
some), commands have ended before their patch is assessed
(`CommandsAssumption`), and a database found at the start has rows only in a
table and an untampered chain (`OldDatabasesAssumption`). `ScoresAssumption` says
that the preliminary score of every request is between 0 and 100. That is a fact
about a capped sum over the signals of a request and needs an induction over the
signals; TLC evaluates it.

### The arguments

*Operation store.* The inductive invariant is

    StoreInv == OSTypeOK /\ TokensIssued /\ LeaseMatchesOperation /\ TokensIdentifyRows

`LeaseMatchesOperation` alone is not inductive: `_owned_transition` deletes the
lease with the caller's key *and* token, so that it needs to know the lease
carries the token of the row. Uniqueness of tokens needs `TokensIssued`: tokens
on rows do not exceed the last one issued (a new one is then fresh), and rows
that exist have a real one. Mutual exclusion follows in one step, because two
operations in progress on a repository would both be named by its only lease.

*Applies and recovery.* `Typed` is the type invariant of all stores, workers and
passes together. `EvidenceInv` adds what an actor remembers of the stores: a
call after its audit event has evidence, a pass that is about to complete an
operation has seen it. `LockInv` adds, for a pass between reading a stale lock
and removing it, that the lock is still stale; only here (a) is needed.
`StillFresh` is what refinement needs beyond that: between the search of the
audit log and its own event a call is inside the lock, so nobody else has
recorded its artifact meanwhile. Every step then maps to a step of `ApplyOnce` or
to none. `OwnerInv` ties running calls to rows and leases, and the operations a
pass has yet to judge to their owners as they are *now* if those are dead; that
is what (b) preserves. `CleanInv` says that a patch is in a worktree only while
its operation is applying or applied.

*Approvals.* `ApprovalInv` adds to the two properties that the stored decision
fits its status and was authorized when it was stored, and that whoever is about
to write an audit event carries the decision that is stored. The queue changes
only along `RowStep`.

*Guarded runs.* `FactsInv` says what is known of the facts of a patch at each
stage, so that a patch past the decision is harmless; `LandedInv` that a run
whose patch is in the repository is about to verify it, to undo it or to say so.
`SerialInv` joins five parts: who is alive, that only one run is acquiring, that
the lock names the run inside, that a pass past its gate has seen a repository
without a run, and the state of each session.

*Commands.* `CommandInv` relates what a reader thread has retained to what was
written, and the position of the supervising thread to what has been signalled
and collected. The three timing facts of the model carry the last steps.

*Assessment.* The report is a function of the patch, of the answers so far and
of the subjective reasons. `AssessmentInv` keeps that, stage by stage, together
with what the stored artifact says; lemmas about `ChangeRisk` and
`IntentMatching` say that levels grow with reasons, that no reason of the kernel
is critical, and which reasons a harmful file always has.

*Tool calls.* Sorting is shown to be a permutation by counting (as many rules
before a rule as its place says, hence every place is taken), from which
`EvaluateDecides` follows: the decision is that of the only matching rule no
other one precedes. `CallsInv` says for each call what has been logged, decided
and run at every position, `RiskInv` that the history of a trace below its limit
holds all calls assessed, and that only a trace above it is being trimmed.

*Audit log.* `AuditInv` has seven parts: opening (`MigrationInv`, the largest:
what the backup named by the marker holds at every position of every process),
the types of the file, events issued, rows stored, the mirror, the file lock and
the plain file. Pages of a query are selected by place; that every place is
taken is again shown by counting.

### Found by proving

Several definitions of the models turned out wrong and were corrected: a marker
value of `SqliteMigration` could collide with the number of a backup; the guard
of `Begin` in `GuardedRun` was empty without reconcilers; two definitions of
`PatchAssessment` looked at the added lines of files that are deleted or binary,
which the code does not read. None changed the outcome of a run. The conditions
(a) to (e) came out of the same attempts; (a) was not known before.

### Only model-checked

The liveness properties: `InterruptedApplyCompletes`, `AbandonedOperationSettles`,
`OrphanSettles`, `ExpiredSettles`, `AbandonedSessionSettles`, `AuditCallsEnd`,
`SupervisionEnds`. Liveness under fairness is out of the prover's reach, and so
is what recursive definitions compute for inputs of any length
(`ScoresAssumption`).

## 5. Findings

One is a run with expected outcome *violation*, on behaviour the code has:
`recovery_takes_live_operation`. `_recover_terminal` does not compare the owner
token of the listed record. An owner that fails, releases and exits after being
listed makes the pass terminate the operation of the next owner.

Seen while modelling and not kept as runs. Recovery and applies:

- The queue is listed once per pass (`recovery_reconciler.py:907`). A pass between
  a run's persist and its submit quarantines an artifact that by then has a
  request, which can be neither approved nor rejected nor applied.
- Evidence is matched without the repository (`recovery_reconciler.py:777`): with
  a second clone as target, an abandoned operation is recorded as applied though
  its patch was never written there.
- Passes exclude each other by nothing, and a stale lock is removed by path
  (`recovery_reconciler.py:686`): of two passes that judged the same lock stale
  the slower one can remove the lock a call has taken in between. With two
  reconcilers `LockHeldInside` fails; the proof needs `PassesApart`.
- A git child that outlives its parent writes after recovery has released the
  repository (`operation_store.py:467`): with `GitSurvives`, `SingleWriter` fails.
- `submit` reads the queue after its commit (`approval_queue.py:262`); when that
  raises, the run deletes the artifact of a durable request.
- Repeating the same approval is refused: the receipt hash covers the time of
  the decision (`approval_receipt.py:200`), although the queue means to "Compare
  semantic idempotency, excluding timestamps" (`approval_queue.py:480`).

Guarded runs:

- An empty lock file reads as stale (`guarded_runner.py:430`): two runs that
  start together both enter, and `OneRunPerRepo` fails with `StartsOverlap`.
- When the audit event of the outcome cannot be written
  (`guarded_runner.py:1133`), a run that applied its patch reports a failed apply.
- A workspace preserved by configuration is removed by the next pass: its marker
  is that of an abandoned one (`guarded_runner.py:1157`).
- The workspace gate is read once per pass (`recovery_reconciler.py:198`): a run
  that starts during the pass can lose its workspace.
- An interrupt in production stops nothing, and closing a stream waits for the
  read in progress (`production_containment.py:473`). In the other backends a
  command that ended, with a descendant that keeps the pipes, is a timeout.
- Bubblewrap is verified once per process (`production_containment.py:211`).

Assessment and tool calls:

- A rename is judged by its new path: moving a source file into the
  documentation is applied automatically (`safe_apply.py:276`,
  `change_risk.py:724`). `AppliedIsHarmless` speaks of new paths for that reason.
- When collecting subjective reasons fails, lock markers found before are lost
  (`subjective_risk.py:314`).
- A destructive line is weighed with the path as it is spelt, other tables use
  the lowered path: `Scripts/Deploy.py` is a script in one place only.
- A symbol scope that matches one path of an action covers all of its paths;
  `EnforcedIntentHolds` speaks of path scopes only.
- Calls of a trace that overlap do not count for each other (`risk_engine.py:687`)
  and both may trim the history (`risk_engine.py:736`).

## 6. What is not modelled, and the plan

`PROJECT.json` lists every component with its status. Left out:

- output, argument parsing, configuration, authentication and the command line;
  redaction; receipts and reviews of intent, which only write audit events;
- parsing: git output, patches, contracts, requests; the string forms of paths
  (`path_safety.py`, ignore rules), whose refusals are branches of the models;
- `production_qualification.py`, which gathers the probes `GuardedCommand` takes
  as inputs into a signed report; mounts and namespaces; anything but POSIX;
- the contents of the pattern tables beyond their representatives;
- the Rust kernel, which answers at will in `PatchAssessment`;
- the Go front end, a client that keeps no durable state of the approval path.

File formats and digests are reduced to valid or not, and SQLite transactions
are atomic and durable. A pid is an incarnation: its reuse is not modelled.

Next:

1. Proofs: conditions (a) and (b) replaced by weaker ones, such as passes that
   overlap on different artifacts; step simulation between `GuardedRun` and the
   `Decide` of `PatchAssessment`.
2. A composition of automatic and approved applies on one repository; the Go
   review lock.
