--------------------------- MODULE PatchAssessment ---------------------------
(***************************************************************************)
(* What becomes of the patch of one guarded run: classify_and_decide_patch *)
(* in guarded_runner.py classifies it file by file, collects the           *)
(* subjective reasons and, if there are any, classifies it again; the      *)
(* intent contract is matched; the finalizer decides; and a pending patch  *)
(* is applied later from its artifact, whose report is not made anew.      *)
(* The kernel is external and may answer the same question differently.    *)
(***************************************************************************)
EXTENDS ChangeRisk, IntentMatching, PatchDecision

CONSTANTS Patches,      \* the patches considered
          Contracts,    \* the intent contracts
          NoContract,   \* a run without one
          Commands      \* the commands and how they ended

\* A patch is classified only if the run changed a file.
ASSUME PatchesAssumption ==
    \A p \in Patches : /\ p.files \in Seq({p.files[i] : i \in DOMAIN p.files}) \ {<<>>}
                       /\ \A i \in DOMAIN p.files : IsFile(p.files[i])
                       /\ p.size \in Nat /\ p.ignored \in BOOLEAN
ASSUME ContractsAssumption == \A c \in Contracts : IsContract(c)
\* A patch is collected only after the backend returned.
ASSUME CommandsAssumption == \A c \in Commands : c.end \in CommandEnd \ {"unknown"}

VARIABLES
    patch, contract, cmd,   \* what the run was given and what it did
    stage,      \* where the assessment is
    report,     \* the risk report, as far as it is made
    first,      \* the level of the first classification
    subjective, \* subjective reasons collected
    at,         \* the next file to collect them for
    status,     \* the status of the run
    hint,       \* the effective hint of the intent evaluation
    outcome,    \* what became of the patch
    artifact    \* what is stored with a pending patch

vars == <<patch, contract, cmd, stage, report, first, subjective, at, status,
          hint, outcome, artifact>>

NoArtifact == [report |-> [files |-> <<>>, reasons |-> {}], forced |-> FALSE]
given == <<patch, contract, cmd>>

Init ==
    /\ patch \in Patches /\ contract \in Contracts \cup {NoContract} /\ cmd \in Commands
    /\ stage = "classify"
    /\ report = [files |-> <<>>, reasons |-> {}]
    /\ first = Low /\ subjective = {} /\ at = 1
    /\ status = "completed" /\ hint = "none"
    /\ outcome = "none" /\ artifact = NoArtifact

-----------------------------------------------------------------------------
\* classify_patch_risk.
ClassifyFile ==
    LET i == Len(report.files) + 1
    IN  /\ stage \in {"classify", "reclassify"} /\ i <= Len(patch.files)
        /\ \E answer \in KernelAnswer :
             report' = [report EXCEPT !.files = Append(@, FileReasons(patch.files[i], answer))]
        /\ UNCHANGED <<given, stage, first, subjective, at, status, hint, outcome, artifact>>

FinishReport ==
    /\ stage \in {"classify", "reclassify"}
    /\ Len(report.files) = Len(patch.files)
    /\ report' = [report EXCEPT !.reasons = PatchReasons(patch, subjective)]
    /\ IF stage = "classify"
       THEN first' = ReportLevel(report') /\ stage' = "subjective"
       ELSE stage' = "intent" /\ UNCHANGED first
    /\ UNCHANGED <<given, subjective, at, status, hint, outcome, artifact>>

\* The classification raises, by an error the runner handles (the run has
\* failed) or by one that it does not: there is no report either way.
ClassificationFails ==
    /\ stage \in {"classify", "reclassify"}
    /\ stage' = "intent" /\ status' \in {"failed", status}
    /\ report' = NoArtifact.report
    /\ UNCHANGED <<given, first, subjective, at, hint, outcome, artifact>>

-----------------------------------------------------------------------------
\* Fault: a subjective reason asks for attention only.
SubjectiveReasonMedium(judgment) ==
    When(judgment \in {"approval_required", "block"},
         Reason("subjective-human-context-risk", Medium))

\* evaluate_subjective_risk, when it does not raise (see CollectionFails).
Judgment == {"unavailable", "allow", "approval_required", "block"}

\* subjective_assessment_to_reason, with critical_block off.
SubjectiveReason(judgment) ==
    When(judgment \in {"approval_required", "block"},
         Reason("subjective-human-context-risk", High))

LockReason == Reason("subjective-human-context-risk", Critical)

\* collect_subjective_patch_reasons, for the next file.  A locked file needs no
\* kernel; a file of low risk is passed over; without a kernel nothing is said.
CollectSubjective ==
    /\ stage = "subjective" /\ at <= Len(patch.files)
    /\ patch.files[at].mode # "submodule"
    /\ IF patch.files[at].locked
       THEN subjective' = subjective \cup LockReason
       ELSE IF Highest(report.files[at]) = Low THEN UNCHANGED subjective
       ELSE \E judgment \in Judgment :
              subjective' = subjective \cup SubjectiveReason(judgment)
    /\ at' = at + 1
    /\ UNCHANGED <<given, stage, report, first, status, hint, outcome, artifact>>

\* A file that cannot be read (a submodule never can), a failing git or a
\* failing kernel: one reason stands for the whole collection.
CollectionFails ==
    /\ stage = "subjective" /\ at <= Len(patch.files)
    /\ subjective' = Reason("subjective-risk-collection-failed", High)
    /\ at' = Len(patch.files) + 1
    /\ UNCHANGED <<given, stage, report, first, status, hint, outcome, artifact>>

FinishSubjective ==
    /\ stage = "subjective" /\ at > Len(patch.files)
    /\ IF subjective = {}
       THEN stage' = "intent" /\ UNCHANGED report
       ELSE stage' = "reclassify" /\ report' = NoArtifact.report
    /\ UNCHANGED <<given, first, subjective, at, status, hint, outcome, artifact>>

-----------------------------------------------------------------------------
EvaluateIntent ==
    /\ stage = "intent"
    /\ hint' = IF contract = NoContract THEN "none"
               ELSE IntentHint(cmd, patch.files, contract)
    /\ stage' = "final"
    /\ UNCHANGED <<given, report, first, subjective, at, status, outcome, artifact>>

\* The evaluation or its receipt raises: it fails closed.
IntentFails ==
    /\ stage = "intent" /\ contract # NoContract
    /\ status' = "failed" /\ stage' = "final"
    /\ UNCHANGED <<given, report, first, subjective, at, hint, outcome, artifact>>

\* A report without files is none: a patch has at least one.
Verified == Len(report.files) = Len(patch.files)

RiskOf == IF ~Verified THEN "unverified"
          ELSE IF GateBlocked(report) THEN "blocked"
          ELSE IF ApprovalRequired(patch, report) THEN "approval"
          ELSE IF AutoApplySkipped(patch, report) THEN "ineligible"
          ELSE "safe"

IntentOf == CASE hint = "block" -> "block"
              [] hint = "require_approval" -> "approval"
              [] OTHER -> "clear"

FinalDecision == Decide([cmd |-> cmd.end, patch |-> patch.files # <<>>,
                         risk |-> RiskOf, intent |-> IntentOf], status)

FinalizeEnds ==
    /\ stage = "final" /\ FinalDecision.next = "end"
    /\ outcome' = FinalDecision.outcome /\ status' = FinalDecision.status
    /\ stage' = "done"
    /\ UNCHANGED <<given, report, first, subjective, at, hint, artifact>>

FinalizeApplies ==
    /\ stage = "final" /\ FinalDecision.next = "apply" /\ RiskOf = "safe"
    /\ outcome' = "applied" /\ stage' = "done"
    /\ UNCHANGED <<given, report, first, subjective, at, status, hint, artifact>>

\* The approval is forced where the risk report alone does not ask for it.
FinalizeAsks ==
    /\ stage = "final"
    /\ \/ FinalDecision.next = "ask"
       \/ FinalDecision.next = "apply" /\ RiskOf = "ineligible"
    /\ artifact' = [report |-> report, forced |-> ~ApprovalRequired(patch, report)]
    /\ outcome' = "pending_approval" /\ status' = "approval_required"
    /\ stage' = "pending"
    /\ UNCHANGED <<given, report, first, subjective, at, hint>>

-----------------------------------------------------------------------------
\* Fault: the report is made anew, when the workspace is long gone.
StoredReportReclassified ==
    [files |-> [i \in DOMAIN patch.files |-> OwnReasons(patch.files[i])],
     reasons |-> PatchReasons(patch, {})]

\* to_risk_report: the artifact has the report the approval was asked for.
StoredReport == artifact.report

ApplyRefused == \/ GateBlocked(StoredReport)
                \/ ~ApprovalRequired(patch, StoredReport) /\ ~artifact.forced

\* apply_approved_patch, once the approval is granted.
ApplyApproved ==
    /\ stage = "pending"
    /\ outcome' = IF ApplyRefused THEN "refused" ELSE "approved"
    /\ stage' = "done"
    /\ UNCHANGED <<given, report, first, subjective, at, status, hint, artifact>>

Next ==
    \/ ClassifyFile \/ FinishReport \/ ClassificationFails
    \/ CollectSubjective \/ CollectionFails \/ FinishSubjective
    \/ EvaluateIntent \/ IntentFails
    \/ FinalizeEnds \/ FinalizeApplies \/ FinalizeAsks
    \/ ApplyApproved

Spec == Init /\ [][Next]_vars

-----------------------------------------------------------------------------
Assessed == stage \in {"intent", "final", "pending", "done"} /\ Verified

\* The subjective reasons make the patch be classified a second time, and the
\* kernel may fail or change its mind meanwhile; the level of the report is
\* never below that of the first classification (classify_and_decide_patch:
\* the subjective layer "never ... downgrades a risky deterministic decision").
LevelNeverDrops == Assessed => ReportLevel(report) >= first

\* The facts of a patch that are critical whatever the kernel says.
CriticalFile(f) ==
    \/ f.path \in {".env", "keys/server.pem"} \/ f.mode = "symlink"
    \/ AddedLines(f) \cap {"credential", "password", "rm", "drop", "skip", "decode"} # {}
    \/ f.path = "scripts/run.sh" /\ AddedLines(f) \cap {"chmod", "pipe"} # {}

OverHardLimit(p) ==
    \/ Len(p.files) > Limits["changed_files"].hard
    \/ p.size > Limits["patch_size_bytes"].hard
    \/ ChangedLines(p.files) > Limits["total_changed_lines"].hard
    \/ BinaryFiles(p.files) > Limits["binary_files"].hard

CriticalFact(p) == OverHardLimit(p) \/ \E i \in DOMAIN p.files : CriticalFile(p.files[i])

\* The change gate is closed by facts of the patch and by lock markers alone:
\* no answer of the kernel, to either question and in either classification,
\* closes it ("It must not independently create a BLOCKED guarded-run status",
\* change_risk.py) and none opens it.
KernelNeverDecidesGate ==
    Assessed =>
      /\ CriticalFact(patch) => GateBlocked(report)
      /\ GateBlocked(report) => \/ CriticalFact(patch)
                                \/ \E i \in DOMAIN patch.files : patch.files[i].locked

\* A patch lands without approval only if the run ended well, nothing outside
\* it changed, it is within the soft limits, and every file of it is plain
\* documentation or test text without a lock marker (_auto_apply_skip_reasons).
AppliedIsHarmless ==
    outcome = "applied" =>
      /\ cmd.end = "ok" /\ ~patch.ignored /\ status # "failed"
      /\ patch.size <= Limits["patch_size_bytes"].soft
      /\ Len(patch.files) <= Limits["changed_files"].soft
      /\ \A i \in DOMAIN patch.files :
           LET f == patch.files[i]
           IN  /\ f.path \in {"docs/guide.md", "tests/test_app.py"}
               /\ f.mode = "plain" /\ ~f.mode_changed /\ ~f.binary /\ ~f.locked
               /\ AddedLines(f) \subseteq {"plain", "eval"}

\* An approval that was granted is never refused at the apply, although the
\* workspace and the kernel's answers the report was made from are gone
\* (PatchArtifactStore.apply_once with to_risk_report).
PendingCanBeApplied == outcome # "refused"

\* Under an enforced contract a patch that lands without approval has no path,
\* old or new, in an excluded path scope, no operation the contract leaves
\* out, and no file wholly outside the target scopes, whatever the other files
\* of the patch and the command match (match_action_to_contract and
\* _recommended_fallback).
EnforcedIntentHolds ==
    (outcome = "applied" /\ contract # NoContract) =>
      (contract.mode = "enforce" =>
        \A i \in DOMAIN patch.files :
          LET f == patch.files[i]
              both == {f.old_path, f.path}
          IN  /\ \A s \in contract.excluded :
                   s.type = "paths" /\ s.kind = "any" => s.paths \cap both = {}
              /\ FileOperation(f.kind) \in contract.allowed
                 \/ {"config_change", "dependency_change"} \cap contract.allowed # {}
              /\ contract.targets # {} =>
                   \E s \in contract.targets : s.type = "kind" \/ s.paths \cap both # {})

=============================================================================
