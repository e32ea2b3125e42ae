----------------------------- MODULE ChangeRisk -----------------------------
(***************************************************************************)
(* The risk report of a guarded patch and what is read off it:             *)
(* change_risk.py, diff_limits.py, dependency_governance.py and            *)
(* action_intent.py, then the change gate, the approval requirement and    *)
(* the eligibility for automatic apply.  A report is the reasons of every  *)
(* file and those of the patch as a whole; every level is the highest one  *)
(* of some reasons.                                                        *)
(***************************************************************************)
EXTENDS Integers, Sequences, FiniteSetsExt, PathTables

CONSTANT Limits     \* the soft and hard limit on every metric of a patch

Metric == {"changed_files", "total_changed_lines", "patch_size_bytes", "binary_files"}

\* _validate_limit_pair: only binary files may have a soft limit of zero.
ASSUME LimitsAssumption ==
    /\ Limits \in [Metric -> [soft: Nat, hard: Nat \ {0}]]
    /\ \A m \in Metric : /\ Limits[m].soft <= Limits[m].hard
                         /\ Limits[m].soft = 0 => m = "binary_files"

Low == 0
Medium == 1
High == 2
Critical == 3
Level == Low..Critical

Reason(code, level) == {[code |-> code, level |-> level]}
When(cond, reasons) == IF cond THEN reasons ELSE {}
Highest(reasons) == Max({Low} \cup {r.level : r \in reasons})
Codes(reasons) == {r.code : r \in reasons}

-----------------------------------------------------------------------------
\* A changed file.  Its text, where it can be loaded, is blank, a lockfile of
\* the expected structure, marked as generated or over the size limit.
ChangedKind == {"added", "untracked", "modified", "deleted", "renamed", "mode_changed"}
FileMode == {"plain", "exec", "symlink", "submodule"}
TextLoad == {"ok", "lfs-pointer", "invalid-encoding", "unavailable", "huge"}

IsFile(f) ==
    /\ f.path \in Path /\ f.old_path \in Path /\ f.kind \in ChangedKind
    /\ f.mode \in FileMode /\ f.mode_changed \in BOOLEAN /\ f.binary \in BOOLEAN
    /\ f.lines \subseteq Line /\ f.load \in TextLoad /\ f.text \subseteq {"blank", "valid", "marked", "large"}
    /\ f.delta \in Nat /\ f.locked \in BOOLEAN
    /\ f.kind # "renamed" => f.old_path = f.path

PathReasons(p) ==
         When(p \in SecuritySensitive, Reason("security-sensitive-path", Critical))
    \cup When(p \in DependencyFile, Reason("dependency-file-change", High))
    \cup When(p \in CiConfig, Reason("ci-config-change", High))
    \cup When(p \in InfraOrDeploy, Reason("infrastructure-or-deploy-change", High))
    \cup When(p \in AuthSecurity, Reason("auth-security-path-change", High))
    \cup When(p \in ScriptLike, Reason("script-change", High))

MetadataReasons(f) ==
         When(f.binary, Reason("binary-file-change", High))
    \cup When(f.mode = "symlink", Reason("symlink-change", Critical))
    \cup When(f.mode # "symlink" /\ f.mode_changed, Reason("file-mode-change", High))
    \cup When(f.path \in BinaryExtension, Reason("generated-executable-artifact", High))

\* extract_added_lines_by_path: a deletion and a binary file add none.
AddedLines(f) == IF f.kind = "deleted" \/ f.binary THEN {} ELSE f.lines

ContentReasons(f) ==
    UNION {When(l \in SecretLine, Reason("added-secret", Critical))
           \cup When(l \in DestructiveLine,
                     Reason("destructive-command",
                            IF f.path \in ScriptLikeAsSpelt THEN Critical ELSE High)) :
           l \in AddedLines(f)}

BaselineReason(p) ==
    IF p \in Documentation THEN Reason("documentation-change", Low)
    ELSE IF p \in TestPath THEN Reason("test-change", Low)
    ELSE Reason("project-file-change", Medium)

\* classify_patch_file_risk: only the new path of a renamed file is looked at.
OwnReasons(f) ==
    LET found == PathReasons(f.path) \cup MetadataReasons(f) \cup ContentReasons(f)
    IN  IF found = {} THEN BaselineReason(f.path) ELSE found

-----------------------------------------------------------------------------
\* Claims to skip the Rust analysis.  A text too large to be read is replaced
\* by filler, which is neither blank nor of any known structure.
ParsesAsLockfile(f) == f.load = "ok" /\ "valid" \in f.text

LockfileVerdict(f) ==
    IF f.path \notin RootPath THEN "rust-invoked"
    ELSE IF f.path \in KnownLockfile /\ ParsesAsLockfile(f) /\ "blank" \notin f.text
         THEN "bypassed" ELSE "elevated-risk"

GeneratedVerdict(f) ==
    IF f.load = "ok" /\ "marked" \in f.text /\ f.path \in GeneratedPath
    THEN "bypassed" ELSE "rust-invoked"

BypassVerdict(f) ==
    IF f.path \in LockfileName THEN LockfileVerdict(f) ELSE GeneratedVerdict(f)

TextLoaded(f) ==
    /\ f.mode \notin {"symlink", "submodule"} /\ ~f.binary
    /\ f.path \notin Notebook /\ f.load \in {"ok", "huge"}

AsksKernel(f) ==
    /\ TextLoaded(f) /\ BypassVerdict(f) # "bypassed"
    /\ f.load = "ok" /\ "large" \notin f.text

\* evaluate_criticality: no answer, or a level and an index.  The index counts
\* from MIN_ENFORCED_CRITICALITY_INDEX on; a critical answer is only HIGH.
MinEnforcedIndex == 5
KernelSilent == [risk |-> "none", index |-> 0]
KernelAnswer == {KernelSilent}
                \cup [risk: {"low", "medium", "high", "critical"},
                      index: {MinEnforcedIndex - 1, MinEnforcedIndex}]

\* Fault: the level the kernel reports is taken as it is.
EnforcedLevelAsReported(risk) == CASE risk = "high" -> High
                                   [] risk = "critical" -> Critical
                                   [] OTHER -> Low

EnforcedLevel(risk) == CASE risk \in {"high", "critical"} -> High
                         [] OTHER -> Low

BypassReasons(f) ==
    When(TextLoaded(f) /\ BypassVerdict(f) = "elevated-risk",
         Reason("lockfile-claim-invalid-structure", High))

KernelReasons(own, answer) ==
    LET level == EnforcedLevel(answer.risk)
    IN  When(answer.index >= MinEnforcedIndex /\ level > Highest(own),
             Reason("rust-criticality-signal", level))

\* _attach_criticality_shadow: the reasons of one file, given the answer of
\* the kernel (not looked at when the kernel is not asked).
FileReasons(f, answer) ==
    LET own == OwnReasons(f)
    IN  own \cup BypassReasons(f)
            \cup When(AsksKernel(f), KernelReasons(own, answer))

-----------------------------------------------------------------------------
\* A patch is its files, its size and whether ignored files changed as well.
LimitReason(metric, observed) ==
    IF observed > Limits[metric].hard THEN Reason("hard-diff", Critical)
    ELSE When(observed > Limits[metric].soft, Reason("large-diff", High))

PatchPaths(patch) == {patch.files[i].path : i \in DOMAIN patch.files}

ChangedLines(files) == MapThenSumSet(LAMBDA i : files[i].delta, DOMAIN files)
BinaryFiles(files) == Cardinality({i \in DOMAIN files : files[i].binary})

DiffLimitReasons(patch) ==
         LimitReason("changed_files", Len(patch.files))
    \cup LimitReason("total_changed_lines", ChangedLines(patch.files))
    \cup LimitReason("patch_size_bytes", patch.size)
    \cup LimitReason("binary_files", BinaryFiles(patch.files))

\* build_dependency_governance_plan: one workspace per directory and toolchain;
\* every kind of dependency file is a reason of its own to ask for approval.
GovernancePlan(patch) ==
    LET changes == {p \in PatchPaths(patch) : p \in Manifest \cup Lockfile \cup RegistryConfig}
        Workspace(t) == [manifests |-> {p \in changes : p \in Manifest /\ Toolchain(p) = t},
                         lockfiles |-> {p \in changes : p \in Lockfile /\ Toolchain(p) = t},
                         configs |-> {p \in changes : p \in RegistryConfig /\ Toolchain(p) = t}]
    IN  {Workspace(Toolchain(p)) : p \in changes}

NeedsTreeDelta(ws) == ws.manifests # {} \/ ws.lockfiles # {}
NeedsRegistryApproval(ws) == ws.configs # {} \/ ws.manifests # {}

GovernanceReasons(patch) ==
    LET plan == GovernancePlan(patch)
    IN  When(plan # {},
             Reason("dependency-governance-required",
                    IF \E ws \in plan : NeedsTreeDelta(ws) \/ NeedsRegistryApproval(ws)
                    THEN High ELSE Medium))

\* classify_action_intent: path and line evidence is collected by intent, and
\* an intent has a fixed severity.  Only HIGH and CRITICAL ones are passed on.
IntentSeverity(c) ==
    CASE c \in {"secret", "destructive", "bypass"} -> Critical
      [] c \in {"dependency", "network", "ci", "infra", "auth", "audit"} -> High
      [] OTHER -> Medium

ActionIntents(patch) ==
    UNION {PathIntents(patch.files[i].path)
           \cup UNION {LineIntents(l) : l \in AddedLines(patch.files[i])} :
           i \in DOMAIN patch.files}

ActionIntentReasons(patch) ==
    UNION {When(IntentSeverity(c) >= High, Reason("action-intent", IntentSeverity(c))) :
           c \in ActionIntents(patch)}

\* classify_patch_risk, but for the files.
PatchReasons(patch, validation) ==
    validation \cup DiffLimitReasons(patch) \cup GovernanceReasons(patch)
               \cup ActionIntentReasons(patch)

AllReasons(report) == report.reasons \cup UNION {report.files[i] : i \in DOMAIN report.files}
ReportLevel(report) == Highest(AllReasons(report))

-----------------------------------------------------------------------------
\* change_gate.py, patch_approval.py and safe_apply.py.
GateBlocked(report) == \E r \in AllReasons(report) : r.level = Critical

DocsOrTestsOnly(reasons) ==
    /\ Highest(reasons) = Low
    /\ reasons # {} /\ Codes(reasons) \subseteq {"documentation-change", "test-change"}

ApprovalRequired(patch, report) ==
    /\ ~GateBlocked(report)
    /\ \/ patch.ignored
       \/ ReportLevel(report) # Low
       \/ \E r \in report.reasons : r.level >= Medium
       \/ \E i \in DOMAIN report.files : ~DocsOrTestsOnly(report.files[i])

\* Fault: only a change of the mode is looked at.
UnsafeModeChange(f) == f.mode_changed

UnsafeMode(f) == f.mode # "plain" \/ f.mode_changed

AutoApplySkipped(patch, report) ==
    \/ GateBlocked(report)
    \/ patch.files = <<>>
    \/ patch.ignored
    \/ ReportLevel(report) # Low
    \/ {"large-diff", "hard-diff"} \cap Codes(report.reasons) # {}
    \/ \E i \in DOMAIN report.files :
         \/ ~DocsOrTestsOnly(report.files[i])
         \/ patch.files[i].binary
         \/ UnsafeMode(patch.files[i])

=============================================================================
