------------------------ MODULE PatchAssessmentProofs ------------------------
(***************************************************************************)
(* Proofs about PatchAssessment, for all patches of any number of files,    *)
(* all limits, contracts and commands, and a kernel that answers anything.  *)
(***************************************************************************)
EXTENDS PatchAssessment, TLAPS

\* A set of reasons: all that matters is their level.
Reasons(S) == \A r \in S : r.level \in Level

----------------------------------------------------------------------------
(* Levels.                                                                  *)

\* The highest level of some reasons is that of one of them, or low.
LEMMA HighestBounds ==
    ASSUME NEW S, Reasons(S)
    PROVE  /\ Highest(S) \in Level
           /\ \A r \in S : r.level <= Highest(S)
           /\ Highest(S) = Low \/ \E r \in S : r.level = Highest(S)
  <1> DEFINE L == {Low} \cup {r.level : r \in S}
  <1>1. L \subseteq Level /\ Low \in L
    BY DEF Reasons, Level, Low, Critical
  <1>2. \E x \in L : \A y \in L : x >= y
    <2>1. CASE Critical \in L
      BY <1>1, <2>1 DEF Level, Low, Critical
    <2>2. CASE Critical \notin L /\ High \in L
      BY <1>1, <2>2 DEF Level, Low, Critical, High
    <2>3. CASE Critical \notin L /\ High \notin L /\ Medium \in L
      BY <1>1, <2>3 DEF Level, Low, Critical, High, Medium
    <2>4. CASE Critical \notin L /\ High \notin L /\ Medium \notin L
      BY <1>1, <2>4 DEF Level, Low, Critical, High, Medium
    <2> QED
      BY <2>1, <2>2, <2>3, <2>4
  <1>3. Highest(S) \in L /\ \A y \in L : Highest(S) >= y
    BY <1>2 DEF Highest, Max
  <1>4. \A r \in S : r.level \in L /\ r.level \in Level
    BY DEF Reasons
  <1>5. Highest(S) \in Level
    BY <1>1, <1>3
  <1>6. \A r \in S : r.level <= Highest(S)
    BY <1>3, <1>4, <1>5 DEF Level, Low, Critical
  <1>7. Highest(S) = Low \/ \E r \in S : r.level = Highest(S)
    BY <1>3
  <1> QED
    BY <1>5, <1>6, <1>7

----------------------------------------------------------------------------
(* The reasons of a file and of a patch.                                    *)

LEMMA OwnTyped ==
    ASSUME NEW f, IsFile(f)
    PROVE  Reasons(OwnReasons(f))
  <1>1. Reasons(PathReasons(f.path))
    BY DEF PathReasons, When, Reason, Reasons, Level, Low, High, Critical
  <1>2. Reasons(MetadataReasons(f))
    BY DEF MetadataReasons, When, Reason, Reasons, Level, Low, High, Critical
  <1>3. Reasons(ContentReasons(f))
    BY DEF ContentReasons, When, Reason, Reasons, Level, Low, High, Critical
  <1>4. Reasons(BaselineReason(f.path))
    BY DEF BaselineReason, Reason, Reasons, Level, Low, Medium, Critical
  <1> QED
    BY <1>1, <1>2, <1>3, <1>4 DEF OwnReasons, Reasons

\* The kernel and the claims to skip it add reasons to those of the file, none
\* of them critical.
LEMMA FileTyped ==
    ASSUME NEW f, IsFile(f), NEW a \in KernelAnswer
    PROVE  /\ Reasons(FileReasons(f, a))
           /\ OwnReasons(f) \subseteq FileReasons(f, a)
           /\ \A r \in FileReasons(f, a) : r.level = Critical => r \in OwnReasons(f)
  <1>1. Reasons(OwnReasons(f))
    BY OwnTyped
  <1>2. /\ Reasons(BypassReasons(f))
        /\ \A r \in BypassReasons(f) : r.level # Critical
    BY DEF BypassReasons, When, Reason, Reasons, Level, Low, High, Critical
  <1>3. EnforcedLevel(a.risk) \in {Low, High}
    BY DEF EnforcedLevel
  <1>4. /\ Reasons(When(AsksKernel(f), KernelReasons(OwnReasons(f), a)))
        /\ \A r \in When(AsksKernel(f), KernelReasons(OwnReasons(f), a)) : r.level # Critical
    BY <1>3 DEF KernelReasons, When, Reason, Reasons, Level, Low, High, Critical
  <1> QED
    BY <1>1, <1>2, <1>4 DEF FileReasons, Reasons

LEMMA LimitTyped ==
    ASSUME NEW m, NEW n
    PROVE  Reasons(LimitReason(m, n))
  BY DEF LimitReason, When, Reason, Reasons, Level, Low, High, Critical

LEMMA PatchTyped ==
    ASSUME NEW p, NEW v, Reasons(v)
    PROVE  Reasons(PatchReasons(p, v))
  <1>1. Reasons(DiffLimitReasons(p))
    BY LimitTyped DEF DiffLimitReasons, Reasons
  <1>2. Reasons(GovernanceReasons(p))
    <2> DEFINE plan == GovernancePlan(p)
               asks == \E ws \in plan : NeedsTreeDelta(ws) \/ NeedsRegistryApproval(ws)
    <2> HIDE DEF plan, asks
    <2>1. GovernanceReasons(p) =
              When(plan # {}, Reason("dependency-governance-required", IF asks THEN High ELSE Medium))
      BY DEF GovernanceReasons, plan, asks
    <2> QED
      BY <2>1 DEF When, Reason, Reasons, Level, Low, Medium, High, Critical
  <1>3. Reasons(ActionIntentReasons(p))
    BY DEF ActionIntentReasons, IntentSeverity, When, Reason, Reasons, Level, Low, Medium, High, Critical
  <1> QED
    BY <1>1, <1>2, <1>3 DEF PatchReasons, Reasons

----------------------------------------------------------------------------
(* What is critical whatever the kernel says.                               *)

\* A reason of the patch, or of one of its files before the kernel is asked,
\* is critical.
Grave(p) ==
    \/ \E r \in PatchReasons(p, {}) : r.level = Critical
    \/ \E i \in DOMAIN p.files : \E r \in OwnReasons(p.files[i]) : r.level = Critical

LEMMA GraveLimits ==
    ASSUME NEW p \in Patches
    PROVE  (\E r \in DiffLimitReasons(p) : r.level = Critical) <=> OverHardLimit(p)
  <1>1. ASSUME NEW m, NEW n
        PROVE  (\E r \in LimitReason(m, n) : r.level = Critical) <=> n > Limits[m].hard
    <2>1. CASE n > Limits[m].hard
      BY <2>1 DEF LimitReason, Reason
    <2>2. CASE ~(n > Limits[m].hard)
      BY <2>2 DEF LimitReason, When, Reason, High, Critical
    <2> QED
      BY <2>1, <2>2
  <1> QED
    BY <1>1 DEF DiffLimitReasons, OverHardLimit

LEMMA GraveGovernance ==
    ASSUME NEW p
    PROVE  \A r \in GovernanceReasons(p) : r.level # Critical
  <1> DEFINE plan == GovernancePlan(p)
             asks == \E ws \in plan : NeedsTreeDelta(ws) \/ NeedsRegistryApproval(ws)
  <1> HIDE DEF plan, asks
  <1>1. GovernanceReasons(p) =
            When(plan # {}, Reason("dependency-governance-required", IF asks THEN High ELSE Medium))
    BY DEF GovernanceReasons, plan, asks
  <1> QED
    BY <1>1 DEF When, Reason, Medium, High, Critical

\* The intents that close the gate, and what is evidence of them.
LEMMA GraveIntents ==
    ASSUME NEW p
    PROVE  (\E r \in ActionIntentReasons(p) : r.level = Critical)
              <=> ActionIntents(p) \cap {"secret", "destructive", "bypass"} # {}
  <1>1. ASSUME NEW c
        PROVE  (\E r \in When(IntentSeverity(c) >= High, Reason("action-intent", IntentSeverity(c))) : r.level = Critical)
                  <=> c \in {"secret", "destructive", "bypass"}
    <2>1. IntentSeverity(c) \in {Medium, High, Critical}
      BY DEF IntentSeverity
    <2>2. IntentSeverity(c) = Critical <=> c \in {"secret", "destructive", "bypass"}
      BY DEF IntentSeverity, Medium, High, Critical
    <2>3. CASE IntentSeverity(c) = Critical
      BY <2>2, <2>3 DEF When, Reason, High, Critical
    <2>4. CASE IntentSeverity(c) # Critical
      BY <2>2, <2>4 DEF When, Reason
    <2> QED
      BY <2>3, <2>4
  <1> QED
    BY <1>1 DEF ActionIntentReasons

GraveLines == {"credential", "password", "rm", "drop", "skip", "decode"}

LEMMA GraveEvidence ==
    ASSUME NEW f, IsFile(f)
    PROVE  (PathIntents(f.path) \cup UNION {LineIntents(l) : l \in AddedLines(f)})
              \cap {"secret", "destructive", "bypass"} # {}
           <=> f.path = ".env" \/ AddedLines(f) \cap GraveLines # {}
  <1>1. PathIntents(f.path) \cap {"secret", "destructive", "bypass"} # {} <=> f.path = ".env"
    BY DEF PathIntents, SecretPathIntent
  <1>2. ASSUME NEW l \in AddedLines(f)
        PROVE  LineIntents(l) \cap {"secret", "destructive", "bypass"} # {} <=> l \in GraveLines
    <2>1. l \in Line
      BY DEF IsFile, AddedLines
    <2> QED
      BY <2>1 DEF Line, LineIntents, GraveLines
  <1> QED
    BY <1>1, <1>2

LEMMA GraveOwn ==
    ASSUME NEW f, IsFile(f)
    PROVE  (\E r \in OwnReasons(f) : r.level = Critical)
              <=> \/ f.path \in {".env", "keys/server.pem"} \/ f.mode = "symlink"
                  \/ "credential" \in AddedLines(f)
                  \/ f.path = "scripts/run.sh" /\ AddedLines(f) \cap {"rm", "chmod", "pipe"} # {}
  <1>1. (\E r \in PathReasons(f.path) : r.level = Critical) <=> f.path \in {".env", "keys/server.pem"}
    <2>1. CASE f.path \in SecuritySensitive
      <3>1. [code |-> "security-sensitive-path", level |-> Critical] \in PathReasons(f.path)
        BY <2>1 DEF PathReasons, When, Reason
      <3> QED
        BY <2>1, <3>1 DEF SecuritySensitive
    <2>2. CASE f.path \notin SecuritySensitive
      BY <2>2 DEF PathReasons, When, Reason, High, Critical, SecuritySensitive
    <2> QED
      BY <2>1, <2>2
  <1>2. (\E r \in MetadataReasons(f) : r.level = Critical) <=> f.mode = "symlink"
    <2>1. CASE f.mode = "symlink"
      <3>1. [code |-> "symlink-change", level |-> Critical] \in MetadataReasons(f)
        BY <2>1 DEF MetadataReasons, When, Reason
      <3> QED
        BY <2>1, <3>1
    <2>2. CASE f.mode # "symlink"
      BY <2>2 DEF MetadataReasons, When, Reason, High, Critical
    <2> QED
      BY <2>1, <2>2
  <1>3. (\E r \in ContentReasons(f) : r.level = Critical)
            <=> \/ "credential" \in AddedLines(f)
                \/ f.path = "scripts/run.sh" /\ AddedLines(f) \cap {"rm", "chmod", "pipe"} # {}
    <2> DEFINE of(l) == When(l \in SecretLine, Reason("added-secret", Critical))
                        \cup When(l \in DestructiveLine,
                                  Reason("destructive-command",
                                         IF f.path \in ScriptLikeAsSpelt THEN Critical ELSE High))
    <2>1. ASSUME NEW l
          PROVE  (\E r \in of(l) : r.level = Critical)
                    <=> l = "credential" \/ (f.path = "scripts/run.sh" /\ l \in {"rm", "chmod", "pipe"})
      <3>1. CASE l = "credential"
        <4>1. [code |-> "added-secret", level |-> Critical] \in of(l)
          BY <3>1 DEF When, Reason, SecretLine
        <4> QED
          BY <3>1, <4>1
      <3>2. CASE l # "credential" /\ l \in {"rm", "chmod", "pipe"}
        <4>1. CASE f.path = "scripts/run.sh"
          <5>1. [code |-> "destructive-command", level |-> Critical] \in of(l)
            BY <3>2, <4>1 DEF When, Reason, DestructiveLine, ScriptLikeAsSpelt
          <5> QED
            BY <3>2, <4>1, <5>1
        <4>2. CASE f.path # "scripts/run.sh"
          BY <3>2, <4>2 DEF When, Reason, High, Critical, SecretLine, DestructiveLine, ScriptLikeAsSpelt
        <4> QED
          BY <4>1, <4>2
      <3>3. CASE l # "credential" /\ l \notin {"rm", "chmod", "pipe"}
        BY <3>3 DEF When, Reason, SecretLine, DestructiveLine
      <3> QED
        BY <3>1, <3>2, <3>3
    <2>2. ContentReasons(f) = UNION {of(l) : l \in AddedLines(f)}
      BY DEF ContentReasons
    <2> HIDE DEF of
    <2> QED
      BY <2>1, <2>2
  <1>4. \A r \in BaselineReason(f.path) : r.level # Critical
    BY DEF BaselineReason, Reason, Low, Medium, Critical
  <1> QED
    BY <1>1, <1>2, <1>3, <1>4 DEF OwnReasons

\* The tables, the limits and the severities together say what CriticalFact
\* says, and nothing else.
LEMMA GraveIsCriticalFact ==
    ASSUME NEW p \in Patches
    PROVE  Grave(p) <=> CriticalFact(p)
  <1>1. \A i \in DOMAIN p.files : IsFile(p.files[i])
    BY PatchesAssumption
  <1>2. (\E r \in PatchReasons(p, {}) : r.level = Critical)
            <=> OverHardLimit(p) \/ ActionIntents(p) \cap {"secret", "destructive", "bypass"} # {}
    BY GraveLimits, GraveGovernance, GraveIntents DEF PatchReasons
  <1>3. ActionIntents(p) \cap {"secret", "destructive", "bypass"} # {}
            <=> \E i \in DOMAIN p.files :
                    p.files[i].path = ".env" \/ AddedLines(p.files[i]) \cap GraveLines # {}
    <2>1. ActionIntents(p) \cap {"secret", "destructive", "bypass"} # {}
            <=> \E i \in DOMAIN p.files :
                    (PathIntents(p.files[i].path) \cup UNION {LineIntents(l) : l \in AddedLines(p.files[i])})
                        \cap {"secret", "destructive", "bypass"} # {}
      BY DEF ActionIntents
    <2> QED
      BY <1>1, <2>1, GraveEvidence
  <1>4. ASSUME NEW i \in DOMAIN p.files
        PROVE  CriticalFile(p.files[i])
                  <=> \/ \E r \in OwnReasons(p.files[i]) : r.level = Critical
                      \/ p.files[i].path = ".env" \/ AddedLines(p.files[i]) \cap GraveLines # {}
    BY <1>1, GraveOwn DEF CriticalFile, GraveLines
  <1> QED
    BY <1>2, <1>3, <1>4 DEF Grave, CriticalFact

----------------------------------------------------------------------------
(* The inductive invariant.                                                 *)

Stages == {"classify", "subjective", "reclassify", "intent", "final", "pending", "done"}

Given == patch \in Patches /\ contract \in Contracts \cup {NoContract} /\ cmd \in Commands

\* The report holds, for a first part of the files, the reasons some answer of
\* the kernel gives.
Reports(rep, p) ==
    /\ rep = [files |-> rep.files, reasons |-> rep.reasons]
    /\ rep.files \in Seq({FileReasons(p.files[i], a) : i \in DOMAIN p.files, a \in KernelAnswer})
    /\ Len(rep.files) \in 0..Len(p.files)
    /\ \A i \in 1..Len(rep.files) :
          \E a \in KernelAnswer : rep.files[i] = FileReasons(p.files[i], a)

FilesReported == Reports(report, patch)

\* Subjective reasons ask for approval, and close the gate only if a lock
\* marker was found; a lock marker is never passed over in silence.
SubjectiveInv ==
    /\ at \in Nat \ {0}
    /\ Reasons(subjective)
    /\ \A r \in subjective : r.level # Low /\ r.level # Medium
    /\ \A r \in subjective : r.level = Critical => \E i \in DOMAIN patch.files : patch.files[i].locked
    /\ \A i \in DOMAIN patch.files : i < at /\ patch.files[i].locked => subjective # {}

\* What the report is made of at each stage, and what is left of the first one
\* once a second is made: it was critical for reasons that the second one has.
ReportInv ==
    /\ stage = "classify" => subjective = {}
    /\ stage = "reclassify" => subjective # {} /\ at > Len(patch.files)
    /\ stage = "subjective" => /\ Verified /\ report.reasons = PatchReasons(patch, {})
                               /\ first = ReportLevel(report)
    /\ first \in Level
    /\ first = Critical => Grave(patch)
    /\ Assessed => /\ report.reasons = PatchReasons(patch, subjective) /\ at > Len(patch.files)
                   /\ subjective = {} => first = ReportLevel(report)

\* What the finalizer and the later apply can rely on.
DecisionInv ==
    /\ stage = "final" /\ status # "failed" /\ contract # NoContract =>
          hint = IntentHint(cmd, patch.files, contract)
    /\ stage \notin {"pending", "done"} => status \in {"completed", "failed"}
    /\ stage = "pending" => ~ApplyRefused
    /\ stage # "done" => outcome \notin {"applied", "refused"}

AssessmentInv ==
    /\ stage \in Stages /\ Given
    /\ FilesReported /\ SubjectiveInv /\ ReportInv /\ DecisionInv
    /\ AppliedIsHarmless /\ PendingCanBeApplied /\ EnforcedIntentHolds

LEMMA PatchFiles ==
    ASSUME NEW p \in Patches
    PROVE  /\ Len(p.files) \in Nat \ {0} /\ DOMAIN p.files = 1..Len(p.files)
           /\ \A i \in DOMAIN p.files : IsFile(p.files[i])
           /\ p.files # <<>>
  <1> DEFINE S == {p.files[i] : i \in DOMAIN p.files}
  <1>1. p.files \in Seq(S) /\ p.files # <<>>
    BY PatchesAssumption
  <1> HIDE DEF S
  <1>2. Len(p.files) \in Nat \ {0} /\ DOMAIN p.files = 1..Len(p.files)
    BY <1>1
  <1> QED
    BY <1>1, <1>2, PatchesAssumption

LEMMA AssessmentInit == Init => AssessmentInv
  <1> SUFFICES ASSUME Init PROVE AssessmentInv
    OBVIOUS
  <1>1. Given /\ patch \in Patches
    BY DEF Init, Given
  <1>2. Len(patch.files) \in Nat \ {0}
    BY <1>1, PatchFiles
  <1>3. FilesReported
    BY <1>2 DEF Init, FilesReported, Reports
  <1>4. SubjectiveInv
    BY <1>1, PatchFiles DEF Init, SubjectiveInv, Reasons
  <1>5. ReportInv
    BY DEF Init, ReportInv, Assessed, Level, Low, Critical
  <1>6. DecisionInv
    BY DEF Init, DecisionInv
  <1> QED
    BY <1>1, <1>3, <1>4, <1>5, <1>6
    DEF AssessmentInv, Init, Stages, AppliedIsHarmless, PendingCanBeApplied, EnforcedIntentHolds

----------------------------------------------------------------------------
(* Reports.                                                                 *)

LEMMA FileReport ==
    ASSUME NEW p \in Patches, NEW rep, Reports(rep, p), NEW i \in DOMAIN rep.files
    PROVE  /\ i \in DOMAIN p.files
           /\ Reasons(rep.files[i])
           /\ OwnReasons(p.files[i]) \subseteq rep.files[i]
           /\ \A r \in rep.files[i] : r.level = Critical => r \in OwnReasons(p.files[i])
  <1>1. i \in 1..Len(rep.files)
    <2> DEFINE T == {FileReasons(p.files[k], b) : k \in DOMAIN p.files, b \in KernelAnswer}
    <2>1. rep.files \in Seq(T)
      BY DEF Reports
    <2> HIDE DEF T
    <2> QED
      BY <2>1
  <1>3. i \in DOMAIN p.files /\ IsFile(p.files[i])
    BY <1>1, PatchFiles DEF Reports
  <1>2. PICK a \in KernelAnswer : rep.files[i] = FileReasons(p.files[i], a)
    BY <1>1 DEF Reports
  <1> QED
    BY <1>2, <1>3, FileTyped

\* A complete report is critical for the facts of the patch and for what was
\* collected, and for nothing the kernel says.
LEMMA CompleteReport ==
    ASSUME NEW p \in Patches, NEW rep, Reports(rep, p), Len(rep.files) = Len(p.files),
           NEW v, Reasons(v), rep.reasons = PatchReasons(p, v)
    PROVE  /\ Reasons(AllReasons(rep)) /\ ReportLevel(rep) \in Level
           /\ GateBlocked(rep) <=> Grave(p) \/ \E r \in v : r.level = Critical
           /\ ReportLevel(rep) = Critical <=> GateBlocked(rep)
           /\ \A r \in v : r.level <= ReportLevel(rep)
  <1>1. DOMAIN rep.files = DOMAIN p.files
    <2> DEFINE T == {FileReasons(p.files[k], b) : k \in DOMAIN p.files, b \in KernelAnswer}
    <2>1. rep.files \in Seq(T)
      BY DEF Reports
    <2> HIDE DEF T
    <2> QED
      BY <2>1, PatchFiles
  <1>2. Reasons(rep.reasons) /\ v \subseteq rep.reasons
    BY PatchTyped DEF PatchReasons
  <1>3. Reasons(AllReasons(rep))
    BY <1>2, FileReport DEF AllReasons, Reasons
  <1>4. /\ ReportLevel(rep) \in Level
        /\ \A r \in AllReasons(rep) : r.level <= ReportLevel(rep)
        /\ ReportLevel(rep) = Low \/ \E r \in AllReasons(rep) : r.level = ReportLevel(rep)
    BY <1>3, HighestBounds DEF ReportLevel
  <1>5. ReportLevel(rep) = Critical <=> GateBlocked(rep)
    <2>1. GateBlocked(rep) => ReportLevel(rep) = Critical
      BY <1>4 DEF GateBlocked, Level, Low, Critical
    <2>2. ReportLevel(rep) = Critical => GateBlocked(rep)
      BY <1>4 DEF GateBlocked, Low, Critical
    <2> QED
      BY <2>1, <2>2
  <1>6. (\E r \in rep.reasons : r.level = Critical)
            <=> (\E r \in PatchReasons(p, {}) : r.level = Critical) \/ \E r \in v : r.level = Critical
    BY DEF PatchReasons
  <1>7. ASSUME NEW i \in DOMAIN p.files
        PROVE  (\E r \in rep.files[i] : r.level = Critical)
                  <=> \E r \in OwnReasons(p.files[i]) : r.level = Critical
    BY <1>1, <1>7, FileReport
  <1>8. GateBlocked(rep)
            <=> \/ \E r \in rep.reasons : r.level = Critical
                \/ \E i \in DOMAIN p.files : \E r \in rep.files[i] : r.level = Critical
    BY <1>1 DEF GateBlocked, AllReasons
  <1>9. \A r \in v : r.level <= ReportLevel(rep)
    BY <1>2, <1>4 DEF AllReasons
  <1> QED
    BY <1>3, <1>4, <1>5, <1>6, <1>7, <1>8, <1>9 DEF Grave

----------------------------------------------------------------------------
(* Every step keeps the invariant.                                          *)

\* A step before the decision leaves what a decision was about alone.
LEMMA NothingDecided ==
    ASSUME AssessmentInv, UNCHANGED given, UNCHANGED outcome, stage # "done"
    PROVE  Given' /\ AppliedIsHarmless' /\ PendingCanBeApplied' /\ EnforcedIntentHolds'
  BY DEF AssessmentInv, DecisionInv, Given, given, AppliedIsHarmless, PendingCanBeApplied, EnforcedIntentHolds

LEMMA ClassifyFileKeeps ==
    ASSUME AssessmentInv, ClassifyFile
    PROVE  AssessmentInv'
  <1> DEFINE i == Len(report.files) + 1
  <1>1. patch \in Patches /\ Len(patch.files) \in Nat /\ Len(report.files) \in Nat
    BY PatchFiles DEF AssessmentInv, Given, FilesReported, Reports
  <1>2. PICK a \in KernelAnswer :
            report' = [report EXCEPT !.files = Append(report.files, FileReasons(patch.files[i], a))]
    BY DEF ClassifyFile
  <1>3. /\ report'.files = Append(report.files, FileReasons(patch.files[i], a))
        /\ report' = [files |-> report'.files, reasons |-> report.reasons]
    BY <1>2 DEF AssessmentInv, FilesReported, Reports
  <1> DEFINE T == {FileReasons(patch.files[k], b) : k \in DOMAIN patch.files, b \in KernelAnswer}
             x == FileReasons(patch.files[i], a)
  <1>4. /\ report'.files \in Seq(T) /\ Len(report'.files) = i
        /\ \A k \in 1..i : report'.files[k] = IF k = i THEN x ELSE report.files[k]
    <2>1. report.files \in Seq(T)
      BY DEF AssessmentInv, FilesReported, Reports
    <2>2. x \in T
      BY <1>1, PatchFiles DEF ClassifyFile
    <2> HIDE DEF T, x
    <2> QED
      BY <1>3, <2>1, <2>2 DEF x
  <1>5. FilesReported'
    <2>1. patch' = patch /\ i \in 0..Len(patch.files)
      BY <1>1 DEF ClassifyFile, given
    <2>2. \A k \in 1..i : \E b \in KernelAnswer : report'.files[k] = FileReasons(patch.files[k], b)
      <3> SUFFICES ASSUME NEW k \in 1..i
                   PROVE  \E b \in KernelAnswer : report'.files[k] = FileReasons(patch.files[k], b)
        OBVIOUS
      <3>1. CASE k = i
        BY <1>4, <3>1
      <3>2. CASE k # i
        <4>1. k \in 1..Len(report.files) /\ report'.files[k] = report.files[k]
          BY <1>1, <1>4, <3>2
        <4> QED
          BY <4>1 DEF AssessmentInv, FilesReported, Reports
      <3> QED
        BY <3>1, <3>2
    <2>3. Reports(report', patch)
      <3>1. report' = [files |-> report'.files, reasons |-> report'.reasons]
        BY <1>3
      <3> HIDE DEF i
      <3> QED
        BY <1>4, <2>1, <2>2, <3>1 DEF Reports
    <2> QED
      BY <2>1, <2>3 DEF FilesReported
  <1>6. SubjectiveInv'
    BY DEF AssessmentInv, SubjectiveInv, ClassifyFile, given
  <1>7. ReportInv'
    BY DEF AssessmentInv, ReportInv, ClassifyFile, given, Assessed, Grave
  <1>8. DecisionInv'
    BY DEF AssessmentInv, DecisionInv, ClassifyFile, given
  <1> QED
    BY <1>5, <1>6, <1>7, <1>8, NothingDecided DEF AssessmentInv, ClassifyFile, Stages

LEMMA FinishReportKeeps ==
    ASSUME AssessmentInv, FinishReport
    PROVE  AssessmentInv'
  <1>1. patch \in Patches /\ patch' = patch /\ subjective' = subjective /\ at' = at
    BY DEF AssessmentInv, Given, FinishReport, given
  <1>2. /\ report'.files = report.files /\ report'.reasons = PatchReasons(patch, subjective)
        /\ report' = [files |-> report'.files, reasons |-> report'.reasons]
    BY DEF AssessmentInv, FilesReported, Reports, FinishReport
  <1>3. FilesReported'
    BY <1>1, <1>2 DEF AssessmentInv, FilesReported, Reports
  <1>4. SubjectiveInv'
    BY <1>1 DEF AssessmentInv, SubjectiveInv
  <1>5. Verified' /\ Reasons(subjective)
    BY <1>1, <1>2 DEF FinishReport, Verified, AssessmentInv, SubjectiveInv
  <1>6. /\ ReportLevel(report)' \in Level
        /\ GateBlocked(report)' <=> Grave(patch) \/ \E r \in subjective : r.level = Critical
        /\ ReportLevel(report)' = Critical <=> GateBlocked(report)'
    <2>1. Reports(report', patch) /\ Len(report'.files) = Len(patch.files)
      BY <1>1, <1>2, <1>3, <1>5 DEF FilesReported, Verified
    <2> QED
      BY <1>1, <1>2, <1>5, <2>1, CompleteReport
  <1>7. ReportInv'
    <2>1. CASE stage = "classify"
      <3>1. subjective = {} /\ stage' = "subjective" /\ first' = ReportLevel(report')
        BY <2>1 DEF AssessmentInv, ReportInv, FinishReport
      <3> QED
        BY <1>1, <1>2, <1>5, <1>6, <3>1 DEF ReportInv, Assessed, Grave
    <2>2. CASE stage = "reclassify"
      <3>1. subjective # {} /\ stage' = "intent" /\ first' = first /\ at > Len(patch.files)
        BY <2>2 DEF AssessmentInv, ReportInv, FinishReport
      <3> QED
        BY <1>1, <1>2, <1>5, <1>6, <3>1 DEF AssessmentInv, ReportInv, Assessed, Grave
    <2> QED
      BY <2>1, <2>2 DEF FinishReport
  <1>8. DecisionInv'
    BY DEF AssessmentInv, DecisionInv, FinishReport, given
  <1> QED
    BY <1>3, <1>4, <1>7, <1>8, NothingDecided DEF AssessmentInv, FinishReport, Stages

LEMMA ClassificationFailsKeeps ==
    ASSUME AssessmentInv, ClassificationFails
    PROVE  AssessmentInv'
  <1>1. patch \in Patches /\ patch' = patch /\ subjective' = subjective /\ at' = at
    BY DEF AssessmentInv, Given, ClassificationFails, given
  <1>2. report' = [files |-> <<>>, reasons |-> {}]
    BY DEF ClassificationFails, NoArtifact
  <1>3. FilesReported'
    BY <1>1, <1>2, PatchFiles DEF FilesReported, Reports
  <1>4. SubjectiveInv'
    BY <1>1 DEF AssessmentInv, SubjectiveInv
  <1>5. ~Verified'
    BY <1>1, <1>2, PatchFiles DEF Verified
  <1>6. ReportInv'
    BY <1>1, <1>5 DEF AssessmentInv, ReportInv, ClassificationFails, Assessed, Grave
  <1>7. DecisionInv'
    BY DEF AssessmentInv, DecisionInv, ClassificationFails, given
  <1> QED
    BY <1>3, <1>4, <1>6, <1>7, NothingDecided DEF AssessmentInv, ClassificationFails, Stages

LEMMA CollectSubjectiveKeeps ==
    ASSUME AssessmentInv, CollectSubjective
    PROVE  AssessmentInv'
  <1>1. /\ patch \in Patches /\ patch' = patch /\ stage = "subjective" /\ stage' = stage
        /\ report' = report /\ first' = first /\ at' = at + 1 /\ at \in Nat \ {0}
        /\ at \in DOMAIN patch.files
    BY PatchFiles DEF AssessmentInv, Given, SubjectiveInv, CollectSubjective, given
  <1>2. /\ subjective \subseteq subjective'
        /\ patch.files[at].locked => subjective' # {}
        /\ \A r \in subjective' :
              \/ r \in subjective
              \/ r.level = Critical /\ patch.files[at].locked
              \/ r.level = High
    <2>1. CASE patch.files[at].locked
      <3> DEFINE r0 == [code |-> "subjective-human-context-risk", level |-> Critical]
      <3>1. subjective' = subjective \cup {r0}
        BY <2>1 DEF CollectSubjective, LockReason, Reason
      <3>2. r0.level = Critical
        OBVIOUS
      <3> HIDE DEF r0
      <3> QED
        BY <2>1, <3>1, <3>2
    <2>2. CASE ~patch.files[at].locked /\ Highest(report.files[at]) = Low
      BY <2>2 DEF CollectSubjective
    <2>3. CASE ~patch.files[at].locked /\ Highest(report.files[at]) # Low
      <3>1. PICK judgment \in Judgment : subjective' = subjective \cup SubjectiveReason(judgment)
        BY <2>3 DEF CollectSubjective
      <3> QED
        BY <2>3, <3>1 DEF SubjectiveReason, When, Reason
    <2> QED
      BY <2>1, <2>2, <2>3
  <1>3. SubjectiveInv'
    BY <1>1, <1>2, PatchFiles
    DEF AssessmentInv, SubjectiveInv, Reasons, Level, Low, Medium, High, Critical
  <1>4. FilesReported'
    BY <1>1 DEF AssessmentInv, FilesReported
  <1>5. ReportInv'
    BY <1>1 DEF AssessmentInv, ReportInv, Verified, Assessed, Grave
  <1>6. DecisionInv'
    BY <1>1 DEF AssessmentInv, DecisionInv, CollectSubjective, given
  <1> QED
    BY <1>1, <1>3, <1>4, <1>5, <1>6, NothingDecided DEF AssessmentInv, CollectSubjective

LEMMA CollectionFailsKeeps ==
    ASSUME AssessmentInv, CollectionFails
    PROVE  AssessmentInv'
  <1>1. /\ patch \in Patches /\ patch' = patch /\ stage = "subjective" /\ stage' = stage
        /\ report' = report /\ first' = first /\ at' = Len(patch.files) + 1
    BY DEF AssessmentInv, Given, CollectionFails, given
  <1>2. subjective' # {} /\ \A r \in subjective' : r.level = High
    BY DEF CollectionFails, Reason
  <1>3. SubjectiveInv'
    BY <1>1, <1>2, PatchFiles
    DEF SubjectiveInv, Reasons, Level, Low, Medium, High, Critical
  <1>4. FilesReported'
    BY <1>1 DEF AssessmentInv, FilesReported
  <1>5. ReportInv'
    BY <1>1 DEF AssessmentInv, ReportInv, Verified, Assessed, Grave
  <1>6. DecisionInv'
    BY <1>1 DEF AssessmentInv, DecisionInv, CollectionFails, given
  <1> QED
    BY <1>1, <1>3, <1>4, <1>5, <1>6, NothingDecided DEF AssessmentInv, CollectionFails

LEMMA FinishSubjectiveKeeps ==
    ASSUME AssessmentInv, FinishSubjective
    PROVE  AssessmentInv'
  <1>1. /\ patch \in Patches /\ patch' = patch /\ stage = "subjective" /\ first' = first
        /\ subjective' = subjective /\ at' = at /\ at > Len(patch.files)
    BY DEF AssessmentInv, Given, FinishSubjective, given
  <1>2. SubjectiveInv'
    BY <1>1 DEF AssessmentInv, SubjectiveInv
  <1>3. FilesReported' /\ ReportInv'
    <2>1. CASE subjective = {}
      <3>1. stage' = "intent" /\ report' = report
        BY <2>1 DEF FinishSubjective
      <3> QED
        BY <1>1, <2>1, <3>1 DEF AssessmentInv, FilesReported, ReportInv, Verified, Assessed, Grave
    <2>2. CASE subjective # {}
      <3>1. stage' = "reclassify" /\ report' = [files |-> <<>>, reasons |-> {}]
        BY <2>2 DEF FinishSubjective, NoArtifact
      <3>2. FilesReported'
        BY <1>1, <3>1, PatchFiles DEF FilesReported, Reports
      <3> QED
        BY <1>1, <2>2, <3>1, <3>2 DEF AssessmentInv, ReportInv, Assessed, Grave
    <2> QED
      BY <2>1, <2>2
  <1>4. DecisionInv'
    BY DEF AssessmentInv, DecisionInv, FinishSubjective, given
  <1> QED
    BY <1>2, <1>3, <1>4, NothingDecided DEF AssessmentInv, FinishSubjective, Stages

\* The steps from here on leave the assessment as it is.
LEMMA AssessedStays ==
    ASSUME AssessmentInv, UNCHANGED <<given, report, first, subjective, at>>,
           stage \in {"intent", "final", "pending"}, stage' \in {"final", "pending", "done"}
    PROVE  Given' /\ FilesReported' /\ SubjectiveInv' /\ ReportInv'
  <1>1. Given' /\ FilesReported' /\ SubjectiveInv'
    BY DEF AssessmentInv, given, Given, FilesReported, SubjectiveInv
  <1>2. ReportInv'
    BY DEF AssessmentInv, given, ReportInv, Verified, Assessed, Grave
  <1> QED
    BY <1>1, <1>2

LEMMA IntentKeeps ==
    ASSUME AssessmentInv, EvaluateIntent \/ IntentFails
    PROVE  AssessmentInv'
  <1>1. /\ UNCHANGED <<given, report, first, subjective, at, outcome>>
        /\ stage = "intent" /\ stage' = "final"
    BY DEF EvaluateIntent, IntentFails
  <1>2. DecisionInv'
    BY <1>1 DEF AssessmentInv, DecisionInv, EvaluateIntent, IntentFails, given
  <1> QED
    BY <1>1, <1>2, AssessedStays, NothingDecided DEF AssessmentInv, Stages

----------------------------------------------------------------------------
(* The decision.                                                            *)

\* A patch goes on to an approval or to an automatic apply only if the command
\* ended well, nothing failed before, and the report is complete and leaves
\* the gate open; to an apply only if nobody asks for approval.
LEMMA GoesOn ==
    ASSUME FinalDecision.next # "end"
    PROVE  /\ cmd.end \notin {"failed", "timed_out"} /\ status # "failed"
           /\ Verified /\ ~GateBlocked(report)
           /\ hint # "block"
           /\ FinalDecision.next = "apply" =>
                 ~ApprovalRequired(patch, report) /\ hint # "require_approval"
  <1>1. RiskOf # "unverified" /\ RiskOf # "blocked" /\ IntentOf # "block"
    BY DEF FinalDecision, Decide, Ends, Goes
  <1>2. cmd.end \notin {"failed", "timed_out"} /\ status # "failed"
    BY DEF FinalDecision, Decide, Ends, Goes
  <1>3. FinalDecision.next = "apply" => RiskOf # "approval" /\ IntentOf # "approval"
    BY DEF FinalDecision, Decide, Ends, Goes
  <1>4. Verified /\ ~GateBlocked(report)
    BY <1>1 DEF RiskOf
  <1>5. RiskOf # "approval" => ~ApprovalRequired(patch, report)
    BY <1>4 DEF RiskOf
  <1>6. hint # "block" /\ (IntentOf # "approval" => hint # "require_approval")
    BY <1>1 DEF IntentOf
  <1> QED
    BY <1>2, <1>3, <1>4, <1>5, <1>6

LEMMA FinalizeEndsKeeps ==
    ASSUME AssessmentInv, FinalizeEnds
    PROVE  AssessmentInv'
  <1>1. Given' /\ FilesReported' /\ SubjectiveInv' /\ ReportInv'
    BY AssessedStays DEF FinalizeEnds
  <1>2. outcome' \notin {"applied", "refused"}
    BY DEF FinalizeEnds, FinalDecision, Decide, Ends, Goes
  <1>3. DecisionInv'
    BY DEF DecisionInv, FinalizeEnds
  <1> QED
    BY <1>1, <1>2, <1>3
    DEF AssessmentInv, FinalizeEnds, Stages, AppliedIsHarmless, PendingCanBeApplied, EnforcedIntentHolds

LEMMA FinalizeAsksKeeps ==
    ASSUME AssessmentInv, FinalizeAsks
    PROVE  AssessmentInv'
  <1>1. Given' /\ FilesReported' /\ SubjectiveInv' /\ ReportInv'
    BY AssessedStays DEF FinalizeAsks
  <1>2. ~GateBlocked(report)
    BY GoesOn DEF FinalizeAsks
  <1>3. ~ApplyRefused'
    BY <1>2 DEF ApplyRefused, StoredReport, FinalizeAsks, given, GateBlocked, ApprovalRequired
  <1>4. DecisionInv'
    BY <1>3 DEF DecisionInv, FinalizeAsks
  <1> QED
    BY <1>1, <1>4
    DEF AssessmentInv, FinalizeAsks, Stages, AppliedIsHarmless, PendingCanBeApplied, EnforcedIntentHolds

LEMMA ApplyApprovedKeeps ==
    ASSUME AssessmentInv, ApplyApproved
    PROVE  AssessmentInv'
  <1>1. Given' /\ FilesReported' /\ SubjectiveInv' /\ ReportInv'
    BY AssessedStays DEF ApplyApproved
  <1>2. outcome' = "approved"
    BY DEF AssessmentInv, DecisionInv, ApplyApproved
  <1>3. DecisionInv'
    BY DEF DecisionInv, ApplyApproved
  <1> QED
    BY <1>1, <1>2, <1>3
    DEF AssessmentInv, ApplyApproved, Stages, AppliedIsHarmless, PendingCanBeApplied, EnforcedIntentHolds

----------------------------------------------------------------------------
(* What lands without approval.                                             *)

\* A file whose reasons are those of documentation and tests only.
LEMMA HarmlessFile ==
    ASSUME NEW f, IsFile(f), NEW rs, OwnReasons(f) \subseteq rs, DocsOrTestsOnly(rs)
    PROVE  /\ f.path \in Documentation \cup TestPath
           /\ AddedLines(f) \cap (SecretLine \cup DestructiveLine) = {}
  <1>1. \A r \in OwnReasons(f) : r.code \in {"documentation-change", "test-change"}
    BY DEF DocsOrTestsOnly, Codes
  <1>2. PathReasons(f.path) \cup MetadataReasons(f) \cup ContentReasons(f) = {}
    <2>1. \A r \in PathReasons(f.path) : r.code \notin {"documentation-change", "test-change"}
      BY DEF PathReasons, When, Reason
    <2>2. \A r \in MetadataReasons(f) : r.code \notin {"documentation-change", "test-change"}
      BY DEF MetadataReasons, When, Reason
    <2>3. \A r \in ContentReasons(f) : r.code \notin {"documentation-change", "test-change"}
      BY DEF ContentReasons, When, Reason
    <2> QED
      BY <1>1, <2>1, <2>2, <2>3 DEF OwnReasons
  <1>3. \A r \in BaselineReason(f.path) : r.code \in {"documentation-change", "test-change"}
    BY <1>1, <1>2 DEF OwnReasons
  <1>4. f.path \in Documentation \cup TestPath
    BY <1>3 DEF BaselineReason, Reason
  <1>5. ASSUME NEW l \in AddedLines(f) \cap (SecretLine \cup DestructiveLine)
        PROVE  FALSE
    <2>1. CASE l \in SecretLine
      <3>1. [code |-> "added-secret", level |-> Critical] \in ContentReasons(f)
        BY <2>1 DEF ContentReasons, When, Reason
      <3> QED
        BY <1>2, <3>1
    <2>2. CASE l \in DestructiveLine
      <3>1. [code |-> "destructive-command",
             level |-> IF f.path \in ScriptLikeAsSpelt THEN Critical ELSE High] \in ContentReasons(f)
        BY <2>2 DEF ContentReasons, When, Reason
      <3> QED
        BY <1>2, <3>1
    <2> QED
      BY <2>1, <2>2
  <1> QED
    BY <1>4, <1>5

\* A report of low level has no intent of high severity.
LEMMA HarmlessIntents ==
    ASSUME NEW p \in Patches, NEW rep, Reasons(AllReasons(rep)), ReportLevel(rep) = Low,
           NEW v, rep.reasons = PatchReasons(p, v)
    PROVE  /\ v = {} \/ \A r \in v : r.level = Low
           /\ \A c \in ActionIntents(p) : IntentSeverity(c) = Medium
  <1>1. \A r \in rep.reasons : r.level = Low
    <2>1. \A r \in AllReasons(rep) : r.level \in Level /\ r.level <= Low
      BY HighestBounds DEF ReportLevel, Reasons
    <2> QED
      BY <2>1 DEF AllReasons, Level, Low, Critical
  <1>2. ASSUME NEW c \in ActionIntents(p), IntentSeverity(c) # Medium
        PROVE  FALSE
    <2>1. IntentSeverity(c) >= High /\ IntentSeverity(c) # Low
      BY <1>2 DEF IntentSeverity, Low, Medium, High, Critical
    <2>2. [code |-> "action-intent", level |-> IntentSeverity(c)] \in ActionIntentReasons(p)
      BY <2>1 DEF ActionIntentReasons, When, Reason
    <2> QED
      BY <1>1, <2>1, <2>2 DEF PatchReasons
  <1> QED
    BY <1>1, <1>2 DEF PatchReasons

LEMMA HarmlessSize ==
    ASSUME NEW m \in Metric, NEW n \in Nat,
           {"large-diff", "hard-diff"} \cap Codes(LimitReason(m, n)) = {}
    PROVE  n <= Limits[m].soft
  <1>1. Limits[m].soft \in Nat /\ Limits[m].hard \in Nat
    BY LimitsAssumption
  <1>2. CASE n > Limits[m].hard
    <2>1. LimitReason(m, n) = {[code |-> "hard-diff", level |-> Critical]}
      BY <1>2 DEF LimitReason, Reason
    <2> QED
      BY <2>1 DEF Codes
  <1>3. CASE ~(n > Limits[m].hard) /\ n > Limits[m].soft
    <2>1. LimitReason(m, n) = {[code |-> "large-diff", level |-> High]}
      BY <1>3 DEF LimitReason, When, Reason
    <2> QED
      BY <2>1 DEF Codes
  <1> QED
    BY <1>1, <1>2, <1>3

LEMMA AppliesHarmless ==
    ASSUME AssessmentInv, FinalizeApplies
    PROVE  AppliedIsHarmless'
  <1>1. /\ patch \in Patches /\ patch' = patch /\ cmd' = cmd /\ status' = status
        /\ stage = "final" /\ cmd \in Commands
    BY DEF AssessmentInv, Given, FinalizeApplies, given
  <1>2. /\ cmd.end \notin {"failed", "timed_out"} /\ status # "failed" /\ Verified
        /\ ~ApprovalRequired(patch, report)
    BY GoesOn DEF FinalizeApplies
  <1>3. ~AutoApplySkipped(patch, report)
    BY DEF FinalizeApplies, RiskOf
  <1>4. cmd.end = "ok"
    BY <1>1, <1>2, CommandsAssumption DEF CommandEnd
  <1>5. /\ report.reasons = PatchReasons(patch, subjective) /\ at > Len(patch.files)
        /\ FilesReported /\ SubjectiveInv
    BY <1>1, <1>2 DEF AssessmentInv, ReportInv, Assessed
  <1>6. Reasons(AllReasons(report)) /\ ReportLevel(report) = Low
    BY <1>1, <1>2, <1>3, <1>5, CompleteReport
    DEF FilesReported, Verified, SubjectiveInv, AutoApplySkipped
  <1>7. subjective = {} /\ \A c \in ActionIntents(patch) : IntentSeverity(c) = Medium
    BY <1>1, <1>5, <1>6, HarmlessIntents DEF SubjectiveInv
  <1>8. /\ patch.size <= Limits["patch_size_bytes"].soft
        /\ Len(patch.files) <= Limits["changed_files"].soft
    <2>1. {"large-diff", "hard-diff"} \cap Codes(report.reasons) = {}
      BY <1>3 DEF AutoApplySkipped
    <2>2. {"large-diff", "hard-diff"} \cap Codes(DiffLimitReasons(patch)) = {}
      BY <1>5, <2>1 DEF PatchReasons, Codes
    <2>3. /\ {"large-diff", "hard-diff"} \cap Codes(LimitReason("patch_size_bytes", patch.size)) = {}
          /\ {"large-diff", "hard-diff"} \cap Codes(LimitReason("changed_files", Len(patch.files))) = {}
      BY <2>2 DEF DiffLimitReasons, Codes
    <2>4. patch.size \in Nat /\ Len(patch.files) \in Nat
      BY <1>1, PatchFiles, PatchesAssumption
    <2> QED
      BY <2>3, <2>4, HarmlessSize DEF Metric
  <1>9. ASSUME NEW i \in DOMAIN patch.files
        PROVE  /\ patch.files[i].path \in {"docs/guide.md", "tests/test_app.py"}
               /\ patch.files[i].mode = "plain" /\ ~patch.files[i].mode_changed
               /\ ~patch.files[i].binary /\ ~patch.files[i].locked
               /\ AddedLines(patch.files[i]) \subseteq {"plain", "eval"}
    <2> DEFINE f == patch.files[i]
    <2>1. IsFile(f) /\ i \in 1..Len(patch.files) /\ Len(patch.files) \in Nat
      BY <1>1, PatchFiles
    <2>2. DOMAIN report.files = DOMAIN patch.files
      <3> DEFINE T == {FileReasons(patch.files[k], b) : k \in DOMAIN patch.files, b \in KernelAnswer}
      <3>1. report.files \in Seq(T)
        BY <1>5 DEF FilesReported, Reports
      <3> HIDE DEF T
      <3> QED
        BY <1>1, <1>2, <3>1, PatchFiles DEF Verified
    <2>3. DocsOrTestsOnly(report.files[i]) /\ ~f.binary /\ ~UnsafeMode(f)
      BY <1>3, <2>2 DEF AutoApplySkipped
    <2>4. OwnReasons(f) \subseteq report.files[i]
      BY <1>1, <1>5, <2>2, FileReport DEF FilesReported
    <2>5. /\ f.path \in Documentation \cup TestPath
          /\ AddedLines(f) \cap (SecretLine \cup DestructiveLine) = {}
      BY <2>1, <2>3, <2>4, HarmlessFile
    <2>6. /\ \A c \in PathIntents(f.path) : IntentSeverity(c) = Medium
          /\ \A l \in AddedLines(f) : \A c \in LineIntents(l) : IntentSeverity(c) = Medium
      BY <1>7 DEF ActionIntents
    <2>7. f.path # "docs/token.md"
      <3>1. SUFFICES ASSUME f.path = "docs/token.md" PROVE FALSE
        OBVIOUS
      <3>2. "auth" \in PathIntents(f.path)
        BY <3>1 DEF PathIntents, AuthPathIntent
      <3> QED
        BY <2>6, <3>2 DEF IntentSeverity, Medium, High
    <2>8. f.path \in {"docs/guide.md", "tests/test_app.py"}
      BY <2>5, <2>7 DEF Documentation, TestPath
    <2>9. AddedLines(f) \subseteq {"plain", "eval"}
      <3> SUFFICES ASSUME NEW l \in AddedLines(f) PROVE l \in {"plain", "eval"}
        OBVIOUS
      <3>1. l \in Line /\ l \notin {"credential", "rm", "chmod", "pipe"}
        BY <2>1, <2>5 DEF IsFile, AddedLines, SecretLine, DestructiveLine
      <3>2. l # "password"
        BY <2>6 DEF LineIntents, IntentSeverity, Medium, Critical
      <3>3. l # "drop"
        BY <2>6 DEF LineIntents, IntentSeverity, Medium, Critical
      <3>4. l # "url"
        BY <2>6 DEF LineIntents, IntentSeverity, Medium, High
      <3>5. l # "decode"
        BY <2>6 DEF LineIntents, IntentSeverity, Medium, Critical
      <3>6. l # "skip"
        BY <2>6 DEF LineIntents, IntentSeverity, Medium, Critical
      <3> QED
        BY <3>1, <3>2, <3>3, <3>4, <3>5, <3>6 DEF Line
    <2>10. ~f.locked
      BY <1>5, <1>7, <2>1 DEF SubjectiveInv
    <2> QED
      BY <2>1, <2>3, <2>8, <2>9, <2>10 DEF UnsafeMode
  <1>10. ~patch.ignored
    BY <1>3 DEF AutoApplySkipped
  <1> QED
    BY <1>1, <1>2, <1>4, <1>8, <1>9, <1>10 DEF AppliedIsHarmless

\* Under an enforced contract the hint leaves no action of the patch unmatched.
LEMMA EnforcedMatches ==
    ASSUME NEW c, c.mode = "enforce", NEW cm, NEW files,
           IntentHint(cm, files, c) \notin {"block", "require_approval"},
           NEW i \in DOMAIN files
    PROVE  Match(FileAction(files[i]), c) \notin {"hard_sensitive", "unknown", "conflict", "drift"}
  <1> DEFINE matches == {Match(a, c) : a \in Actions(cm, files)}
  <1>1. Match(FileAction(files[i]), c) \in matches
    BY DEF Actions
  <1> HIDE DEF matches
  <1>2. IntentHint(cm, files, c) = RecommendedHint(matches)
    BY DEF IntentHint, EffectiveHint, matches
  <1> QED
    BY <1>1, <1>2 DEF RecommendedHint

LEMMA MatchedFile ==
    ASSUME NEW c, IsContract(c), NEW f, IsFile(f),
           Match(FileAction(f), c) \notin {"hard_sensitive", "unknown", "conflict", "drift"}
    PROVE  /\ \A s \in c.excluded :
                  s.type = "paths" /\ s.kind = "any" => s.paths \cap {f.old_path, f.path} = {}
           /\ FileOperation(f.kind) \in c.allowed
              \/ {"config_change", "dependency_change"} \cap c.allowed # {}
           /\ c.targets # {} =>
                 \E s \in c.targets : s.type = "kind" \/ s.paths \cap {f.old_path, f.path} # {}
  <1> DEFINE a == FileAction(f)
  <1>1. a.paths = {f.old_path, f.path} /\ a.operation = FileOperation(f.kind)
    BY DEF FileAction
  <1> HIDE DEF a
  <1>2. Matching(c.excluded, a) = {} /\ OperationAllowed(a, c) # "no"
    BY DEF Match, a
  <1>3. a.paths # {}
    BY <1>1
  <1>4. c.targets # {} => Matching(c.targets, a) # {}
    BY <1>2, <1>3 DEF Match, a
  <1>5. ASSUME NEW s \in c.excluded, s.type = "paths", s.kind = "any"
        PROVE  s.paths \cap a.paths = {}
    BY <1>2, <1>5 DEF Matching, ScopeMatches
  <1>6. a.operation \in c.allowed \/ {"config_change", "dependency_change"} \cap c.allowed # {}
    BY <1>2 DEF OperationAllowed
  <1>7. ASSUME c.targets # {}
        PROVE  \E s \in c.targets : s.type = "kind" \/ s.paths \cap a.paths # {}
    <2>1. PICK s \in c.targets : ScopeMatches(s, a, a.paths)
      BY <1>4, <1>7 DEF Matching
    <2>2. s.type \in {"paths", "symbol", "kind"}
      BY DEF IsContract, IsScope
    <2> QED
      BY <2>1, <2>2 DEF ScopeMatches
  <1> QED
    BY <1>1, <1>5, <1>6, <1>7

LEMMA AppliesWithinIntent ==
    ASSUME AssessmentInv, FinalizeApplies
    PROVE  EnforcedIntentHolds'
  <1>1. /\ patch \in Patches /\ patch' = patch /\ contract' = contract /\ stage = "final"
        /\ contract \in Contracts \cup {NoContract}
    BY DEF AssessmentInv, Given, FinalizeApplies, given
  <1>2. status # "failed" /\ hint \notin {"block", "require_approval"}
    BY GoesOn DEF FinalizeApplies
  <1> SUFFICES ASSUME contract # NoContract, contract.mode = "enforce"
               PROVE  EnforcedIntentHolds'
    BY <1>1 DEF EnforcedIntentHolds
  <1>3. hint = IntentHint(cmd, patch.files, contract)
    BY <1>1, <1>2 DEF AssessmentInv, DecisionInv
  <1>4. IsContract(contract)
    BY <1>1, ContractsAssumption
  <1>5. ASSUME NEW i \in DOMAIN patch.files
        PROVE  Match(FileAction(patch.files[i]), contract)
                  \notin {"hard_sensitive", "unknown", "conflict", "drift"}
    BY <1>2, <1>3, EnforcedMatches
  <1>6. \A i \in DOMAIN patch.files : IsFile(patch.files[i])
    BY <1>1, PatchFiles
  <1> QED
    BY <1>1, <1>4, <1>5, <1>6, MatchedFile DEF EnforcedIntentHolds

LEMMA FinalizeAppliesKeeps ==
    ASSUME AssessmentInv, FinalizeApplies
    PROVE  AssessmentInv'
  <1>1. Given' /\ FilesReported' /\ SubjectiveInv' /\ ReportInv'
    BY AssessedStays DEF FinalizeApplies
  <1>2. DecisionInv'
    BY DEF DecisionInv, FinalizeApplies
  <1> QED
    BY <1>1, <1>2, AppliesHarmless, AppliesWithinIntent
    DEF AssessmentInv, FinalizeApplies, Stages, PendingCanBeApplied

LEMMA AssessmentNext == AssessmentInv /\ [Next]_vars => AssessmentInv'
  <1> SUFFICES ASSUME AssessmentInv, [Next]_vars PROVE AssessmentInv'
    OBVIOUS
  <1>1. CASE UNCHANGED vars
    <2>1. Given' /\ FilesReported' /\ SubjectiveInv' /\ DecisionInv'
      BY <1>1 DEF AssessmentInv, vars, Given, FilesReported, SubjectiveInv, DecisionInv,
                  ApplyRefused, StoredReport, ApprovalRequired, GateBlocked
    <2>2. ReportInv'
      BY <1>1 DEF AssessmentInv, vars, ReportInv, Assessed, Verified, Grave
    <2>3. AppliedIsHarmless' /\ PendingCanBeApplied' /\ EnforcedIntentHolds'
      BY <1>1 DEF AssessmentInv, vars, AppliedIsHarmless, PendingCanBeApplied, EnforcedIntentHolds
    <2> QED
      BY <1>1, <2>1, <2>2, <2>3 DEF AssessmentInv, vars
  <1> QED
    BY <1>1, ClassifyFileKeeps, FinishReportKeeps, ClassificationFailsKeeps, CollectSubjectiveKeeps,
       CollectionFailsKeeps, FinishSubjectiveKeeps, IntentKeeps, FinalizeEndsKeeps,
       FinalizeAppliesKeeps, FinalizeAsksKeeps, ApplyApprovedKeeps
    DEF Next

----------------------------------------------------------------------------
\* The report, the subjective reasons and the decision agree with the patch at
\* every stage of classify_and_decide_patch and finalize_guarded_patch.
THEOREM AssessmentAgrees == Spec => []AssessmentInv
  BY AssessmentInit, AssessmentNext, PTL DEF Spec

\* The second classification never lowers the level of the first, whatever the
\* kernel answers the second time: what made the first critical is a fact of
\* the patch, and anything else is outweighed by the subjective reason that
\* caused the second.
THEOREM SecondNeverLower == Spec => []LevelNeverDrops
  <1>1. AssessmentInv => LevelNeverDrops
    <2> SUFFICES ASSUME AssessmentInv, Assessed PROVE ReportLevel(report) >= first
      BY DEF LevelNeverDrops
    <2>1. /\ report.reasons = PatchReasons(patch, subjective) /\ first \in Level
          /\ first = Critical => Grave(patch)
          /\ subjective = {} => first = ReportLevel(report)
      BY DEF AssessmentInv, ReportInv
    <2>2. /\ ReportLevel(report) \in Level
          /\ GateBlocked(report) <=> Grave(patch) \/ \E r \in subjective : r.level = Critical
          /\ ReportLevel(report) = Critical <=> GateBlocked(report)
          /\ \A r \in subjective : r.level <= ReportLevel(report)
      BY <2>1, CompleteReport DEF AssessmentInv, Given, FilesReported, SubjectiveInv, Assessed, Verified
    <2>3. CASE subjective = {}
      BY <2>1, <2>2, <2>3 DEF Level, Low, Critical
    <2>4. CASE first = Critical
      BY <2>1, <2>2, <2>4 DEF Critical
    <2>5. CASE subjective # {} /\ first # Critical
      <3>1. PICK r \in subjective : r.level \in Level /\ r.level # Low /\ r.level # Medium
        BY <2>5 DEF AssessmentInv, SubjectiveInv, Reasons
      <3> QED
        BY <2>1, <2>2, <2>5, <3>1 DEF Level, Low, Medium, Critical
    <2> QED
      BY <2>3, <2>4, <2>5
  <1> QED
    BY <1>1, AssessmentAgrees, PTL

\* The change gate is closed by facts of the patch and by lock markers alone;
\* no answer of the kernel opens or closes it.
THEOREM GateIsDeterministic == Spec => []KernelNeverDecidesGate
  <1>1. AssessmentInv => KernelNeverDecidesGate
    <2> SUFFICES ASSUME AssessmentInv, Assessed PROVE KernelNeverDecidesGate
      BY DEF KernelNeverDecidesGate
    <2>1. report.reasons = PatchReasons(patch, subjective) /\ patch \in Patches
      BY DEF AssessmentInv, ReportInv, Given
    <2>2. GateBlocked(report) <=> Grave(patch) \/ \E r \in subjective : r.level = Critical
      BY <2>1, CompleteReport DEF AssessmentInv, FilesReported, SubjectiveInv, Assessed, Verified
    <2>3. Grave(patch) <=> CriticalFact(patch)
      BY <2>1, GraveIsCriticalFact
    <2> QED
      BY <2>2, <2>3 DEF AssessmentInv, SubjectiveInv, KernelNeverDecidesGate
  <1> QED
    BY <1>1, AssessmentAgrees, PTL

\* A patch that lands without approval is within the soft limits and touches
\* nothing but plain documentation and tests without lock markers.
THEOREM UnaskedIsHarmless == Spec => []AppliedIsHarmless
  <1>1. AssessmentInv => AppliedIsHarmless
    BY DEF AssessmentInv
  <1> QED
    BY <1>1, AssessmentAgrees, PTL

\* An approval that was granted is never refused at the apply.
THEOREM ApprovedIsAppliable == Spec => []PendingCanBeApplied
  <1>1. AssessmentInv => PendingCanBeApplied
    BY DEF AssessmentInv
  <1> QED
    BY <1>1, AssessmentAgrees, PTL

\* Under an enforced contract, what lands without approval keeps to the path
\* scopes and the operations of the contract.
THEOREM UnaskedIsIntended == Spec => []EnforcedIntentHolds
  <1>1. AssessmentInv => EnforcedIntentHolds
    BY DEF AssessmentInv
  <1> QED
    BY <1>1, AssessmentAgrees, PTL

=============================================================================
