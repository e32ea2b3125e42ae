------------------------------ MODULE RiskScore ------------------------------
(***************************************************************************)
(* Scoring of a tool request (risk_engine.py).  A request is what the       *)
(* detectors can tell about it: its kind of tool, the marks found in its    *)
(* target and in its input, its command, its URLs and its environment.      *)
(***************************************************************************)
EXTENDS Naturals, FiniteSets, FiniteSetsExt, Sequences

CONSTANTS
    Traces,       \* trace identities
    NoTrace,      \* the request carries no identity
    HistoryLimit  \* trace_history_limit

ASSUME RiskAssumption == NoTrace \notin Traces /\ HistoryLimit \in Nat \ {0}

ToolKinds == {"delete", "shell", "send", "db_write", "db_read", "plain"}
TargetMarks == {"dotenv", "ends_in_env", "config_file", "secret_word", "business", "etc", "ssh", "climbs_to_secret"}
InputMarks == {"secret", "shell_pattern"}
Environments == {"local", "shared", "prod", "production"}

\* The command of the input: what it is wrapped in, from the outside, its
\* program and its flags.
Command == [wrappers: Seq({"sh_c", "sudo"}), program: {"rm", "other"}, flags: SUBSET {"r", "f"}]
Url == [https: BOOLEAN, host: {"public", "localhost", "unspecified", "metadata", "private"}]

\* name and action: whether they are a destructive verb (delete, drop, ...) or
\* one of moving data out (post, upload, ...).
Verbs == {"destructive", "sending", "other"}

RiskFacts ==
    [tool: ToolKinds, name: Verbs, action: Verbs, target: SUBSET TargetMarks, input: SUBSET InputMarks,
     command: Command, urls: Seq(Url), env: Environments]

\* normalize_shell_command unwraps sh -c, and bash -c, again and again.
Unwrapped(wrappers) ==
    LET outer == {i \in DOMAIN wrappers : \A j \in 1..i : wrappers[j] = "sh_c"}
    IN  SubSeq(wrappers, Cardinality(outer) + 1, Len(wrappers))

\* is_recursive_force_remove looks behind one sudo.
RecursiveForceRemove(command) ==
    /\ Unwrapped(command.wrappers) \in {<<>>, <<"sudo">>}
    /\ command.program = "rm" /\ {"r", "f"} \subseteq command.flags

\* classify_sensitive_path
SensitivePathClass(target) ==
    IF "etc" \in target THEN "system-config"
    ELSE IF "ssh" \in target THEN "ssh-credential"
    ELSE IF "climbs_to_secret" \in target THEN "traversal-sensitive-target" ELSE "none"

\* classify_risky_destination
RiskyUrl(url) == ~url.https \/ url.host # "public"

\* is_destructive_action_variant
Destructive(f) == "destructive" \in {f.name, f.action}

\* is_external_data_movement
ExternalDataMovement(f) == f.tool = "send" \/ f.action = "sending" \/ f.urls # <<>>

\* trace_identity: the first of trace_id, request_id, session_id and run_id
\* that is given.
TraceIdentity(ids) ==
    LET given == {i \in DOMAIN ids : ids[i] # NoTrace}
    IN  IF given = {} THEN NoTrace ELSE ids[Min(given)]

Signal(detector, n, score) == [by |-> detector, n |-> n, score |-> score]

CapabilityScore ==
    [t \in ToolKinds |-> CASE t = "delete" -> 75 [] t = "shell" -> 70 [] t = "send" -> 65
                           [] t = "db_write" -> 80 [] t = "db_read" -> 45 [] t = "plain" -> 0]

ToolCapability(f) ==
    {Signal("capability", 1, s) : s \in {CapabilityScore[f.tool]} \ {0}}

TargetSensitivity(f) ==
    {Signal("target", k[1], k[2]) :
        k \in {x \in {<<1, 95, {"dotenv", "ends_in_env"}>>, <<2, 90, {"dotenv", "config_file"}>>,
                      <<3, 70, {"secret_word"}>>, <<4, 45, {"business"}>>} :
               x[3] \cap f.target # {}}}

NormalizedCommand(f) ==
    IF RecursiveForceRemove(f.command) THEN {Signal("normalized", 1, 90)} ELSE {}

SensitivePath(f) ==
    IF SensitivePathClass(f.target) # "none" THEN {Signal("path", 1, 90)} ELSE {}

\* One signal for every risky URL.
RiskyDestination(f) ==
    {Signal("destination", n, 40) : n \in {i \in DOMAIN f.urls : RiskyUrl(f.urls[i])}}

CredentialExfiltration(f) ==
    IF ExternalDataMovement(f) /\ "secret" \in f.input
    THEN {Signal("exfiltration", 1, 35)} ELSE {}

DestructiveVariant(f) ==
    IF Destructive(f) THEN {Signal("destructive", 1, 60)} ELSE {}

CompoundRisk(f) ==
    IF f.env = "production" /\ Destructive(f) /\ "business" \in f.target
    THEN {Signal("compound", 1, 40)} ELSE {}

InputSensitivity(f) ==
    {Signal("input", k[1], k[2]) :
        k \in {x \in {<<1, 95, "secret">>, <<2, 90, "shell_pattern">>} : x[3] \in f.input}}

EnvironmentSignals(f) ==
    {Signal("environment", k[1], k[2]) :
        k \in {x \in {<<1, 25, {"prod", "production"}>>, <<2, 30, Environments \ {"local"}>>} :
               f.env \in x[3]}}

\* RiskSignalRegistry.default, in no particular order: scores are added.
DetectSignals(f) ==
    UNION {ToolCapability(f), TargetSensitivity(f), NormalizedCommand(f), SensitivePath(f),
           RiskyDestination(f), CredentialExfiltration(f), DestructiveVariant(f),
           CompoundRisk(f), InputSensitivity(f), EnvironmentSignals(f)}

CappedScore(total) == IF total > 100 THEN 100 ELSE total

SignalScore(s) == s.score

\* assess, before the history: a request without a signal gets the baseline.
PreliminaryScore(f) ==
    LET signals == DetectSignals(f)
    IN  IF signals = {} THEN 10 ELSE CappedScore(MapThenSumSet(SignalScore, signals))

MediumThreshold == 30

\* level_from_score
RiskLevel(score) ==
    CASE score >= 85 -> "critical" [] score >= 60 -> "high"
      [] score >= MediumThreshold -> "medium" [] OTHER -> "low"

RiskyCount(history) ==
    Cardinality({i \in 1..Len(history) : history[i] >= MediumThreshold})

\* _cumulative_trace_signal: a risky request is raised by the risky ones the
\* history of its trace holds.
CumulativeScore(trace, history, score) ==
    IF trace = NoTrace \/ score < MediumThreshold THEN 0
    ELSE IF RiskyCount(history) >= 2 THEN 45
    ELSE IF RiskyCount(history) >= 1 THEN 20 ELSE 0

FinalScore(trace, history, score) == CappedScore(score + CumulativeScore(trace, history, score))

\* del history[: n]
DropFirst(history, n) == SubSeq(history, n + 1, Len(history))
=============================================================================
