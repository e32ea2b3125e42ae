----------------------------- MODULE PolicyRules -----------------------------
(***************************************************************************)
(* Policies and their evaluation (policy_engine.py).  What a condition of a *)
(* rule compares with the request is one fact of the request, so that a     *)
(* condition holds exactly if the request has the fact.                     *)
(***************************************************************************)
EXTENDS Naturals, Sequences, FiniteSets, SequencesExt

CONSTANTS
    Conditions,     \* facts the rules ask for: a tool's name, a target, ...
    TargetSetting,  \* RYGNAL_POLICY_REGEX_MAX_TARGET_BYTES, 0 if it is unset
    PatternSetting  \* RYGNAL_POLICY_REGEX_MAX_PATTERN_BYTES

\* _configured_positive_int: anything but a positive number is ignored.
Configured(setting, default) == IF setting > 0 THEN setting ELSE default
TargetLimit == Configured(TargetSetting, 8192)
PatternLimit == Configured(PatternSetting, 2048)

Decisions == {"allow", "block", "simulate", "require_approval"}
Severities == {"low", "medium", "high", "critical"}

NoLevel == "any"
NoScore == 0

\* before: tool, action, environment and plain target conditions; search and
\* unless: patterns the target must and must not match; after: conditions on
\* the input and the metadata; level and score: conditions on the risk.
Rule ==
    [id: Nat, priority: 0..1000, decision: Decisions, severity: Severities,
     before: SUBSET Conditions, search: SUBSET Conditions, unless: SUBSET Conditions,
     after: SUBSET Conditions, pattern: [bytes: Nat, compiles: BOOLEAN], level: Severities \cup {NoLevel}, score: 0..100]

\* _safe_policy_regex_search raises when the target is too long.
SearchRaises(rule, q) == rule.search \cup rule.unless # {} /\ q.bytes > TargetLimit

\* sorted(rules, key=priority): stable, so that rules of one priority keep
\* the order of the file.
Precedes(rules, i, j) ==
    rules[i].priority < rules[j].priority \/ (rules[i].priority = rules[j].priority /\ i < j)

Sorted(rules) ==
    [k \in DOMAIN rules |->
        rules[CHOOSE i \in DOMAIN rules : Cardinality({j \in DOMAIN rules : Precedes(rules, j, i)}) = k - 1]]

\* _matches, in the order of the code: a search in a long target raises only
\* if the conditions tested before it hold.  The request q has the facts
\* q.facts, a target of q.bytes bytes and the risk q.level, q.score.
MatchOutcome(rule, q) ==
    IF ~(rule.before \subseteq q.facts) THEN "no"
    ELSE IF SearchRaises(rule, q) THEN "guard"
    ELSE IF /\ rule.search \subseteq q.facts /\ rule.unless \cap q.facts = {}
            /\ rule.after \subseteq q.facts
            /\ rule.level # NoLevel => rule.level = q.level
            /\ q.score >= rule.score
    THEN "yes" ELSE "no"

\* evaluate: the first rule that matches decides; one that raises blocks.
Evaluate(policy, q) ==
    LET rules == Sorted(policy.rules)
        hit   == SelectInSeq(rules, LAMBDA r : MatchOutcome(r, q) # "no")
    IN  IF hit = 0 THEN [decision |-> policy.default, severity |-> "low"]
        ELSE IF MatchOutcome(rules[hit], q) = "guard" THEN [decision |-> "block", severity |-> "high"]
        ELSE [decision |-> rules[hit].decision, severity |-> rules[hit].severity]

\* _is_terminal_catch_all_rule
CatchAll(rule) ==
    /\ rule.before \cup rule.search \cup rule.unless \cup rule.after = {}
    /\ rule.level = NoLevel /\ rule.score = NoScore

PolicyRange(policy) == {policy.rules[i] : i \in DOMAIN policy.rules}

\* Fault: the last rule may decide anything.
TerminalAcceptedAnyDecision(policy) ==
    LET terminal == {i \in DOMAIN policy.rules : CatchAll(policy.rules[i])}
    IN  /\ Cardinality(terminal) = 1
        /\ \A i \in terminal : \A j \in DOMAIN policy.rules \ {i} : policy.rules[j].priority < policy.rules[i].priority

\* _validate_terminal_catch_all
TerminalAccepted(policy) ==
    LET terminal == {i \in DOMAIN policy.rules : CatchAll(policy.rules[i])}
    IN  /\ Cardinality(terminal) = 1
        /\ \A i \in terminal :
              /\ policy.rules[i].decision \notin {"allow", "simulate"}
              /\ \A j \in DOMAIN policy.rules \ {i} : policy.rules[j].priority < policy.rules[i].priority

\* _validate_policy_regex_pattern
PatternAccepted(rule) ==
    rule.search \cup rule.unless # {} => rule.pattern.bytes <= PatternLimit /\ rule.pattern.compiles

\* _validate_policy_schema, with the profile of the production-safe mode.
SchemaAccepted(policy, production) ==
    /\ IsInjective([i \in DOMAIN policy.rules |-> policy.rules[i].id])
    /\ \A rule \in PolicyRange(policy) : PatternAccepted(rule)
    /\ production => policy.default \notin {"allow", "simulate"} /\ TerminalAccepted(policy)

\* Where the text of a policy comes from, and from_file and from_yaml_text:
\* what is missing, no regular file, no YAML or no policy raises.
Sources == {"bundled", "file", "missing", "directory", "no_yaml", "no_policy"}
Readable(source) == source \in {"bundled", "file"}

\* load_default_policy_engine
LoadAccepted(source, policy, mode) ==
    /\ Readable(source)
    /\ SchemaAccepted(policy, mode = "production_safe")
    /\ mode # "production_safe" => policy.default = "block"

----------------------------------------------------------------------------
\* A rule without a condition, to be refined.
AnyRule(id, priority, decision, severity) ==
    [id |-> id, priority |-> priority, decision |-> decision, severity |-> severity,
     before |-> {}, search |-> {}, unless |-> {}, after |-> {},
     pattern |-> [bytes |-> 80, compiles |-> TRUE], level |-> NoLevel, score |-> NoScore]

\* resources/policies/default_policy.yaml
DefaultPolicy ==
    [default |-> "block",
     rules |-> <<[AnyRule(1, 10, "block", "high") EXCEPT !.before = {"file_read", "env_target"}],
                 [AnyRule(2, 15, "block", "critical") EXCEPT !.before = {"file_read"}, !.search = {"key_target"}],
                 [AnyRule(3, 20, "block", "critical") EXCEPT !.before = {"shell_command"}, !.after = {"rm_rf_input"}],
                 [AnyRule(4, 30, "require_approval", "high") EXCEPT !.before = {"file_delete"}],
                 [AnyRule(5, 40, "simulate", "medium") EXCEPT !.before = {"external_api_send"}],
                 [AnyRule(6, 50, "allow", "low") EXCEPT !.before = {"file_read"}, !.search = {"readme_target"},
                                                    !.unless = {"key_or_env_target"}],
                 [AnyRule(7, 60, "allow", "low") EXCEPT !.before = {"shell_command"}, !.after = {"ls_input"}],
                 [AnyRule(8, 70, "allow", "low") EXCEPT !.before = {"file_write", "notes_target"}]>>]

\* resources/policies/production_safe_policy.yaml
ProductionPolicy ==
    [default |-> "require_approval",
     rules |-> <<[AnyRule(1, 5, "block", "critical") EXCEPT !.level = "critical"],
                 [AnyRule(2, 10, "block", "critical") EXCEPT !.score = 85],
                 [AnyRule(3, 20, "block", "high") EXCEPT !.before = {"file_read", "env_target"}],
                 [AnyRule(4, 30, "block", "critical") EXCEPT !.before = {"shell_command"}, !.after = {"rm_rf_input"}],
                 [AnyRule(5, 40, "require_approval", "high") EXCEPT !.before = {"file_delete"}],
                 [AnyRule(6, 50, "simulate", "medium") EXCEPT !.before = {"external_api_send"}],
                 AnyRule(7, 1000, "require_approval", "high")>>]

BundledConditions ==
    {"file_read", "shell_command", "file_delete", "external_api_send", "file_write", "env_target", "key_target",
     "readme_target", "key_or_env_target", "notes_target", "rm_rf_input", "ls_input"}
=============================================================================
