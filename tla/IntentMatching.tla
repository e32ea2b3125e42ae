--------------------------- MODULE IntentMatching ---------------------------
(***************************************************************************)
(* The comparison of what a guarded run did with the intent contract it    *)
(* was given: action_normalizer.py turns the command and the changed files *)
(* into actions, capability_matcher.py matches each one with the contract  *)
(* and intent_fallback_policy.py combines the matches.                     *)
(***************************************************************************)
EXTENDS PathTables, Naturals, FiniteSets

Mutating == {"create", "modify", "delete_file", "delete_folder", "rename", "move"}
Operation == Mutating \cup {"dependency_change", "config_change", "test", "build",
                            "command", "unknown"}

\* A scope names paths (exactly, by glob or by file type), the module that some
\* path declares, or a kind of resource; any of them may ask for a kind as well.
IsScope(s) == /\ s.type \in {"paths", "symbol", "kind"}
              /\ s.paths \subseteq Path
              /\ s.type = "kind" => s.kind # "any"

\* _require_scope_for_mutating_actions.
IsContract(c) ==
    /\ c.mode \in {"disabled", "shadow", "enforce"}
    /\ c.allowed \subseteq Operation /\ c.allowed # {}
    /\ \A s \in c.targets \cup c.excluded : IsScope(s)
    /\ c.allowed \cap (Mutating \cup {"dependency_change", "config_change"}) # {}
         => c.targets # {}

-----------------------------------------------------------------------------
\* _dominant_resource_kind: the first of these kinds that some path has, and
\* the kind of the first path when none of them does.
Preferred == <<"sensitive", "policy", "ci_workflow", "dependency_manifest",
               "lockfile", "config", "python_module", "test">>

DominantKind(paths, first) ==
    LET kinds == {ResourceKind(p) : p \in paths}
        ranks == {i \in DOMAIN Preferred : Preferred[i] \in kinds}
    IN  IF paths = {} THEN "unknown"
        ELSE IF ranks = {} THEN ResourceKind(first)
        ELSE Preferred[CHOOSE i \in ranks : \A j \in ranks : i <= j]

\* _operation_from_command, by what the executable and its arguments are.
CommandOperation(exe) ==
    CASE exe = "rm -r" -> "delete_folder"
      [] exe = "rm" -> "delete_file"
      [] exe = "mv" -> "move"
      [] exe = "cp" -> "create"
      [] exe = "pytest" -> "test"
      [] exe = "make build" -> "build"
      [] exe = "pip install" -> "dependency_change"
      [] OTHER -> "command"

\* The paths are the arguments that look like one; the runs have at most one.
CommandAction(cmd) ==
    [operation |-> CommandOperation(cmd.exe), paths |-> cmd.paths,
     kind |-> DominantKind(cmd.paths, CHOOSE p \in cmd.paths : TRUE)]

FileOperation(kind) == CASE kind \in {"added", "untracked"} -> "create"
                         [] kind \in {"modified", "mode_changed"} -> "modify"
                         [] kind = "deleted" -> "delete_file"
                         [] kind = "renamed" -> "rename"

\* A renamed file is one action on both of its paths, the old one first.
FileAction(f) ==
    LET paths == {f.old_path, f.path}
    IN  [operation |-> FileOperation(f.kind), paths |-> paths,
         kind |-> DominantKind(paths, f.old_path)]

Actions(cmd, files) ==
    {CommandAction(cmd)} \cup {FileAction(files[i]) : i \in DOMAIN files}

-----------------------------------------------------------------------------
ConfigKind == {"config", "ci_workflow", "policy"}
DependencyKind == {"dependency_manifest", "lockfile"}

KindMatches(expected, kind) ==
    \/ kind = expected
    \/ expected = "config" /\ kind \in ConfigKind
    \/ expected = "dependency_manifest" /\ kind \in DependencyKind

\* Paths are those asked about; the modules are those of the whole action.
ScopeMatches(s, action, paths) ==
    /\ s.kind # "any" => KindMatches(s.kind, action.kind)
    /\ CASE s.type = "paths" -> s.paths \cap paths # {}
         [] s.type = "symbol" -> s.paths \cap action.paths \cap DeclaresModule # {}
         [] s.type = "kind" -> TRUE

Matching(scopes, action) == {s \in scopes : ScopeMatches(s, action, action.paths)}

\* _operation_allowed: by name, or by what the changed resource means.
OperationAllowed(action, c) ==
    IF action.operation \in c.allowed THEN "exact"
    ELSE IF /\ action.operation \in Mutating
            /\ \/ "config_change" \in c.allowed /\ action.kind \in ConfigKind
               \/ "dependency_change" \in c.allowed /\ action.kind \in DependencyKind
         THEN "semantic" ELSE "no"

NeedsPaths(scopes) == \E s \in scopes : s.type \in {"paths", "symbol"}

OutsideTargets(action, c) ==
    {p \in action.paths : /\ NeedsPaths(c.targets)
                          /\ ~\E s \in c.targets : ScopeMatches(s, action, {p})}

\* match_action_to_contract.  The paths come from git or from the extraction
\* of the command's arguments, which has dropped those that are not valid.
Match(action, c) ==
    LET allowed == OperationAllowed(action, c)
        full == IF allowed = "exact" THEN "exact_match" ELSE "partial_match"
    IN  IF action.kind = "sensitive" THEN "hard_sensitive"
        ELSE IF Matching(c.excluded, action) # {} THEN "conflict"
        ELSE IF allowed = "no"
             THEN IF action.operation = "unknown" THEN "unknown" ELSE "conflict"
        ELSE IF c.targets = {} THEN full
        ELSE IF action.paths = {} /\ NeedsPaths(c.targets) THEN "unknown"
        ELSE IF Matching(c.targets, action) = {} THEN "drift"
        ELSE IF OutsideTargets(action, c) # {} THEN "partial_match"
        ELSE full

-----------------------------------------------------------------------------
\* Fault: a partial match is taken before a drift.
RecommendedHintPartialFirst(matches) ==
    IF "hard_sensitive" \in matches THEN "block"
    ELSE IF "partial_match" \in matches THEN "audit"
    ELSE IF matches \cap {"unknown", "conflict", "drift"} # {} THEN "require_approval"
    ELSE "allow"

\* _recommended_fallback: the worst match decides.
RecommendedHint(matches) ==
    IF "hard_sensitive" \in matches THEN "block"
    ELSE IF matches = {} \/ matches \cap {"unknown", "conflict", "drift"} # {}
         THEN "require_approval"
    ELSE IF "partial_match" \in matches THEN "audit"
    ELSE "allow"

EffectiveHint(hint, mode) ==
    CASE mode = "disabled" -> "none"
      [] mode = "shadow" /\ hint \in {"block", "require_approval"} -> "audit"
      [] OTHER -> hint

IntentHint(cmd, files, c) ==
    EffectiveHint(RecommendedHint({Match(a, c) : a \in Actions(cmd, files)}), c.mode)

=============================================================================
