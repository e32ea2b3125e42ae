----------------------------- MODULE PathTables -----------------------------
(***************************************************************************)
(* What Rygnal reads off a changed path and off an added line.  Four parts *)
(* of the code keep tables of their own (change_risk.py, action_intent.py, *)
(* dependency_governance.py, action_normalizer.py) and they do not agree.  *)
(* A table of patterns is here the set of the representative paths, or     *)
(* kinds of added line, that it matches; there is a representative for     *)
(* every way in which the tables differ.                                   *)
(***************************************************************************)

Path == {"docs/guide.md", "docs/token.md", "tests/test_app.py", "src/app.py",
         "src/auth/login.py", "src/policy/rules.yaml", "gen/api_pb2.py", ".env",
         "keys/server.pem", "uv.lock", "yarn.lock", "web/package-lock.json",
         "setup.py", "pip.conf", ".github/workflows/ci.yml", "terraform/main.tf",
         "Scripts/Deploy.py", "scripts/run.sh", "lib/native.so", "notes.ipynb"}

\* Added lines: ordinary text, a credential assigned to a name, the word
\* password, "rm -rf", "chmod 777", "drop database", "curl ... | sh", a URL,
\* a decoder piped into a shell, an eval, and "skip approval".
Line == {"plain", "credential", "password", "rm", "chmod", "drop", "pipe",
         "url", "decode", "eval", "skip"}

-----------------------------------------------------------------------------
\* change_risk.py.  Path patterns are matched against the lowered path ...
SecuritySensitive == {".env", "keys/server.pem"}
DependencyFile    == {"uv.lock", "yarn.lock", "web/package-lock.json"}
CiConfig          == {".github/workflows/ci.yml"}
InfraOrDeploy     == {"terraform/main.tf"}
AuthSecurity      == {"src/auth/login.py"}
ScriptLike        == {"Scripts/Deploy.py", "scripts/run.sh"}
\* ... except where a destructive added line is weighed, which takes the path
\* as it is spelt.
ScriptLikeAsSpelt == {"scripts/run.sh"}
BinaryExtension   == {"lib/native.so"}
Documentation     == {"docs/guide.md", "docs/token.md"}
TestPath          == {"tests/test_app.py"}

SecretLine      == {"credential"}
DestructiveLine == {"rm", "chmod", "pipe"}

\* Claims to skip the Rust analysis: a lockfile at the root or below it, those
\* whose structure is known, paths that look generated, and notebooks.
LockfileName  == {"uv.lock", "yarn.lock", "web/package-lock.json"}
RootPath      == {".env", "uv.lock", "yarn.lock", "setup.py", "pip.conf", "notes.ipynb"}
KnownLockfile == {"uv.lock", "web/package-lock.json"}
GeneratedPath == {"gen/api_pb2.py"}
Notebook      == {"notes.ipynb"}

-----------------------------------------------------------------------------
\* dependency_governance.py: the kind of dependency file, and where it is
\* managed (directory and toolchain).
Manifest       == {"setup.py"}
Lockfile       == {"uv.lock", "yarn.lock", "web/package-lock.json"}
RegistryConfig == {"pip.conf"}
Toolchain(p) == CASE p \in {"setup.py", "uv.lock"} -> <<".", "pyproject">>
                  [] p = "pip.conf" -> <<".", "requirements">>
                  [] p = "yarn.lock" -> <<".", "yarn">>
                  [] p = "web/package-lock.json" -> <<"web", "npm">>

-----------------------------------------------------------------------------
\* action_intent.py: the intents that a path or an added line is evidence of.
SecretPathIntent == {".env"}
AuthPathIntent   == {"src/auth/login.py", "docs/token.md"}
AuditPathIntent  == {"src/policy/rules.yaml"}
SourcePathIntent == {"tests/test_app.py", "src/app.py", "src/auth/login.py",
                     "gen/api_pb2.py", "setup.py", "Scripts/Deploy.py"}

PathIntents(p) ==
    {c \in {"secret", "dependency", "ci", "infra", "auth", "audit", "source"} :
       \/ c = "secret" /\ p \in SecretPathIntent
       \/ c = "dependency" /\ p \in DependencyFile
       \/ c = "ci" /\ p \in CiConfig
       \/ c = "infra" /\ p \in InfraOrDeploy
       \/ c = "auth" /\ p \in AuthPathIntent
       \/ c = "audit" /\ p \in AuditPathIntent
       \/ c = "source" /\ p \in SourcePathIntent}

LineIntents(l) ==
    CASE l \in {"credential", "password"} -> {"secret"}
      [] l \in {"url", "pipe"} -> {"network"}
      [] l \in {"rm", "drop"} -> {"destructive"}
      [] l = "skip" -> {"bypass"}
      [] l = "decode" -> {"bypass", "ambiguous"}
      [] l = "eval" -> {"ambiguous"}
      [] OTHER -> {}

-----------------------------------------------------------------------------
\* action_normalizer.py and resource_graph.py: the kind of resource a path is,
\* the first that applies, and the modules of the paths that declare one.
ResourceKind(p) ==
    CASE p \in {".env", "docs/token.md"} -> "sensitive"
      [] p = ".github/workflows/ci.yml" -> "ci_workflow"
      [] p \in {"uv.lock", "yarn.lock", "web/package-lock.json"} -> "lockfile"
      [] p = "setup.py" -> "dependency_manifest"
      [] p = "src/policy/rules.yaml" -> "policy"
      [] p = "tests/test_app.py" -> "test"
      [] p \in {"src/app.py", "src/auth/login.py", "gen/api_pb2.py",
                "Scripts/Deploy.py"} -> "python_module"
      [] p = "pip.conf" -> "config"
      [] p = "docs/guide.md" -> "documentation"
      [] OTHER -> "file"

DeclaresModule == {"tests/test_app.py", "src/app.py", "src/auth/login.py",
                   "gen/api_pb2.py", "setup.py", "Scripts/Deploy.py"}

=============================================================================
