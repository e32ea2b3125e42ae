-------------------------- MODULE MCPatchAssessment --------------------------
(***************************************************************************)
(* Patches of one or two files, one file for every way in which a file can *)
(* matter; the pairs bring together the reasons of different files.        *)
(***************************************************************************)
EXTENDS PatchAssessment, TLC

MCLimits == ("changed_files" :> [soft |-> 2, hard |-> 3])
         @@ ("total_changed_lines" :> [soft |-> 4, hard |-> 5])
         @@ ("patch_size_bytes" :> [soft |-> 1, hard |-> 2])
         @@ ("binary_files" :> [soft |-> 0, hard |-> 1])

F(p) == [path |-> p, old_path |-> p, kind |-> "modified", mode |-> "plain",
         mode_changed |-> FALSE, binary |-> FALSE, lines |-> {"plain"},
         load |-> "ok", text |-> {}, delta |-> 1, locked |-> FALSE]

Guide == F("docs/guide.md")

\* Every path, then every other attribute of a file.
MCFiles ==
    {F(p) : p \in Path}
    \cup {[Guide EXCEPT !.lines = {l}] : l \in Line}
    \cup {[F("scripts/run.sh") EXCEPT !.lines = {"chmod"}],
          [F("Scripts/Deploy.py") EXCEPT !.lines = {"pipe"}],
          [Guide EXCEPT !.binary = TRUE, !.lines = {}, !.delta = 0],
          [Guide EXCEPT !.mode = "symlink"],
          [Guide EXCEPT !.mode = "submodule"],
          [Guide EXCEPT !.mode = "exec", !.kind = "mode_changed", !.mode_changed = TRUE],
          [Guide EXCEPT !.mode = "exec"],
          [Guide EXCEPT !.delta = 5],
          [Guide EXCEPT !.delta = 6],
          [Guide EXCEPT !.locked = TRUE],
          [F("src/app.py") EXCEPT !.locked = TRUE],
          [Guide EXCEPT !.load = "invalid-encoding"],
          [F("uv.lock") EXCEPT !.text = {"valid"}],
          [F("uv.lock") EXCEPT !.load = "huge"],
          [Guide EXCEPT !.kind = "deleted", !.lines = {}],
          [F("yarn.lock") EXCEPT !.text = {"blank"}, !.lines = {}, !.kind = "deleted"],
          [F("gen/api_pb2.py") EXCEPT !.text = {"marked"}],
          [F("src/app.py") EXCEPT !.text = {"large"}],
          [F("tests/test_app.py") EXCEPT !.kind = "added"],
          [Guide EXCEPT !.kind = "renamed", !.old_path = "src/app.py"],
          [Guide EXCEPT !.kind = "renamed", !.old_path = "docs/token.md"]}

\* The files that are put together in pairs.
MCPaired ==
    {Guide, F("src/app.py"), F("tests/test_app.py"),
     [Guide EXCEPT !.locked = TRUE], [Guide EXCEPT !.mode = "submodule"],
     [F("lib/native.so") EXCEPT !.binary = TRUE, !.lines = {}, !.delta = 0],
     [F("setup.py") EXCEPT !.delta = 3],
     [Guide EXCEPT !.kind = "renamed", !.old_path = "src/app.py"]}

MCPatches ==
    {[files |-> <<f>>, size |-> 1, ignored |-> FALSE] : f \in MCFiles}
    \cup {[files |-> <<Guide>>, size |-> s, ignored |-> g] : s \in 1..3, g \in BOOLEAN}
    \cup {[files |-> fs, size |-> 1, ignored |-> FALSE] :
            fs \in {s \in MCPaired \X MCPaired : s[1].path # s[2].path}
                   \cup {<<Guide, F("tests/test_app.py"), F("docs/token.md")>>,
                         <<Guide, F("tests/test_app.py"), F("docs/token.md"), F("src/app.py")>>}}

PathScope(ps) == [type |-> "paths", paths |-> ps, kind |-> "any"]

MCContracts ==
    LET docs == [mode |-> "enforce", allowed |-> {"modify", "rename", "test"},
                 targets |-> {PathScope(Documentation \cup TestPath)}, excluded |-> {}]
    IN  {docs,
         [docs EXCEPT !.mode = "shadow"],
         [docs EXCEPT !.mode = "disabled"],
         [docs EXCEPT !.allowed = {"modify", "command"},
                      !.targets = {[type |-> "kind", paths |-> {}, kind |-> "documentation"]}],
         [docs EXCEPT !.targets = {PathScope({"docs/guide.md"})}],
         [docs EXCEPT !.targets = {PathScope(Documentation \cup TestPath)},
                      !.excluded = {PathScope({"src/app.py"})}],
         [docs EXCEPT !.allowed = {"config_change", "rename", "command"},
                      !.targets = {[type |-> "symbol", paths |-> {"src/app.py"}, kind |-> "any"],
                                   [type |-> "kind", paths |-> {}, kind |-> "config"]}],
         [docs EXCEPT !.allowed = {"test"}, !.targets = {}]}

MCCommands ==
    {[exe |-> "pytest", paths |-> {"tests/test_app.py"}, end |-> "ok"],
     [exe |-> "pytest", paths |-> {"docs/guide.md"}, end |-> "ok"],
     [exe |-> "agent", paths |-> {}, end |-> "ok"],
     [exe |-> "agent", paths |-> {}, end |-> "failed"],
     [exe |-> "mv", paths |-> {"src/app.py"}, end |-> "timed_out"]}

=============================================================================
