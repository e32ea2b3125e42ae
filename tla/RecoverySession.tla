--------------------------- MODULE RecoverySession ---------------------------
(***************************************************************************)
(* Disposable workspaces (src/rygnal/recovery_session.py).  A session is a  *)
(* directory under the run root with an ownership marker and a detached git *)
(* worktree in it.  It is built in that order and torn down in the other,   *)
(* by the run that made it or by a recovery pass, and every step can be the *)
(* last one its process takes.  A move to quarantine is one step.           *)
(***************************************************************************)
CONSTANTS
    Runs,        \* guarded runs, each with a session of its own
    GitFaults    \* how git and the file system may fail, see below

\* "mark": the marker cannot be written; "add": worktree add or the checks
\* after it fail; "remove": worktree remove
\* refuses; "midway": it drops the registration and leaves files behind;
\* "move": worktree move refuses; "litter": something besides the worktree is
\* in the session directory.
ASSUME FaultAssumption == GitFaults \subseteq {"mark", "add", "remove", "midway", "move", "litter"}

SessionState ==
    {"none",         \* nothing on disk
     "bare",         \* the directory, perhaps with an unfinished marker
     "marked",       \* directory and ownership marker
     "tree",         \* and the registered worktree
     "stray",        \* marker and files git has no longer registered
     "unmarked",     \* a worktree that lost its marker
     "quarantined"}

VARIABLE session     \* [Runs -> SessionState]

Put(u, s) == session' = [session EXCEPT ![u] = s]

\* create_recovery_session: mkdir, then the marker, then the worktree.
MakeDir(u) == session[u] = "none" /\ Put(u, "bare")

WriteMarker(u) == session[u] = "bare" /\ Put(u, "marked")

\* git creates the directories that are missing, but not the marker.
AddWorktree(u) == Put(u, IF session[u] = "marked" THEN "tree" ELSE "unmarked")

\* A worktree that was added is not the one that was asked for, or none was.
AddFails(u) ==
    /\ "add" \in GitFaults
    /\ \/ AddWorktree(u)
       \/ UNCHANGED session

\* The exception handler: worktree, marker and directory, each best effort.
UndoCreate(u) ==
    \/ session[u] # "quarantined" /\ Put(u, "none")
    \/ session[u] \in {"tree", "unmarked"} /\ "remove" \in GitFaults /\ Put(u, "unmarked")
    \/ session[u] = "quarantined" /\ UNCHANGED session

\* A worktree that git knows, with or without its marker.
HasTree(u) == session[u] \in {"tree", "unmarked"}

\* _validate_cleanup_ownership: the marker is intact and git knows the worktree.
Owned(u) == session[u] = "tree"

\* git worktree remove --force and, when it fails, _quarantine_worktree.
RemoveWorktree(u, result) ==
    \/ result = "removed" /\ session[u] = "tree" /\ Put(u, "marked")
    \/ /\ result = "quarantined"
       /\ session[u] = "tree" /\ "remove" \in GitFaults
       /\ Put(u, "quarantined")
    \/ /\ result = "failed"
       /\ \/ session[u] = "tree" /\ "midway" \in GitFaults /\ Put(u, "stray")
          \/ session[u] = "tree" /\ "move" \in GitFaults /\ UNCHANGED session
          \/ session[u] # "tree" /\ UNCHANGED session

\* What is in the directory besides the marker goes to quarantine with it;
\* otherwise the marker is unlinked ...
ClearMarker(u, result) ==
    \/ result = "cleared" /\ session[u] = "marked" /\ Put(u, "bare")
    \/ /\ result = "quarantined"
       /\ \/ HasTree(u) \/ session[u] = "stray"
          \/ session[u] = "marked" /\ "litter" \in GitFaults
       /\ Put(u, "quarantined")
    \/ result = "no marker" /\ session[u] = "bare" /\ UNCHANGED session
    \/ result = "gone" /\ session[u] \in {"none", "quarantined"} /\ UNCHANGED session

\* ... and the directory removed.
RemoveDir(u, result) ==
    \/ result = "removed" /\ session[u] = "bare" /\ Put(u, "none")
    \/ result = "failed" /\ session[u] # "bare" /\ UNCHANGED session

=============================================================================
