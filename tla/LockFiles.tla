------------------------------ MODULE LockFiles ------------------------------
(***************************************************************************)
(* Exclusive lock files, as patch_artifact.py keeps one per artifact and    *)
(* guarded_runner.py one per trusted repository.  A lock file is created    *)
(* empty with O_EXCL and filled with the pid of its holder afterwards, and  *)
(* it is always removed by path.                                            *)
(***************************************************************************)
EXTENDS Processes

CONSTANTS
    LockNames,   \* what the lock files of one directory are named after
    Actors,      \* threads of control: apply requests, runs, recovery passes
    NoActor,     \* holder of a lock file that does not exist
    ProcOf       \* the process each actor runs in

ASSUME ActorAssumption ==
    /\ NoActor \notin Actors
    /\ ProcOf \in [Actors -> Procs]

LockFile == [holder: Actors \cup {NoActor}, written: BOOLEAN]

NoLock == [holder |-> NoActor, written |-> FALSE]

VARIABLE lock    \* [LockNames -> LockFile]

LocksTypeOK == lock \in [LockNames -> LockFile]

\* os.open(O_CREAT | O_EXCL) succeeds.
CreateLock(x, n) ==
    /\ lock[n] = NoLock
    /\ lock' = [lock EXCEPT ![n] = [holder |-> x, written |-> FALSE]]

\* The pid is written through the descriptor, so only into the file that x
\* itself created.
WriteLock(x, n) ==
    lock' = [lock EXCEPT ![n].written =
                IF lock[n].holder = x THEN TRUE ELSE lock[n].written]

\* lock_path.unlink(), whoever's file is there now.
Unlock(n) == lock' = [lock EXCEPT ![n] = NoLock]

\* Fault: the liveness of the named process is not checked.
NamedLock(n) == lock[n].written

\* The lock metadata names a process that is gone.
StaleLock(n) ==
    /\ lock[n].written
    /\ ~OwnerActive(ProcOf[lock[n].holder])

\* _lock_root_block_reason: some lock is empty (ownership cannot be verified)
\* or belongs to a running process.
LocksBlockRecovery ==
    \E n \in LockNames : lock[n] # NoLock /\ ~StaleLock(n)

\* A process died between creating a lock file and writing its pid into it.
\* Recovery cannot verify such a lock and defers what it protects for good.
UnverifiableLock ==
    \E n \in LockNames : /\ lock[n] # NoLock
                         /\ ~lock[n].written
                         /\ ~OwnerActive(ProcOf[lock[n].holder])

=============================================================================
