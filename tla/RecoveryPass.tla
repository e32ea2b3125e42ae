---------------------------- MODULE RecoveryPass -----------------------------
(***************************************************************************)
(* The frame of a recovery pass, RecoveryReconciler.reconcile in            *)
(* recovery_reconciler.py, for one directory of lock files: the gate over   *)
(* the locks and the removal of stale ones.  The stages that depend on them *)
(* are in GuardedRun (workspaces), CrashRecovery (operations, interrupted   *)
(* applies) and ApprovalLifecycle (orphaned and expired artifacts).         *)
(*                                                                          *)
(* An actor makes one pass after another.  A pass keeps the list of what it *)
(* has still to look at and the item it is looking at; both were read at an *)
(* earlier moment than the step that uses them.                             *)
(***************************************************************************)
EXTENDS LockFiles

CONSTANT Reconcilers    \* the actors that run recovery passes

ASSUME ReconcilerAssumption == Reconcilers \subseteq Actors

VARIABLE rec            \* [Reconcilers -> the state of its current pass]

NothingYet == [pc |-> "off", blocked |-> FALSE, todo |-> {}, item |-> {}]

At(q, where) == rec[q].pc = where

\* The pass moves on, keeping or replacing its lists.
Move(q, where) == rec' = [rec EXCEPT ![q].pc = where]

Take(q, x, where) ==
    rec' = [rec EXCEPT ![q].pc = where, ![q].todo = @ \ {x}, ![q].item = {x}]

Skip(q, x) == rec' = [rec EXCEPT ![q].todo = @ \ {x}]

Drop(q, where) == rec' = [rec EXCEPT ![q].pc = where, ![q].item = {}]

Item(q) == CHOOSE x \in rec[q].item : TRUE

\* reconcile: the gate over all locks of a directory, before anything else.
OpenPass(q) ==
    /\ ProcOf[q] \in alive
    /\ At(q, "off")
    /\ rec' = [rec EXCEPT ![q] = [NothingYet EXCEPT !.pc = "gated",
                                                    !.blocked = LocksBlockRecovery]]
    /\ UNCHANGED lock

\* _reconcile_pid_locks: glob the lock files ...
GlobLocks(q, from) ==
    /\ At(q, from)
    /\ rec' = [rec EXCEPT ![q].pc = "locks",
                          ![q].todo = {n \in LockNames : lock[n] # NoLock}]
    /\ UNCHANGED lock

\* ... read each; keep it unless its metadata names a dead process ...
InspectLock(q) ==
    /\ At(q, "locks")
    /\ \E n \in rec[q].todo :
           IF lock[n] # NoLock /\ StaleLock(n) THEN Take(q, n, "unlink") ELSE Skip(q, n)
    /\ UNCHANGED lock

\* ... and remove it by path.
RemoveLock(q) ==
    /\ At(q, "unlink")
    /\ Unlock(Item(q))
    /\ Drop(q, "locks")

\* The stages that a closed gate protects are passed over.
PassGate(q, from, open, closed) ==
    /\ At(q, from)
    /\ rec[q].todo = {}
    /\ Move(q, IF rec[q].blocked THEN closed ELSE open)
    /\ UNCHANGED lock

=============================================================================
