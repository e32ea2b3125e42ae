------------------------------ MODULE Processes ------------------------------
(***************************************************************************)
(* The processes that work on shared local state.  A process is an          *)
(* incarnation (pid and start time, process_identity_token): one that has   *)
(* exited never comes back.                                                 *)
(***************************************************************************)
CONSTANTS
    Procs,       \* process incarnations
    NoProc       \* stands for "no process"

ASSUME ProcAssumption == NoProc \notin Procs

VARIABLE alive   \* process incarnations that are running

\* owner_record_is_active: pid and start token still name a running process.
OwnerActive(p) == p \in alive

\* A process stops: crash, kill or normal exit.  What it wrote stays behind.
ProcessExit(p) ==
    /\ p \in alive
    /\ alive' = alive \ {p}

=============================================================================
