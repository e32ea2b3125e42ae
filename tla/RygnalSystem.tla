---------------------------- MODULE RygnalSystem ----------------------------
(***************************************************************************)
(* What the modules of the approval, apply and recovery path share: the     *)
(* durable patch artifacts and the processes that work on them.             *)
(***************************************************************************)
EXTENDS Processes

CONSTANT Artifacts   \* durable patch artifacts

=============================================================================
