-------------------------- MODULE MCOperationStore --------------------------
(* TLC instance of OperationStore: two artifacts, two repositories, two     *)
(* processes, three reservations.                                            *)
EXTENDS OperationStore
=============================================================================
