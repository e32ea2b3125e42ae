---------------------------- MODULE PatchDecision ----------------------------
(***************************************************************************)
(* The decision about the patch of a guarded run: finalize_guarded_patch in *)
(* guarded_patch_finalizer.py.  It combines how the command ended, the      *)
(* status of the run so far, the intent evaluation, the patch, its risk     *)
(* report and the change gate, in a fixed order, and either returns at once *)
(* or goes on to ask for approval or to apply the patch automatically.      *)
(***************************************************************************)

RunStatus == {"completed", "failed", "timed_out", "blocked",
              "approval_required", "cleanup_failed"}

\* "unrestored" is APPLY_FAILED with the report that the rollback "could not
\* restore the trusted repository".
ApplyOutcome == {"not_generated", "not_applied", "applied",
                 "pending_approval", "apply_failed", "unrestored"}

\* How the command ended ("unknown": the backend raised before it did).
CommandEnd == {"ok", "failed", "timed_out", "unknown"}

\* What is known of the patch: no risk report or an evaluation that raises,
\* a critical risk or a closed change gate, an approval requirement, a patch
\* that is not eligible for automatic apply, or one that is.
PatchRisk == {"unverified", "blocked", "approval", "ineligible", "safe"}

\* IntentFallbackEvaluation: should_block, requires_approval, or neither.
Intent == {"clear", "approval", "block"}

Facts == [cmd: CommandEnd, patch: BOOLEAN, risk: PatchRisk, intent: Intent]

\* A decision ends finalization, asks for approval or tries to apply.
Ends(status, outcome) == [next |-> "end", status |-> status, outcome |-> outcome]
Goes(next) == [next |-> next, status |-> "failed", outcome |-> "apply_failed"]

\* Fault: the exit code of the command is not looked at.
DecideIgnoringExit(f, status) ==
    IF status = "blocked" \/ f.intent = "block" THEN Ends("blocked", "not_applied")
    ELSE IF ~f.patch THEN Ends("completed", "not_generated")
    ELSE IF f.risk = "unverified" THEN Ends("failed", "apply_failed")
    ELSE IF f.risk = "blocked" THEN Ends("blocked", "not_applied")
    ELSE IF f.risk = "approval" \/ f.intent = "approval" THEN Goes("ask")
    ELSE Goes("apply")

Decide(f, status) ==
    IF f.cmd = "timed_out" \/ status = "timed_out" THEN Ends("timed_out", "not_applied")
    ELSE IF f.cmd = "failed" \/ status = "failed" THEN Ends("failed", "not_applied")
    ELSE IF status = "blocked" \/ f.intent = "block" THEN Ends("blocked", "not_applied")
    ELSE IF ~f.patch
         THEN IF f.intent = "approval" THEN Ends("approval_required", "not_generated")
                                       ELSE Ends("completed", "not_generated")
    ELSE IF f.risk = "unverified" THEN Ends("failed", "apply_failed")
    ELSE IF f.risk = "blocked" THEN Ends("blocked", "not_applied")
    ELSE IF f.risk = "approval" \/ f.intent = "approval" THEN Goes("ask")
    ELSE Goes("apply")

=============================================================================
