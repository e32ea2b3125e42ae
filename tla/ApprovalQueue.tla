---------------------------- MODULE ApprovalQueue ----------------------------
(***************************************************************************)
(* The durable approval queue (SQLiteApprovalQueue in approval_queue.py),   *)
(* its state machine (approval_state.py) and its authorization rules        *)
(* (approval_authorization.py).  submit and record_decision are one         *)
(* BEGIN IMMEDIATE transaction each, so each is one step here.              *)
(*                                                                          *)
(* There is one approval request per patch artifact, and the artifact names *)
(* it.  A decision is kept as its status, its author, whether its metadata  *)
(* binds the patch digest, and the receipt hash of a bound approval.  The   *)
(* hash covers decided_at (approval_receipt.py), so it is a fresh value for *)
(* every decision object that is made.                                      *)
(***************************************************************************)
EXTENDS RygnalSystem, Naturals

CONSTANTS
    People,            \* identities that request and decide
    RecoveryUser,      \* "rygnal_recovery"
    RequestedBy,       \* requested_by of each approval request
    ReviewerGrant,     \* reviewer_permissions, "unlisted" where there is none
    RolesConfigured,   \* role_permissions is not empty
    MaxReceipts        \* bound: approval decisions made through the service

ASSUME QueueAssumption ==
    /\ RecoveryUser \in People
    /\ RequestedBy \in [Artifacts -> People]
    /\ ReviewerGrant \in [People -> {"unlisted", "denied", "granted"}]
    /\ RolesConfigured \in BOOLEAN
    /\ MaxReceipts \in Nat

NoReceipt == 0

Terminal == {"approved", "rejected"}

Decision == [status: Terminal, by: People, bound: BOOLEAN,
             receipt: 0 .. MaxReceipts]

\* A row without a decision: no request yet, or one that waits.
Undecided == {"none", "pending"}

VARIABLES
    status,     \* [Artifacts -> Undecided \cup Terminal]
    decision,   \* [Artifacts -> SUBSET Decision], decision_json: {} is NULL
    receipts    \* receipt hashes computed so far

queueVars == <<status, decision, receipts>>

QueueTypeOK ==
    /\ status \in [Artifacts -> Undecided \cup Terminal]
    /\ decision \in [Artifacts -> SUBSET Decision]
    /\ receipts \in 0 .. MaxReceipts

QueueInit ==
    /\ status = [a \in Artifacts |-> "none"]
    /\ decision = [a \in Artifacts |-> {}]
    /\ receipts = 0

\* submit inserts a pending row.
SubmitRequest(a) ==
    /\ status[a] = "none"
    /\ status' = [status EXCEPT ![a] = "pending"]
    /\ UNCHANGED <<decision, receipts>>

\* Fault: any reviewer may approve, the requester too.
AuthorizedAnyone(a, d) == ~RolesConfigured

\* authorize: rejection needs no permission.  An approval may not come from
\* the requester; with role permissions it needs a reviewer_role, which no
\* decision of the service, the queue or recovery carries; with reviewer
\* permissions its author must be listed and allowed to approve.
Authorized(a, d) ==
    \/ d.status = "rejected"
    \/ /\ d.by # RequestedBy[a]
       /\ ~RolesConfigured
       /\ \/ \A p \in People : ReviewerGrant[p] = "unlisted"
          \/ ReviewerGrant[d.by] = "granted"

\* The state machine allows pending to approved or rejected, nothing else.
MayRecord(a, d) == status[a] = "pending" /\ Authorized(a, d)

\* The decision becomes durable.
Record(a, d) ==
    /\ MayRecord(a, d)
    /\ status' = [status EXCEPT ![a] = d.status]
    /\ decision' = [decision EXCEPT ![a] = {d}]

\* The same terminal decision once more: answered with the stored one.
\* _same_terminal_decision compares everything but decided_at, and that
\* includes the metadata, where the receipt hash is.
Repeats(a, d) == status[a] \in Terminal /\ d \in decision[a]

\* ApprovalStateConflictError or ApprovalDeniedError.
Refused(a, d) == ~MayRecord(a, d) /\ ~Repeats(a, d)

=============================================================================
