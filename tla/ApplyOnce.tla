------------------------------ MODULE ApplyOnce ------------------------------
(***************************************************************************)
(* What approved applies promise together, whatever crashes and whoever     *)
(* recovers: the durable record of an artifact only moves forward, open ->  *)
(* recorded -> spent, a recorded patch was written, nothing is written once *)
(* it is recorded, and an operation is told "applied", for good, only about *)
(* a recorded patch.  CrashRecovery implements this.                        *)
(***************************************************************************)
CONSTANTS Artifacts, Targets   \* Targets: the repositories of the operations

VARIABLES
    record,    \* [Artifacts -> {"open", "recorded", "spent"}]
    writing,   \* artifacts whose patch a worker is writing
    written,   \* artifacts whose patch was written at least once
    told       \* [Artifacts \X Targets -> {"nothing", "failed", "applied"}]

aoVars == <<record, writing, written, told>>

AOInit ==
    /\ record = [a \in Artifacts |-> "open"]
    /\ writing = {}
    /\ written = {}
    /\ told = [k \in Artifacts \X Targets |-> "nothing"]

\* A worker starts to write; an open artifact may be written again.
StartWrite(a) ==
    /\ record[a] = "open"
    /\ writing' = writing \cup {a}
    /\ UNCHANGED <<record, written, told>>

\* Writing ends, complete or torn; a process that dies ends all of its own.
EndWrites ==
    /\ writing' \in SUBSET writing
    /\ written' \in {written \cup W : W \in SUBSET (writing \ writing')}
    /\ UNCHANGED <<record, told>>

\* A git process that lost its worker completes the patch.
LateWrite(a) ==
    /\ written' = written \cup {a}
    /\ UNCHANGED <<record, writing, told>>

\* The audit event; nobody is writing the patch at that moment.
Record(a) ==
    /\ record[a] = "open"
    /\ a \in written \ writing
    /\ record' = [record EXCEPT ![a] = "recorded"]
    /\ UNCHANGED <<writing, written, told>>

Spend(a) ==
    /\ record[a] = "recorded"
    /\ record' = [record EXCEPT ![a] = "spent"]
    /\ UNCHANGED <<writing, written, told>>

\* An operation is concluded, or taken up again after a failure.
Tell(k, what) ==
    /\ told[k] # "applied"
    /\ what = "applied" => record[k[1]] # "open"
    /\ told' = [told EXCEPT ![k] = what]
    /\ UNCHANGED <<record, writing, written>>

AONext ==
    \/ EndWrites
    \/ \E a \in Artifacts : StartWrite(a) \/ LateWrite(a) \/ Record(a) \/ Spend(a)
    \/ \E k \in Artifacts \X Targets, what \in {"nothing", "failed", "applied"} : Tell(k, what)

AOSpec == AOInit /\ [][AONext]_aoVars

=============================================================================
