---------------------- MODULE ApprovalLifecycleProofs ------------------------
(***************************************************************************)
(* Proofs about ApprovalLifecycle, for every set of runs, reviewers,        *)
(* artifacts and processes, every assignment of permissions, and any number *)
(* of recovery passes at a time.  Nothing is assumed of the passes or of    *)
(* the exits: what the queue promises rests on its transactions alone.      *)
(***************************************************************************)
EXTENDS ApprovalLifecycle, TLAPS

\* What a pass keeps, and the states in which it has an item in hand.
Lists == SUBSET Artifacts

PassState == [pc: LifePC, blocked: BOOLEAN, todo: Lists, item: Lists]

HasItem == {"unlink", "quarantine", "rejecting", "auditing"}

Calls == [pc: DecPC, on: SUBSET Artifacts, made: SUBSET Decision]

PassTyped ==
    /\ rec \in [Reconcilers -> PassState]
    /\ \A q \in Reconcilers :
           rec[q].pc \in HasItem => \E a \in Artifacts : rec[q].item = {a}

CallTyped ==
    /\ call \in [Deciders -> Calls]
    /\ \A d \in Deciders :
           call[d].pc \in {"deciding", "auditing"} =>
               \E a \in Artifacts, m \in Decision : call[d].on = {a} /\ call[d].made = {m}

LifeTyped ==
    /\ alive \subseteq Procs
    /\ ArtifactTypeOK
    /\ QueueTypeOK
    /\ run \in [Runs -> RunPC]
    /\ CallTyped
    /\ PassTyped
    /\ seen \in [Reconcilers -> [Artifacts -> Undecided \cup Terminal]]
    /\ audited \subseteq Artifacts \X Decision

\* The disjuncts of the next-state relation, one per actor.
DeciderStep(d) == AskService(d) \/ AskQueue(d) \/ Decide(d) \/ AuditDecision(d)

LEMMA LockFilesTyped ==
    ASSUME LocksTypeOK, NEW n \in LockNames, NEW x \in Actors
    PROVE  /\ CreateLock(x, n) => LocksTypeOK'
           /\ WriteLock(x, n) => LocksTypeOK'
           /\ Unlock(n) => LocksTypeOK'
  <1>1. CreateLock(x, n) => LocksTypeOK'
    BY DEF LocksTypeOK, CreateLock, LockFile
  <1>2. WriteLock(x, n) => LocksTypeOK'
    <2>. DEFINE w == IF lock[n].holder = x THEN TRUE ELSE lock[n].written
    <2>1. w \in BOOLEAN
      BY DEF LocksTypeOK, LockFile
    <2>. HIDE DEF w
    <2>2. WriteLock(x, n) => lock' = [lock EXCEPT ![n].written = w]
      BY DEF WriteLock, w
    <2>3. QED
      BY <2>1, <2>2 DEF LocksTypeOK, LockFile
  <1>3. Unlock(n) => LocksTypeOK'
    BY DEF LocksTypeOK, Unlock, LockFile, NoLock
  <1>4. QED
    BY <1>1, <1>2, <1>3

LEMMA RejectionIsDecision == RecoveryRejection \in Decision
  BY QueueAssumption DEF RecoveryRejection, Decision, Terminal, NoReceipt

\* A call or a pass with something in hand has it as CHOOSE names it.
LEMMA InHand ==
    ASSUME CallTyped, PassTyped
    PROVE  /\ \A d \in Deciders : call[d].pc \in {"deciding", "auditing"} =>
                  /\ call[d].on = {Target(d)} /\ call[d].made = {Made(d)}
                  /\ Target(d) \in Artifacts /\ Made(d) \in Decision
           /\ \A q \in Reconcilers : rec[q].pc \in HasItem =>
                  rec[q].item = {Item(q)} /\ Item(q) \in Artifacts
  BY DEF CallTyped, PassTyped, Target, Made, Item

\* A call that asks for a decision is a call.
LEMMA AskedTyped ==
    ASSUME CallTyped, NEW d \in Deciders, NEW a \in Artifacts, NEW want \in Terminal,
           NEW bound \in BOOLEAN, NEW receipt \in 0 .. MaxReceipts,
           Ask(d, a, want, bound, receipt)
    PROVE  CallTyped'
  <1>. DEFINE m == [status |-> want, by |-> PersonOf[d], bound |-> bound,
                    receipt |-> receipt]
  <1>1. m \in Decision
    BY LifecycleAssumption DEF Decision
  <1>2. call' = [call EXCEPT ![d] = [pc |-> "deciding", on |-> {a}, made |-> {m}]]
    BY DEF Ask
  <1>. HIDE DEF m
  <1>3. [pc |-> "deciding", on |-> {a}, made |-> {m}] \in Calls
    BY <1>1 DEF Calls, DecPC
  <1>4. call' \in [Deciders -> Calls]
    BY <1>2, <1>3 DEF CallTyped
  <1>5. \A e \in Deciders : call'[e] = IF e = d
             THEN [pc |-> "deciding", on |-> {a}, made |-> {m}] ELSE call[e]
    BY <1>2 DEF CallTyped
  <1>6. QED
    BY <1>1, <1>4, <1>5 DEF CallTyped

LEMMA InitTyped == LifecycleInit => LifeTyped
  <1>. SUFFICES ASSUME LifecycleInit PROVE LifeTyped
    OBVIOUS
  <1>1. ArtifactTypeOK
    BY ArtifactLocksAssumption, ActorAssumption
       DEF LifecycleInit, ArtifactTypeOK, ArtifactState, LocksTypeOK, LockFile, NoLock
  <1>2. QueueTypeOK
    BY QueueAssumption DEF LifecycleInit, QueueInit, QueueTypeOK, Undecided
  <1>3. CallTyped
    BY DEF LifecycleInit, CallTyped, Calls, NoCall, DecPC
  <1>4. PassTyped
    BY DEF LifecycleInit, PassTyped, PassState, Lists, NothingYet, LifePC, HasItem
  <1>5. QED
    BY <1>1, <1>2, <1>3, <1>4
       DEF LifecycleInit, LifeTyped, RunPC, NothingListed, Undecided

\* A guarded run keeps the types.
LEMMA RunTyped ==
    ASSUME LifeTyped, NEW u \in Runs, PersistLock(u) \/ RunStep(u)
    PROVE  LifeTyped'
  <1>1. u \in Actors /\ ArtifactOf[u] \in Artifacts /\ ArtifactOf[u] \in LockNames
    BY LifecycleAssumption, ArtifactLocksAssumption
  <1>2. LocksTypeOK'
    BY <1>1, LockFilesTyped
       DEF LifeTyped, ArtifactTypeOK, LocksTypeOK, RunStep, PersistLock, PersistName,
           PersistWrite, PersistUnlock, PersistVerify, Submit, SubmitRaises, UndoLock,
           UndoName, UndoDelete, UndoUnlock
  <1>3. artifact' \in [Artifacts -> ArtifactState]
    BY <1>1
       DEF LifeTyped, ArtifactTypeOK, ArtifactState, RunStep, PersistLock, PersistName,
           PersistWrite, PersistUnlock, PersistVerify, Submit, SubmitRaises, UndoLock,
           UndoName, UndoDelete, UndoUnlock
  <1>4. QueueTypeOK'
    BY <1>1
       DEF LifeTyped, QueueTypeOK, queueVars, SubmitRequest, Undecided, RunStep,
           PersistLock, PersistName, PersistWrite, PersistUnlock, PersistVerify, Submit,
           SubmitRaises, UndoLock, UndoName, UndoDelete, UndoUnlock
  <1>5. run' \in [Runs -> RunPC] /\ UNCHANGED <<call, rec, seen, alive, expired, audited>>
    BY DEF LifeTyped, Go, RunPC, Stays, NoPass, RunStep, PersistLock, PersistName,
           PersistWrite, PersistUnlock, PersistVerify, Submit, SubmitRaises, UndoLock,
           UndoName, UndoDelete, UndoUnlock
  <1>6. QED
    BY <1>2, <1>3, <1>4, <1>5 DEF LifeTyped, ArtifactTypeOK, CallTyped, PassTyped

\* A reviewer's call keeps the types.
LEMMA DeciderTyped ==
    ASSUME LifeTyped, NEW d \in Deciders, DeciderStep(d)
    PROVE  LifeTyped'
  <1>0. UNCHANGED <<alive, artifact, expired, lock, run, rec, seen>>
    BY DEF DeciderStep, AskService, AskQueue, Decide, AuditDecision, Stays, NoPass,
           artifactVars
  <1>1. PersonOf[d] \in People /\ MaxReceipts \in Nat /\ receipts \in 0 .. MaxReceipts
    BY LifecycleAssumption, QueueAssumption DEF LifeTyped, QueueTypeOK
  <1>a. CallTyped /\ PassTyped
    BY DEF LifeTyped
  <1>2. CASE AskService(d)
    <2>1. PICK a \in Artifacts :
              \/ /\ receipts < MaxReceipts /\ receipts' = receipts + 1
                 /\ Ask(d, a, "approved", TRUE, receipts + 1)
              \/ Ask(d, a, "rejected", TRUE, NoReceipt) /\ UNCHANGED receipts
      BY <1>2 DEF AskService
    <2>a. receipts' = receipts \/ (receipts < MaxReceipts /\ receipts' = receipts + 1)
      BY <1>2 DEF AskService
    <2>2. receipts' \in 0 .. MaxReceipts /\ NoReceipt \in 0 .. MaxReceipts
      BY <2>a, <1>1 DEF NoReceipt
    <2>3. CallTyped'
      BY <2>1, <2>2, <1>a, <1>1, AskedTyped DEF Terminal
    <2>4. QueueTypeOK' /\ UNCHANGED audited
      BY <2>2, <1>2 DEF LifeTyped, QueueTypeOK, AskService, Stays
    <2>5. QED
      BY <1>0, <2>3, <2>4 DEF LifeTyped, ArtifactTypeOK, LocksTypeOK, PassTyped
  <1>3. CASE AskQueue(d)
    <2>1. NoReceipt \in 0 .. MaxReceipts
      BY <1>1 DEF NoReceipt
    <2>2. CallTyped'
      BY <2>1, <1>3, <1>a, AskedTyped DEF AskQueue
    <2>3. QueueTypeOK' /\ UNCHANGED audited
      BY <1>3 DEF LifeTyped, QueueTypeOK, AskQueue, Stays, queueVars
    <2>4. QED
      BY <1>0, <2>2, <2>3 DEF LifeTyped, ArtifactTypeOK, LocksTypeOK, PassTyped
  <1>4. CASE Decide(d)
    <2>1. Target(d) \in Artifacts /\ Made(d) \in Decision /\ call[d].pc = "deciding"
      BY <1>4, <1>a, InHand DEF Decide
    <2>2. QueueTypeOK'
      BY <1>4, <2>1
         DEF LifeTyped, QueueTypeOK, Decide, Record, queueVars, Decision
    <2>3. CallTyped'
      BY <1>4, <1>a, <2>1 DEF Decide, CallTyped, Calls, DecPC, Accepted, Over, NoCall
    <2>4. UNCHANGED audited
      BY <1>4 DEF Decide, Stays
    <2>5. QED
      BY <1>0, <2>2, <2>3, <2>4 DEF LifeTyped, ArtifactTypeOK, LocksTypeOK, PassTyped
  <1>5. CASE AuditDecision(d)
    <2>1. Target(d) \in Artifacts /\ Made(d) \in Decision
      BY <1>5, <1>a, InHand DEF AuditDecision
    <2>2. audited' \subseteq Artifacts \X Decision
      BY <1>5, <2>1 DEF LifeTyped, AuditDecision
    <2>3. CallTyped'
      BY <1>5, <1>a DEF AuditDecision, CallTyped, Calls, DecPC, Over, NoCall
    <2>4. QueueTypeOK'
      BY <1>5 DEF LifeTyped, QueueTypeOK, AuditDecision, queueVars
    <2>5. QED
      BY <1>0, <2>2, <2>3, <2>4 DEF LifeTyped, ArtifactTypeOK, LocksTypeOK, PassTyped
  <1>6. QED
    BY <1>2, <1>3, <1>4, <1>5 DEF DeciderStep

\* What the steps of a pass do to its own state keeps its type.
LEMMA PassMoves ==
    ASSUME PassTyped, NEW q \in Reconcilers, NEW where \in LifePC, NEW x \in Artifacts
    PROVE  /\ Move(q, where) /\ (where \in HasItem => rec[q].pc \in HasItem) => PassTyped'
           /\ Take(q, x, where) => PassTyped'
           /\ Skip(q, x) => PassTyped'
           /\ Drop(q, where) /\ where \notin HasItem => PassTyped'
  <1>1. Move(q, where) /\ (where \in HasItem => rec[q].pc \in HasItem) => PassTyped'
    <2>. SUFFICES ASSUME Move(q, where), where \in HasItem => rec[q].pc \in HasItem
                  PROVE  PassTyped'
      OBVIOUS
    <2>1. rec' \in [Reconcilers -> PassState]
      BY DEF PassTyped, PassState, Lists, Move
    <2>2. \A p \in Reconcilers : /\ rec'[p].item = rec[p].item
                                 /\ rec'[p].pc = IF p = q THEN where ELSE rec[p].pc
      BY DEF PassTyped, PassState, Lists, Move
    <2>3. QED
      BY <2>1, <2>2 DEF PassTyped
  <1>2. Take(q, x, where) => PassTyped'
    <2>. SUFFICES ASSUME Take(q, x, where) PROVE PassTyped'
      OBVIOUS
    <2>a. rec[q].todo \ {x} \in Lists /\ {x} \in Lists
      BY DEF PassTyped, PassState, Lists
    <2>1. rec' \in [Reconcilers -> PassState]
      BY <2>a DEF PassTyped, PassState, Take
    <2>2. \A p \in Reconcilers :
              /\ rec'[p].item = IF p = q THEN {x} ELSE rec[p].item
              /\ rec'[p].pc = IF p = q THEN where ELSE rec[p].pc
      BY DEF PassTyped, PassState, Take
    <2>3. QED
      BY <2>1, <2>2 DEF PassTyped
  <1>3. Skip(q, x) => PassTyped'
    <2>. SUFFICES ASSUME Skip(q, x) PROVE PassTyped'
      OBVIOUS
    <2>1. rec' \in [Reconcilers -> PassState]
      BY DEF PassTyped, PassState, Lists, Skip
    <2>2. \A p \in Reconcilers : rec'[p].item = rec[p].item /\ rec'[p].pc = rec[p].pc
      BY DEF PassTyped, PassState, Lists, Skip
    <2>3. QED
      BY <2>1, <2>2 DEF PassTyped
  <1>4. Drop(q, where) /\ where \notin HasItem => PassTyped'
    <2>. SUFFICES ASSUME Drop(q, where), where \notin HasItem PROVE PassTyped'
      OBVIOUS
    <2>1. rec' \in [Reconcilers -> PassState]
      BY DEF PassTyped, PassState, Lists, Drop
    <2>2. \A p \in Reconcilers :
              /\ rec'[p].item = IF p = q THEN {} ELSE rec[p].item
              /\ rec'[p].pc = IF p = q THEN where ELSE rec[p].pc
      BY DEF PassTyped, PassState, Lists, Drop
    <2>3. QED
      BY <2>1, <2>2 DEF PassTyped
  <1>5. QED
    BY <1>1, <1>2, <1>3, <1>4

\* A recovery pass keeps the types.
LEMMA PassStepTyped ==
    ASSUME LifeTyped, NEW q \in Reconcilers, BeginPass(q) \/ PassStep(q)
    PROVE  LifeTyped'
  <1>a. CallTyped /\ PassTyped /\ LocksTypeOK /\ LockNames = Artifacts /\ q \in Actors
    BY ArtifactLocksAssumption, ReconcilerAssumption DEF LifeTyped, ArtifactTypeOK
  <1>b. RecoveryRejection \in Decision /\ RecoveryRejection.status = "rejected"
    BY RejectionIsDecision DEF RecoveryRejection
  <1>c. rec[q].pc \in HasItem => Item(q) \in Artifacts
    BY <1>a, InHand
  <1>1. UNCHANGED <<alive, run, call, expired>>
    BY DEF BeginPass, PassStep, SweepLocks, ListPaths, ListQueue, JudgeFile, Quarantine,
           RejectExpired, AuditRejection, FinishPass, Elsewhere, PassOnly, Stays, Runless,
           artifactVars
  <1>2. LocksTypeOK'
    BY <1>a, <1>c, LockFilesTyped
       DEF BeginPass, PassStep, SweepLocks, ListPaths, ListQueue, JudgeFile, Quarantine,
           RejectExpired, AuditRejection, FinishPass, OpenPass, GlobLocks, InspectLock,
           RemoveLock, PassGate, artifactVars, HasItem, At, LocksTypeOK
  <1>3. artifact' \in [Artifacts -> ArtifactState]
    BY <1>c
       DEF LifeTyped, ArtifactTypeOK, ArtifactState,
           BeginPass, PassStep, SweepLocks, ListPaths, ListQueue, JudgeFile, Quarantine,
           RejectExpired, AuditRejection, FinishPass, artifactVars, HasItem, At
  <1>4. QueueTypeOK'
    <2>1. UNCHANGED queueVars \/ (At(q, "rejecting") /\ Record(Item(q), RecoveryRejection) /\ UNCHANGED receipts)
      BY DEF BeginPass, PassStep, SweepLocks, ListPaths, ListQueue, JudgeFile, Quarantine,
             RejectExpired, AuditRejection, FinishPass, Elsewhere
    <2>2. QED
      BY <2>1, <1>b, <1>c
         DEF LifeTyped, QueueTypeOK, queueVars, Record, At, HasItem, Terminal
  <1>5. audited' \subseteq Artifacts \X Decision
    <2>1. \/ UNCHANGED audited
          \/ At(q, "auditing") /\ audited' = audited \cup {<<Item(q), RecoveryRejection>>}
      BY DEF BeginPass, PassStep, SweepLocks, ListPaths, ListQueue, JudgeFile,
             Quarantine, RejectExpired, AuditRejection, FinishPass, Elsewhere, PassOnly,
             Stays
    <2>2. QED
      BY <2>1, <1>b, <1>c DEF LifeTyped, At, HasItem
  <1>6. seen' \in [Reconcilers -> [Artifacts -> Undecided \cup Terminal]]
    <2>1. \/ seen' = seen
          \/ seen' = [seen EXCEPT ![q] = status]
          \/ seen' = [seen EXCEPT ![q] = NothingListed]
      BY DEF EndPass, BeginPass, PassStep, SweepLocks, ListPaths, ListQueue, JudgeFile,
             Quarantine, RejectExpired, AuditRejection, FinishPass, Elsewhere
    <2>2. NothingListed \in [Artifacts -> Undecided \cup Terminal]
      BY DEF NothingListed, Undecided
    <2>3. QED
      BY <2>1, <2>2 DEF LifeTyped, QueueTypeOK
  <1>7. PassTyped'
    <2>1. CASE BeginPass(q)
      <3>. DEFINE b == LocksBlockRecovery
      <3>1. b \in BOOLEAN
        BY DEF LocksBlockRecovery
      <3>. HIDE DEF b
      <3>2. rec' = [rec EXCEPT ![q] = [NothingYet EXCEPT !.pc = "gated", !.blocked = b]]
        BY <2>1 DEF BeginPass, OpenPass, b
      <3>3. QED
        BY <1>a, <3>1, <3>2 DEF PassTyped, PassState, Lists, NothingYet, LifePC, HasItem
    <2>2. CASE SweepLocks(q)
      <3>1. CASE GlobLocks(q, "gated")
        <4>. DEFINE L == {n \in LockNames : lock[n] # NoLock}
        <4>1. L \subseteq Artifacts
          BY <1>a
        <4>. HIDE DEF L
        <4>2. rec' = [rec EXCEPT ![q].pc = "locks", ![q].todo = L]
          BY <3>1 DEF GlobLocks, L
        <4>3. QED
          BY <4>1, <4>2, <1>a DEF PassTyped, PassState, Lists, LifePC, HasItem
      <3>2. CASE InspectLock(q)
        <4>1. PICK n \in rec[q].todo : Take(q, n, "unlink") \/ Skip(q, n)
          BY <3>2 DEF InspectLock
        <4>2. n \in Artifacts
          BY <1>a DEF PassTyped, PassState, Lists
        <4>3. QED
          BY <4>1, <4>2, <1>a, PassMoves DEF LifePC
      <3>3. CASE RemoveLock(q)
        BY <3>3, <1>a, <1>c, PassMoves DEF RemoveLock, At, HasItem, LifePC
      <3>4. CASE PassGate(q, "locks", "paths", "off")
        <4>1. PICK w \in {"paths", "off"} : Move(q, w)
          BY <3>4 DEF PassGate
        <4>2. w \in LifePC /\ w \notin HasItem
          BY DEF LifePC, HasItem
        <4>3. QED
          BY <4>1, <4>2, <1>a DEF PassTyped, PassState, Lists, Move
      <3>5. QED
        BY <2>2, <3>1, <3>2, <3>3, <3>4 DEF SweepLocks
    <2>3. CASE ListPaths(q)
      <3>1. {a \in Artifacts : Loadable(a, TRUE, TRUE)} \subseteq Artifacts
        OBVIOUS
      <3>2. QED
        BY <2>3, <3>1, <1>a DEF ListPaths, PassTyped, PassState, Lists, LifePC, HasItem
    <2>4. CASE ListQueue(q)
      BY <2>4, <1>a DEF ListQueue, PassTyped, PassState, Lists, Move, LifePC, HasItem
    <2>5. CASE JudgeFile(q)
      <3>1. PICK a \in rec[q].todo :
                Take(q, a, "quarantine") \/ Take(q, a, "rejecting") \/ Skip(q, a)
        BY <2>5 DEF JudgeFile
      <3>2. a \in Artifacts
        BY <1>a DEF PassTyped, PassState, Lists
      <3>3. QED
        BY <3>1, <3>2, <1>a, PassMoves DEF LifePC
    <2>6. CASE Quarantine(q)
      BY <2>6, <1>a DEF Quarantine, PassTyped, PassState, Lists, Drop, LifePC, HasItem
    <2>7. CASE RejectExpired(q)
      BY <2>7, <1>a DEF RejectExpired, PassTyped, PassState, Lists, Drop, Move, At, LifePC, HasItem
    <2>8. CASE AuditRejection(q)
      <3>1. Drop(q, "artifacts") \/ rec' = [rec EXCEPT ![q] = NothingYet]
        BY <2>8 DEF AuditRejection, EndPass
      <3>2. CASE Drop(q, "artifacts")
        BY <3>2, <1>a DEF PassTyped, PassState, Lists, Drop, LifePC, HasItem
      <3>3. CASE rec' = [rec EXCEPT ![q] = NothingYet]
        BY <3>3, <1>a DEF PassTyped, PassState, Lists, NothingYet, LifePC, HasItem
      <3>4. QED
        BY <3>1, <3>2, <3>3
    <2>9. CASE FinishPass(q)
      BY <2>9, <1>a DEF FinishPass, PassTyped, PassState, Lists, EndPass, NothingYet, LifePC, HasItem
    <2>10. QED
      BY <2>1, <2>2, <2>3, <2>4, <2>5, <2>6, <2>7, <2>8, <2>9 DEF PassStep
  <1>8. QED
    BY <1>1, <1>2, <1>3, <1>4, <1>5, <1>6, <1>7 DEF LifeTyped, ArtifactTypeOK, CallTyped

LEMMA WorldTyped ==
    ASSUME LifeTyped,
           \/ \E a \in Artifacts : ApplyApproved(a) \/ Expire(a)
           \/ \E p \in Procs : Exit(p)
    PROVE  LifeTyped'
  <1>1. CASE \E a \in Artifacts : ApplyApproved(a) \/ Expire(a)
    <2>1. UNCHANGED <<alive, lock, status, decision, receipts, run, call, rec, seen, audited>>
      BY <1>1 DEF ApplyApproved, Expire, Stays, NoPass, Runless, queueVars
    <2>2. artifact' \in [Artifacts -> ArtifactState] /\ expired' \subseteq Artifacts
      BY <1>1 DEF LifeTyped, ArtifactTypeOK, ArtifactState, ApplyApproved, Expire, Consume,
                  Stays
    <2>3. QED
      BY <2>1, <2>2
         DEF LifeTyped, ArtifactTypeOK, LocksTypeOK, QueueTypeOK, CallTyped, PassTyped
  <1>2. CASE \E p \in Procs : Exit(p)
    <2>1. PICK p \in Procs : Exit(p)
      BY <1>2
    <2>2. alive' \subseteq Procs /\ run' \in [Runs -> RunPC]
      BY <2>1 DEF LifeTyped, Exit, ProcessExit, RunPC
    <2>3. CallTyped'
      <3>. DEFINE dead == [NoCall EXCEPT !.pc = "dead"]
      <3>1. dead \in Calls /\ dead.pc = "dead"
        BY DEF Calls, NoCall, DecPC
      <3>. HIDE DEF dead
      <3>2. call' = [d \in Deciders |-> IF ProcOf[d] = p THEN dead ELSE call[d]]
        BY <2>1 DEF Exit, dead
      <3>3. call' \in [Deciders -> Calls]
        BY <3>1, <3>2 DEF LifeTyped, CallTyped
      <3>4. \A d \in Deciders : call'[d] = call[d] \/ call'[d] = dead
        BY <3>2
      <3>5. QED
        BY <3>1, <3>3, <3>4 DEF LifeTyped, CallTyped
    <2>4. PassTyped'
      <3>1. [NothingYet EXCEPT !.pc = "dead"] \in PassState
        BY DEF PassState, Lists, NothingYet, LifePC
      <3>2. \A q \in Reconcilers :
                rec'[q] = rec[q] \/ rec'[q] = [NothingYet EXCEPT !.pc = "dead"]
        BY <2>1 DEF Exit
      <3>3. rec' \in [Reconcilers -> PassState]
        BY <2>1, <3>1 DEF LifeTyped, Exit, PassTyped
      <3>4. [NothingYet EXCEPT !.pc = "dead"].pc \notin HasItem
        BY DEF NothingYet, HasItem
      <3>5. QED
        BY <3>2, <3>3, <3>4 DEF LifeTyped, PassTyped
    <2>5. seen' \in [Reconcilers -> [Artifacts -> Undecided \cup Terminal]]
      BY <2>1 DEF LifeTyped, Exit, NothingListed, Undecided
    <2>6. UNCHANGED <<artifact, expired, lock, status, decision, receipts, audited>>
      BY <2>1 DEF Exit, artifactVars, queueVars
    <2>7. QED
      BY <2>2, <2>3, <2>4, <2>5, <2>6
         DEF LifeTyped, ArtifactTypeOK, LocksTypeOK, QueueTypeOK
  <1>3. QED
    BY <1>1, <1>2

LEMMA NextTyped ==
    ASSUME LifeTyped, [LifecycleNext]_lifeVars
    PROVE  LifeTyped'
  <1>1. CASE LifecycleNext
    BY <1>1, RunTyped, DeciderTyped, PassStepTyped, WorldTyped
       DEF LifecycleNext, DeciderStep
  <1>2. CASE UNCHANGED lifeVars
    BY <1>2
       DEF lifeVars, artifactVars, queueVars, LifeTyped, ArtifactTypeOK, LocksTypeOK,
           QueueTypeOK, CallTyped, PassTyped
  <1>3. QED
    BY <1>1, <1>2

\* Every behaviour keeps the types, a call that is under way knows its request
\* and its decision, and a pass that acts on something has exactly one thing
\* in hand.
THEOREM LifecycleTyped == LifecycleSpec => []LifeTyped
  BY InitTyped, NextTyped, PTL DEF LifecycleSpec

\* The type invariant of the approval lifecycle, as the run checks it.
THEOREM LifecycleTypeCorrect == LifecycleSpec => []LifecycleTypeOK
  <1>1. LifeTyped => LifecycleTypeOK
    BY DEF LifeTyped, LifecycleTypeOK, CallTyped, Calls, PassTyped, PassState, Lists
  <1>2. QED
    BY <1>1, LifecycleTyped, PTL

----------------------------------------------------------------------------
\* What a decision that is stored has gone through.

\* A row has a decision exactly when its status is terminal, the two agree,
\* and the decision was permitted to its author.
DecisionInv ==
    \A a \in Artifacts :
        /\ status[a] \in Undecided => decision[a] = {}
        /\ status[a] \in Terminal =>
               \E m \in Decision :
                   decision[a] = {m} /\ m.status = status[a] /\ Authorized(a, m)

\* Whoever is about to write the decision event has found its decision in the
\* queue: a reviewer's call after record_decision, a pass after reject.
ToldInv ==
    /\ \A d \in Deciders : call[d].pc = "auditing" =>
           \A a \in call[d].on, m \in call[d].made : decision[a] = {m}
    /\ \A q \in Reconcilers : rec[q].pc = "auditing" =>
           \A a \in rec[q].item : decision[a] = {RecoveryRejection}

ApprovalInv == DecisionInv /\ ToldInv /\ ConsumedWasGranted /\ AuditTellsDecision

\* A row that waits is asked about or decided, by an author who may, and a
\* decision is never touched again.
RowStep(a) ==
    \/ decision'[a] = decision[a] /\ status'[a] = status[a]
    \/ decision'[a] = decision[a] /\ status[a] = "none" /\ status'[a] = "pending"
    \/ /\ status[a] = "pending"
       /\ \E m \in Decision :
              decision'[a] = {m} /\ status'[a] = m.status /\ Authorized(a, m)

LEMMA SubmitRow ==
    ASSUME QueueTypeOK, NEW b \in Artifacts, SubmitRequest(b)
    PROVE  \A a \in Artifacts : RowStep(a)
  BY DEF QueueTypeOK, SubmitRequest, RowStep

LEMMA RecordRow ==
    ASSUME QueueTypeOK, NEW b \in Artifacts, NEW m \in Decision, Record(b, m)
    PROVE  \A a \in Artifacts : RowStep(a)
  BY DEF QueueTypeOK, Record, MayRecord, RowStep

\* Every step of the system treats the rows of the queue so.
LEMMA QueueSteps ==
    ASSUME LifeTyped, [LifecycleNext]_lifeVars
    PROVE  \A a \in Artifacts : RowStep(a)
  <1>a. QueueTypeOK /\ CallTyped /\ PassTyped
    BY DEF LifeTyped
  <1>b. status' = status /\ decision' = decision => \A a \in Artifacts : RowStep(a)
    BY DEF RowStep
  <1>1. ASSUME NEW u \in Runs, PersistLock(u) \/ RunStep(u)
        PROVE  (status' = status /\ decision' = decision) \/ SubmitRequest(ArtifactOf[u])
    BY <1>1 DEF RunStep, PersistLock, PersistName, PersistWrite, PersistUnlock,
           PersistVerify, Submit, SubmitRaises, UndoLock, UndoName, UndoDelete, UndoUnlock,
           queueVars
  <1>2. ASSUME NEW d \in Deciders, DeciderStep(d)
        PROVE  \/ status' = status /\ decision' = decision
               \/ call[d].pc = "deciding" /\ Record(Target(d), Made(d))
    BY <1>2 DEF DeciderStep, AskService, AskQueue, Decide, AuditDecision, queueVars
  <1>3. ASSUME NEW q \in Reconcilers, BeginPass(q) \/ PassStep(q)
        PROVE  \/ status' = status /\ decision' = decision
               \/ rec[q].pc = "rejecting" /\ Record(Item(q), RecoveryRejection)
    BY <1>3 DEF BeginPass, PassStep, SweepLocks, ListPaths, ListQueue, JudgeFile,
           Quarantine, RejectExpired, AuditRejection, FinishPass, Elsewhere, queueVars, At
  <1>4. CASE \E u \in Runs : PersistLock(u) \/ RunStep(u)
    BY <1>4, <1>1, <1>a, <1>b, SubmitRow, LifecycleAssumption
  <1>5. CASE \E d \in Deciders : DeciderStep(d)
    BY <1>5, <1>2, <1>a, <1>b, RecordRow, InHand
  <1>6. CASE \E q \in Reconcilers : BeginPass(q) \/ PassStep(q)
    BY <1>6, <1>3, <1>a, <1>b, RecordRow, InHand, RejectionIsDecision DEF HasItem
  <1>7. CASE \/ \E a \in Artifacts : ApplyApproved(a) \/ Expire(a)
             \/ \E p \in Procs : Exit(p)
             \/ UNCHANGED lifeVars
    BY <1>7, <1>b DEF ApplyApproved, Expire, Exit, lifeVars, queueVars
  <1>8. QED
    BY <1>4, <1>5, <1>6, <1>7 DEF LifecycleNext, DeciderStep

\* A reviewer's call comes to the audit event with the decision the queue has.
LEMMA CallSteps ==
    ASSUME LifeTyped, DecisionInv, [LifecycleNext]_lifeVars, NEW d \in Deciders
    PROVE  \/ call'[d] = call[d]
           \/ call'[d].pc # "auditing"
           \/ \A a \in call'[d].on, m \in call'[d].made : decision'[a] = {m}
  <1>a. QueueTypeOK /\ CallTyped /\ PassTyped
    BY DEF LifeTyped
  <1>1. ASSUME NEW e \in Deciders, Decide(e)
        PROVE  \/ call'[d] = call[d]
               \/ call'[d].pc # "auditing"
               \/ \A a \in call'[d].on, m \in call'[d].made : decision'[a] = {m}
    <2>1. /\ call[e].on = {Target(e)} /\ call[e].made = {Made(e)}
          /\ Target(e) \in Artifacts /\ Made(e) \in Decision
      BY <1>1, <1>a, InHand DEF Decide
    <2>2. CASE Over(e)
      BY <2>2, <1>a DEF Over, NoCall, CallTyped
    <2>3. CASE Accepted(e) /\ Record(Target(e), Made(e))
      BY <2>1, <2>3, <1>a DEF Accepted, Record, CallTyped, QueueTypeOK, Calls
    <2>4. CASE Accepted(e) /\ Repeats(Target(e), Made(e)) /\ UNCHANGED queueVars
      <3>1. decision[Target(e)] = {Made(e)}
        BY <2>1, <2>4 DEF Repeats, DecisionInv
      <3>2. QED
        BY <2>1, <2>4, <3>1, <1>a DEF Accepted, queueVars, CallTyped, Calls
    <2>5. QED
      BY <1>1, <2>2, <2>3, <2>4 DEF Decide
  <1>2. ASSUME NEW e \in Deciders, AskService(e) \/ AskQueue(e) \/ AuditDecision(e)
        PROVE  call'[d] = call[d] \/ call'[d].pc # "auditing"
    <2>1. CASE Over(e)
      BY <2>1, <1>a DEF Over, NoCall, CallTyped
    <2>2. CASE \E a, w, b, r : Ask(e, a, w, b, r)
      BY <2>2, <1>a DEF Ask, CallTyped
    <2>3. QED
      BY <1>2, <2>1, <2>2 DEF AskService, AskQueue, AuditDecision
  <1>3. ASSUME NEW u \in Runs, PersistLock(u) \/ RunStep(u)
        PROVE  call' = call
    BY <1>3 DEF RunStep, PersistLock, PersistName, PersistWrite, PersistUnlock,
           PersistVerify, Submit, SubmitRaises, UndoLock, UndoName, UndoDelete, UndoUnlock,
           Go
  <1>4. ASSUME NEW q \in Reconcilers, BeginPass(q) \/ PassStep(q)
        PROVE  call' = call
    BY <1>4 DEF BeginPass, PassStep, SweepLocks, ListPaths, ListQueue, JudgeFile,
           Quarantine, RejectExpired, AuditRejection, FinishPass, Elsewhere, PassOnly, Runless
  <1>5. ASSUME NEW p \in Procs, Exit(p)
        PROVE  call'[d] = call[d] \/ call'[d].pc # "auditing"
    BY <1>5 DEF Exit, NoCall
  <1>6. CASE (\E a \in Artifacts : ApplyApproved(a) \/ Expire(a)) \/ UNCHANGED lifeVars
    BY <1>6 DEF ApplyApproved, Expire, Runless, lifeVars
  <1>7. QED
    BY <1>1, <1>2, <1>3, <1>4, <1>5, <1>6 DEF LifecycleNext

\* So does a recovery pass.
LEMMA RejectionSteps ==
    ASSUME LifeTyped, DecisionInv, [LifecycleNext]_lifeVars, NEW q \in Reconcilers
    PROVE  \/ rec'[q].pc = rec[q].pc /\ rec'[q].item = rec[q].item
           \/ rec'[q].pc # "auditing"
           \/ \A a \in rec'[q].item : decision'[a] = {RecoveryRejection}
  <1>a. QueueTypeOK /\ CallTyped /\ PassTyped
    BY DEF LifeTyped
  <1>1. ASSUME NEW p \in Reconcilers, RejectExpired(p)
        PROVE  \/ rec'[q] = rec[q]
               \/ rec'[q].pc # "auditing"
               \/ \A a \in rec'[q].item : decision'[a] = {RecoveryRejection}
    <2>1. rec[p].item = {Item(p)} /\ Item(p) \in Artifacts
      BY <1>1, <1>a, InHand DEF RejectExpired, At, HasItem
    <2>2. CASE Drop(p, "artifacts")
      BY <2>2, <1>a DEF Drop, PassTyped, PassState
    <2>3. CASE Move(p, "auditing") /\ Record(Item(p), RecoveryRejection)
      BY <2>1, <2>3, <1>a DEF Move, Record, PassTyped, PassState, QueueTypeOK
    <2>4. CASE Move(p, "auditing") /\ Repeats(Item(p), RecoveryRejection) /\ UNCHANGED queueVars
      <3>1. decision[Item(p)] = {RecoveryRejection}
        BY <2>1, <2>4 DEF Repeats, DecisionInv
      <3>2. QED
        BY <2>1, <2>4, <3>1, <1>a DEF Move, queueVars, PassTyped, PassState
    <2>5. QED
      BY <1>1, <2>2, <2>3, <2>4 DEF RejectExpired
  <1>2. ASSUME NEW p \in Reconcilers,
               \/ BeginPass(p) \/ SweepLocks(p) \/ ListPaths(p) \/ ListQueue(p)
               \/ JudgeFile(p) \/ Quarantine(p) \/ AuditRejection(p) \/ FinishPass(p)
        PROVE  \/ rec'[q].pc = rec[q].pc /\ rec'[q].item = rec[q].item
               \/ rec'[q].pc # "auditing"
    <2>1. CASE BeginPass(p) \/ ListPaths(p) \/ GlobLocks(p, "gated")
      BY <2>1, <1>a
         DEF BeginPass, OpenPass, ListPaths, GlobLocks, NothingYet, PassTyped, PassState
    <2>2. CASE \E x : Take(p, x, "unlink") \/ Take(p, x, "quarantine") \/ Take(p, x, "rejecting")
      BY <2>2, <1>a DEF Take, PassTyped, PassState
    <2>3. CASE \E x : Skip(p, x)
      BY <2>3, <1>a DEF Skip, PassTyped, PassState
    <2>4. CASE Drop(p, "artifacts") \/ Drop(p, "locks")
      BY <2>4, <1>a DEF Drop, PassTyped, PassState
    <2>5. CASE Move(p, "artifacts") \/ Move(p, "paths") \/ Move(p, "off")
      BY <2>5, <1>a DEF Move, PassTyped, PassState
    <2>6. CASE EndPass(p)
      BY <2>6, <1>a DEF EndPass, NothingYet, PassTyped
    <2>7. QED
      BY <1>2, <2>1, <2>2, <2>3, <2>4, <2>5, <2>6
         DEF SweepLocks, ListQueue, JudgeFile, Quarantine, AuditRejection, FinishPass,
             InspectLock, RemoveLock, PassGate
  <1>3. ASSUME NEW u \in Runs, PersistLock(u) \/ RunStep(u)
        PROVE  rec' = rec
    BY <1>3 DEF RunStep, PersistLock, PersistName, PersistWrite, PersistUnlock,
           PersistVerify, Submit, SubmitRaises, UndoLock, UndoName, UndoDelete, UndoUnlock,
           NoPass
  <1>4. ASSUME NEW d \in Deciders, DeciderStep(d)
        PROVE  rec' = rec
    BY <1>4 DEF DeciderStep, AskService, AskQueue, Decide, AuditDecision, NoPass
  <1>5. ASSUME NEW p \in Procs, Exit(p)
        PROVE  rec'[q] = rec[q] \/ rec'[q].pc # "auditing"
    BY <1>5 DEF Exit, NothingYet
  <1>6. CASE (\E a \in Artifacts : ApplyApproved(a) \/ Expire(a)) \/ UNCHANGED lifeVars
    BY <1>6 DEF ApplyApproved, Expire, NoPass, lifeVars
  <1>7. QED
    BY <1>1, <1>2, <1>3, <1>4, <1>5, <1>6 DEF LifecycleNext, PassStep, DeciderStep

\* The audit log gains only what a call or a pass was about to tell.
LEMMA AuditSteps ==
    ASSUME LifeTyped, [LifecycleNext]_lifeVars, ToldInv
    PROVE  \A e \in audited' : e \in audited \/ (decision'[e[1]] = {e[2]} /\ decision' = decision)
  <1>a. CallTyped /\ PassTyped
    BY DEF LifeTyped
  <1>1. ASSUME NEW d \in Deciders, AuditDecision(d)
        PROVE  \A e \in audited' : e \in audited \/ (decision'[e[1]] = {e[2]} /\ decision' = decision)
    <2>1. decision[Target(d)] = {Made(d)} /\ decision' = decision
      BY <1>1, <1>a, InHand DEF AuditDecision, ToldInv, queueVars
    <2>2. QED
      BY <1>1, <2>1 DEF AuditDecision
  <1>2. ASSUME NEW q \in Reconcilers, AuditRejection(q)
        PROVE  \A e \in audited' : e \in audited \/ (decision'[e[1]] = {e[2]} /\ decision' = decision)
    <2>1. decision[Item(q)] = {RecoveryRejection} /\ decision' = decision
      BY <1>2, <1>a, InHand DEF AuditRejection, ToldInv, queueVars, At, HasItem
    <2>2. QED
      BY <1>2, <2>1 DEF AuditRejection
  <1>3. ASSUME NEW u \in Runs, PersistLock(u) \/ RunStep(u)
        PROVE  audited' = audited
    BY <1>3 DEF RunStep, PersistLock, PersistName, PersistWrite, PersistUnlock,
           PersistVerify, Submit, SubmitRaises, UndoLock, UndoName, UndoDelete, UndoUnlock,
           Stays
  <1>4. ASSUME NEW q \in Reconcilers,
               \/ BeginPass(q) \/ SweepLocks(q) \/ ListPaths(q) \/ ListQueue(q)
               \/ JudgeFile(q) \/ Quarantine(q) \/ RejectExpired(q) \/ FinishPass(q)
        PROVE  audited' = audited
    BY <1>4 DEF BeginPass, SweepLocks, ListPaths, ListQueue, JudgeFile, Quarantine,
           RejectExpired, FinishPass, Elsewhere, PassOnly, Stays
  <1>5. ASSUME NEW d \in Deciders, AskService(d) \/ AskQueue(d) \/ Decide(d)
        PROVE  audited' = audited
    BY <1>5 DEF AskService, AskQueue, Decide, Stays
  <1>6. CASE \/ \E a \in Artifacts : ApplyApproved(a) \/ Expire(a)
             \/ \E p \in Procs : Exit(p)
             \/ UNCHANGED lifeVars
    BY <1>6 DEF ApplyApproved, Expire, Exit, Stays, lifeVars
  <1>7. QED
    BY <1>1, <1>2, <1>3, <1>4, <1>5, <1>6 DEF LifecycleNext, PassStep

\* An artifact is consumed by an apply whose approval is in the queue.
LEMMA ConsumeSteps ==
    ASSUME LifeTyped, [LifecycleNext]_lifeVars, NEW a \in Artifacts,
           artifact'[a] = "consumed"
    PROVE  \/ artifact[a] = "consumed"
           \/ /\ \E m \in decision[a] : m.status = "approved" /\ m.bound
              /\ decision' = decision /\ status' = status
  <1>a. artifact \in [Artifacts -> ArtifactState] /\ PassTyped
    BY DEF LifeTyped, ArtifactTypeOK
  <1>1. ASSUME NEW u \in Runs, PersistLock(u) \/ RunStep(u)
        PROVE  artifact[a] = "consumed"
    <2>1. ArtifactOf[u] \in Artifacts
      BY LifecycleAssumption
    <2>2. QED
      BY <1>1, <1>a, <2>1
         DEF RunStep, PersistLock, PersistName, PersistWrite, PersistUnlock,
             PersistVerify, Submit, SubmitRaises, UndoLock, UndoName, UndoDelete, UndoUnlock
  <1>2. ASSUME NEW q \in Reconcilers, BeginPass(q) \/ PassStep(q)
        PROVE  artifact[a] = "consumed"
    BY <1>2, <1>a
       DEF BeginPass, PassStep, SweepLocks, ListPaths, ListQueue, JudgeFile, Quarantine,
           RejectExpired, AuditRejection, FinishPass, artifactVars
  <1>3. ASSUME NEW d \in Deciders, DeciderStep(d)
        PROVE  artifact[a] = "consumed"
    BY <1>3 DEF DeciderStep, AskService, AskQueue, Decide, AuditDecision, artifactVars
  <1>4. ASSUME NEW b \in Artifacts, ApplyApproved(b)
        PROVE  \/ artifact[a] = "consumed"
               \/ /\ \E m \in decision[a] : m.status = "approved" /\ m.bound
                  /\ decision' = decision /\ status' = status
    BY <1>4, <1>a DEF ApplyApproved, Consume, queueVars
  <1>5. CASE \/ \E b \in Artifacts : Expire(b)
             \/ \E p \in Procs : Exit(p)
             \/ UNCHANGED lifeVars
    BY <1>5 DEF Expire, Exit, artifactVars, lifeVars
  <1>6. QED
    BY <1>1, <1>2, <1>3, <1>4, <1>5 DEF LifecycleNext, DeciderStep

LEMMA ApprovalInductive ==
    ASSUME LifeTyped, ApprovalInv, [LifecycleNext]_lifeVars
    PROVE  ApprovalInv'
  <1>0. QueueTypeOK /\ DecisionInv /\ ToldInv
    BY DEF LifeTyped, ApprovalInv
  <1>1. \A a \in Artifacts : RowStep(a)
    BY QueueSteps
  <1>2. \A a \in Artifacts : status[a] \in Terminal =>
            decision'[a] = decision[a] /\ status'[a] = status[a]
    BY <1>1 DEF RowStep, Terminal
  <1>3. \A a \in Artifacts : decision[a] # {} => status[a] \in Terminal
    BY <1>0 DEF DecisionInv, QueueTypeOK
  <1>4. DecisionInv'
    <2>. SUFFICES ASSUME NEW a \in Artifacts
                  PROVE  /\ status'[a] \in Undecided => decision'[a] = {}
                         /\ status'[a] \in Terminal =>
                                \E m \in Decision : /\ decision'[a] = {m}
                                                    /\ m.status = status'[a]
                                                    /\ Authorized(a, m)
      BY DEF DecisionInv, Authorized
    <2>1. RowStep(a)
      BY <1>1
    <2>2. CASE decision'[a] = decision[a] /\ status'[a] = status[a]
      BY <2>2, <1>0 DEF DecisionInv
    <2>3. CASE decision'[a] = decision[a] /\ status[a] = "none" /\ status'[a] = "pending"
      BY <2>3, <1>0 DEF DecisionInv, Undecided, Terminal
    <2>4. CASE /\ status[a] = "pending"
               /\ \E m \in Decision :
                      decision'[a] = {m} /\ status'[a] = m.status /\ Authorized(a, m)
      BY <2>4 DEF Undecided, Terminal, Decision
    <2>5. QED
      BY <2>1, <2>2, <2>3, <2>4 DEF RowStep
  <1>5. ToldInv'
    <2>1. ASSUME NEW d \in Deciders, call'[d].pc = "auditing",
                 NEW a \in call'[d].on, NEW m \in call'[d].made
          PROVE  decision'[a] = {m}
      <3>1. CASE call'[d] = call[d]
        <4>1. a \in Artifacts /\ decision[a] = {m}
          BY <2>1, <3>1, <1>0 DEF ToldInv, LifeTyped, CallTyped, Calls
        <4>2. QED
          BY <4>1, <1>2, <1>3
      <3>2. CASE call'[d] # call[d]
        BY <2>1, <3>2, <1>0, CallSteps
      <3>3. QED
        BY <3>1, <3>2
    <2>2. ASSUME NEW q \in Reconcilers, rec'[q].pc = "auditing", NEW a \in rec'[q].item
          PROVE  decision'[a] = {RecoveryRejection}
      <3>1. CASE rec'[q].pc = rec[q].pc /\ rec'[q].item = rec[q].item
        <4>1. a \in Artifacts /\ decision[a] = {RecoveryRejection}
          BY <2>2, <3>1, <1>0 DEF ToldInv, LifeTyped, PassTyped, PassState, Lists
        <4>2. QED
          BY <4>1, <1>2, <1>3
      <3>2. CASE ~(rec'[q].pc = rec[q].pc /\ rec'[q].item = rec[q].item)
        BY <2>2, <3>2, <1>0, RejectionSteps
      <3>3. QED
        BY <3>1, <3>2
    <2>3. QED
      BY <2>1, <2>2 DEF ToldInv, RecoveryRejection, NoReceipt
  <1>6. ConsumedWasGranted'
    <2>. SUFFICES ASSUME NEW a \in Artifacts, artifact'[a] = "consumed"
                  PROVE  /\ status'[a] = "approved"
                         /\ \E m \in decision'[a] :
                               /\ m.bound /\ m.by # RequestedBy[a]
                               /\ ReviewerGrant[m.by] = "granted"
                                    \/ \A p \in People : ReviewerGrant[p] = "unlisted"
      BY DEF ConsumedWasGranted
    <2>1. CASE artifact[a] = "consumed"
      BY <2>1, <1>2 DEF ApprovalInv, ConsumedWasGranted, Terminal
    <2>2. CASE /\ \E m \in decision[a] : m.status = "approved" /\ m.bound
               /\ decision' = decision /\ status' = status
      <3>1. PICK m \in decision[a] : m.status = "approved" /\ m.bound
        BY <2>2
      <3>2. status[a] = "approved" /\ Authorized(a, m)
        BY <3>1, <1>0, <1>3 DEF DecisionInv
      <3>3. QED
        BY <2>2, <3>1, <3>2 DEF Authorized
    <2>3. QED
      BY <2>1, <2>2, ConsumeSteps
  <1>7. AuditTellsDecision'
    <2>. SUFFICES ASSUME NEW e \in audited' PROVE decision'[e[1]] = {e[2]}
      BY DEF AuditTellsDecision
    <2>1. CASE e \in audited
      <3>1. e[1] \in Artifacts /\ decision[e[1]] = {e[2]}
        BY <2>1 DEF LifeTyped, ApprovalInv, AuditTellsDecision
      <3>2. QED
        BY <3>1, <1>2, <1>3
    <2>2. CASE e \notin audited
      BY <2>2, <1>0, AuditSteps
    <2>3. QED
      BY <2>1, <2>2
  <1>8. QED
    BY <1>4, <1>5, <1>6, <1>7 DEF ApprovalInv

\* The queue, the calls and passes that are about to tell a decision, the audit
\* log and the artifact store agree, whatever the interleaving and whoever
\* exits between two of their steps.
THEOREM ApprovalsAgree == LifecycleSpec => []ApprovalInv
  <1>1. LifecycleInit => ApprovalInv
    BY DEF LifecycleInit, QueueInit, ApprovalInv, DecisionInv, ToldInv, ConsumedWasGranted,
           AuditTellsDecision, NoCall, NothingYet, Undecided, Terminal
  <1>2. LifeTyped /\ ApprovalInv /\ [LifecycleNext]_lifeVars => ApprovalInv'
    BY ApprovalInductive
  <1>3. QED
    BY <1>1, <1>2, LifecycleTyped, PTL DEF LifecycleSpec

\* A patch is consumed only on a durable approval that binds it, by somebody
\* other than its requester who may approve: the approval service, the queue
\* endpoints, recovery and the apply race in any way.
THEOREM ConsumedIsGranted == LifecycleSpec => []ConsumedWasGranted
  BY ApprovalsAgree, PTL DEF ApprovalInv

\* The audit log never tells another decision than the queue keeps.
THEOREM AuditAgrees == LifecycleSpec => []AuditTellsDecision
  BY ApprovalsAgree, PTL DEF ApprovalInv

\* record_decision is final: no step of any actor changes or withdraws a
\* decision that is stored, and no submission reopens a decided request.
THEOREM DecisionsAreFinal ==
    LifecycleSpec => [][\A a \in Artifacts : status[a] \in Terminal =>
                            status'[a] = status[a] /\ decision'[a] = decision[a]]_lifeVars
  <1>1. LifeTyped /\ [LifecycleNext]_lifeVars =>
            \A a \in Artifacts : status[a] \in Terminal =>
                status'[a] = status[a] /\ decision'[a] = decision[a]
    BY QueueSteps DEF RowStep, Terminal
  <1>2. QED
    BY <1>1, LifecycleTyped, PTL DEF LifecycleSpec

=============================================================================
