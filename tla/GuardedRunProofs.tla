-------------------------- MODULE GuardedRunProofs ---------------------------
(***************************************************************************)
(* Proofs about GuardedRun, for every set of runs, repositories, processes  *)
(* and recovery passes, every kind of git fault and any number of changes   *)
(* made by others.                                                          *)
(***************************************************************************)
EXTENDS GuardedRun, TLAPS

Holders == Actors \cup {NoActor}
Heads == 0 .. MaxEdits
Statuses == RunStatus \cup {"none"}
Outcomes == ApplyOutcome \cup {"none"}

RunState == [pc: RunPC, saw: Holders, base: Heads, facts: Facts,
             status: Statuses, outcome: Outcomes, raised: BOOLEAN]

Changes == SUBSET (Runs \cup {"dev"})

RepoState == [head: Heads, files: Changes]

PassPC == {"off", "gated", "listing", "workspaces", "removing", "clearing", "emptying",
           "swept", "locks", "unlink", "dead"}

\* The stages in which a pass takes workspaces down, those of them with a
\* workspace in hand, and the stages in which it removes lock files.
AtWorkspaces == {"listing", "workspaces", "removing", "clearing", "emptying"}
HasWorkspace == {"removing", "clearing", "emptying"}
AtLocks == {"locks", "unlink"}

Lists == SUBSET (Runs \cup Repos)

PassState == [pc: PassPC, blocked: BOOLEAN, todo: Lists, item: Lists]

PassTyped ==
    /\ rec \in [Reconcilers -> PassState]
    /\ \A q \in Reconcilers :
           /\ rec[q].pc \in {"gated", "listing"} => rec[q].todo = {}
           /\ rec[q].pc \in AtWorkspaces => rec[q].todo \subseteq Runs
           /\ rec[q].pc \in AtLocks => rec[q].todo \subseteq Repos
           /\ rec[q].pc \in HasWorkspace => \E u \in Runs : rec[q].item = {u}
           /\ rec[q].pc = "unlink" => \E r \in Repos : rec[q].item = {r}

RunsTyped == run \in [Runs -> RunState]

GTyped ==
    /\ alive \subseteq Procs
    /\ LocksTypeOK
    /\ session \in [Runs -> SessionState]
    /\ RunsTyped
    /\ repo \in [Repos -> RepoState]
    /\ landed \subseteq Runs
    /\ edits \in Heads
    /\ PassTyped

LEMMA LockFilesTyped ==
    ASSUME LocksTypeOK, NEW n \in LockNames, NEW x \in Actors
    PROVE  /\ CreateLock(x, n) => LocksTypeOK'
           /\ WriteLock(x, n) => LocksTypeOK'
           /\ Unlock(n) => LocksTypeOK'
  <1>1. CreateLock(x, n) => LocksTypeOK'
    BY DEF LocksTypeOK, CreateLock, LockFile
  <1>2. WriteLock(x, n) => LocksTypeOK'
    <2>. DEFINE w == IF lock[n].holder = x THEN TRUE ELSE lock[n].written
    <2>1. w \in BOOLEAN
      BY DEF LocksTypeOK, LockFile
    <2>. HIDE DEF w
    <2>2. WriteLock(x, n) => lock' = [lock EXCEPT ![n].written = w]
      BY DEF WriteLock, w
    <2>3. QED
      BY <2>1, <2>2 DEF LocksTypeOK, LockFile
  <1>3. Unlock(n) => LocksTypeOK'
    BY DEF LocksTypeOK, Unlock, LockFile, NoLock
  <1>4. QED
    BY <1>1, <1>2, <1>3

----------------------------------------------------------------------------
\* What a step of a run does to the state of the runs: it is the only run that
\* moves, and it keeps what the step does not name.

\* Run u moves to c and keeps its facts, its baseline and whom it saw.
Moves(u, c) ==
    /\ run' \in [Runs -> RunState]
    /\ \A v \in Runs \ {u} : run'[v] = run[v]
    /\ run'[u].pc = c
    /\ run'[u].saw = run[u].saw
    /\ run'[u].base = run[u].base
    /\ run'[u].facts = run[u].facts

LEMMA StepMoves ==
    ASSUME RunsTyped, NEW u \in Runs, NEW from, NEW to \in RunPC, Step(u, from, to)
    PROVE  /\ run[u].pc = from
           /\ Moves(u, to)
           /\ run'[u].status = run[u].status
           /\ run'[u].outcome = run[u].outcome
  BY DEF RunsTyped, RunState, Step, In, Moves

LEMMA SettleMoves ==
    ASSUME RunsTyped, NEW u \in Runs, NEW from, NEW to \in RunPC,
           NEW s \in Statuses, NEW o \in Outcomes, Settle(u, from, to, s, o)
    PROVE  /\ run[u].pc = from
           /\ Moves(u, to)
           /\ run'[u].status = s
           /\ run'[u].outcome = o
  BY DEF RunsTyped, RunState, Settle, In, Moves

\* Raising leads to the end of the guard, past the cleanup.
LEMMA RaiseMoves ==
    ASSUME RunsTyped, NEW u \in Runs, NEW to \in RunPC,
           run' = [run EXCEPT ![u] = [@ EXCEPT !.pc = to, !.raised = TRUE]]
    PROVE  /\ Moves(u, to)
           /\ run'[u].status = run[u].status
           /\ run'[u].outcome = run[u].outcome
  BY DEF RunsTyped, RunState, Moves

LEMMA NoFactsAreFacts == NoFacts \in Facts
  BY DEF NoFacts, Facts, CommandEnd, PatchRisk, Intent

LEMMA NewRunIsRun == NewRun \in RunState /\ NewRun.facts = NoFacts /\ NewRun.outcome = "none"
  <1>1. NoActor \in Holders /\ 0 \in Heads /\ "none" \in Statuses /\ "none" \in Outcomes
        /\ "ready" \in RunPC
    BY GuardedAssumption DEF Holders, Heads, Statuses, Outcomes, RunPC
  <1>2. QED
    BY <1>1, NoFactsAreFacts DEF NewRun, RunState

\* A command that did not end leaves a failed run; whatever else it is, the
\* facts are facts and the status is a status.
LEMMA CommandMoves ==
    ASSUME RunsTyped, NEW u \in Runs, RunCommand(u)
    PROVE  /\ run' \in [Runs -> RunState]
           /\ \A v \in Runs \ {u} : run'[v] = run[v]
           /\ run'[u].pc = "deciding"
           /\ run'[u].facts.cmd = "unknown" => run'[u].status = "failed"
           /\ run'[u].status # "none"
           /\ run'[u].outcome = run[u].outcome
  <1>1. PICK f \in Inputs, raised \in BOOLEAN :
            \E status \in {"failed"} \cup
                 (IF ~HasTree(u) \/ f.cmd = "unknown" THEN {}
                  ELSE [ok |-> {"completed"}, failed |-> {"blocked"},
                        timed_out |-> {"timed_out"}][f.cmd]) :
                run' = [run EXCEPT ![u] = [@ EXCEPT !.pc = "deciding",
                           !.status = status,
                           !.facts = IF status = "failed" THEN [f EXCEPT !.patch = FALSE] ELSE f,
                           !.raised = raised]]
    BY DEF RunCommand
  <1>2. f \in Facts
    BY GuardedAssumption
  <1>3. PICK s \in {"failed"} \cup
                 (IF ~HasTree(u) \/ f.cmd = "unknown" THEN {}
                  ELSE [ok |-> {"completed"}, failed |-> {"blocked"},
                        timed_out |-> {"timed_out"}][f.cmd]) :
                run' = [run EXCEPT ![u] = [@ EXCEPT !.pc = "deciding", !.status = s,
                           !.facts = IF s = "failed" THEN [f EXCEPT !.patch = FALSE] ELSE f,
                           !.raised = raised]]
    BY <1>1
  <1>4. s \in {"failed", "completed", "blocked", "timed_out"} /\ (f.cmd = "unknown" => s = "failed")
    BY <1>2, <1>3 DEF Facts, CommandEnd
  <1>5. s \in Statuses
    BY <1>4 DEF Statuses, RunStatus
  <1>. DEFINE g == IF s = "failed" THEN [f EXCEPT !.patch = FALSE] ELSE f
  <1>6. g \in Facts /\ g.cmd = f.cmd
    BY <1>2 DEF Facts
  <1>. HIDE DEF g
  <1>7. run' = [run EXCEPT ![u] = [@ EXCEPT !.pc = "deciding", !.status = s, !.facts = g,
                                             !.raised = raised]]
    BY <1>3 DEF g
  <1>8. "deciding" \in RunPC
    BY DEF RunPC
  <1>9. QED
    BY <1>4, <1>5, <1>6, <1>7, <1>8 DEF RunsTyped, RunState

\* A patch is left to the automatic apply only when the command succeeded,
\* the intent is clear and the risk does not ask for anybody.
Harmless(f) == f.cmd = "ok" /\ f.patch /\ f.intent = "clear" /\ f.risk \in {"ineligible", "safe"}

LEMMA DecideApplies ==
    ASSUME NEW f \in Facts, NEW s \in RunStatus,
           f.cmd = "unknown" => s = "failed"
    PROVE  /\ Decide(f, s).next \in {"end", "ask", "apply"}
           /\ Decide(f, s).status \in RunStatus
           /\ Decide(f, s).outcome \in ApplyOutcome
           /\ Decide(f, s).next = "apply" => Harmless(f)
  BY DEF Decide, Ends, Goes, Facts, CommandEnd, PatchRisk, Intent, RunStatus, ApplyOutcome, Harmless

LEMMA DecideMoves ==
    ASSUME RunsTyped, NEW u \in Runs, DecidePatch(u), run[u].status # "none",
           run[u].facts.cmd = "unknown" => run[u].status = "failed"
    PROVE  /\ run' \in [Runs -> RunState]
           /\ \A v \in Runs \ {u} : run'[v] = run[v]
           /\ run'[u].pc \in {"reporting", "persisting", "checking"}
           /\ run'[u].pc = "checking" => Harmless(run'[u].facts)
  <1>1. PICK s \in {run[u].status, "failed"} :
          LET d == Decide(run[u].facts, s)
              to == [end |-> "reporting", ask |-> "persisting", apply |-> "checking"]
          IN run' = [run EXCEPT ![u] = [@ EXCEPT !.pc = to[d.next],
                        !.facts = IF d.next = "apply" THEN run[u].facts ELSE NoFacts,
                        !.status = d.status, !.outcome = d.outcome]]
    BY DEF DecidePatch
  <1>2. s \in RunStatus /\ run[u].facts \in Facts /\ (run[u].facts.cmd = "unknown" => s = "failed")
    BY DEF RunsTyped, RunState, Statuses, RunStatus
  <1>. DEFINE d == Decide(run[u].facts, s)
  <1>3. /\ d.next \in {"end", "ask", "apply"} /\ d.status \in RunStatus
        /\ d.outcome \in ApplyOutcome /\ (d.next = "apply" => Harmless(run[u].facts))
    BY <1>2, DecideApplies
  <1>4. run' = [run EXCEPT ![u] = [@ EXCEPT
                    !.pc = [end |-> "reporting", ask |-> "persisting", apply |-> "checking"][d.next],
                    !.facts = IF d.next = "apply" THEN run[u].facts ELSE NoFacts,
                    !.status = d.status, !.outcome = d.outcome]]
    BY <1>1
  <1>. HIDE DEF d
  <1>. DEFINE c == [end |-> "reporting", ask |-> "persisting", apply |-> "checking"][d.next]
              g == IF d.next = "apply" THEN run[u].facts ELSE NoFacts
  <1>5. c \in {"reporting", "persisting", "checking"} /\ c \in RunPC /\ (c = "checking" => d.next = "apply")
    BY <1>3 DEF RunPC
  <1>6. g \in Facts /\ (d.next = "apply" => g = run[u].facts)
    BY <1>2, NoFactsAreFacts
  <1>. DEFINE st == d.status
              o == d.outcome
  <1>7. st \in Statuses /\ o \in Outcomes
    BY <1>3 DEF Statuses, Outcomes
  <1>8. run' = [run EXCEPT ![u] = [@ EXCEPT !.pc = c, !.facts = g, !.status = st, !.outcome = o]]
    BY <1>4
  <1>. HIDE DEF c, g, st, o
  <1>9. /\ run' \in [Runs -> RunState] /\ \A v \in Runs \ {u} : run'[v] = run[v]
        /\ run'[u].pc = c /\ run'[u].facts = g
    BY <1>5, <1>6, <1>7, <1>8 DEF RunsTyped, RunState
  <1>10. QED
    BY <1>3, <1>5, <1>6, <1>9

\* What is known of the facts of a patch at each stage.
FactsInv ==
    \A u \in Runs :
        /\ run[u].pc = "deciding" =>
               /\ run[u].status # "none"
               /\ run[u].facts.cmd = "unknown" => run[u].status = "failed"
        /\ run[u].pc \in {"checking", "applying", "verifying", "logging", "rolling"}
               => Harmless(run[u].facts)
        /\ run[u].pc \in {"applying", "verifying", "logging", "rolling"}
               => run[u].facts.risk = "safe"

\* The stages a run goes through, as the header of GuardedRun draws them.
Edge(a, b) ==
    \/ a = "ready" /\ b \in {"locking", "done"}
    \/ a = "locking" /\ b \in {"naming", "reading"}
    \/ a = "reading" /\ b = "judging"
    \/ a = "judging" /\ b \in {"done", "locking"}
    \/ a = "naming" /\ b = "entered"
    \/ a = "entered" /\ b \in {"marking", "unlocking"}
    \/ a = "marking" /\ b \in {"adding", "unlocking"}
    \/ a = "adding" /\ b \in {"running", "undoing"}
    \/ a = "undoing" /\ b = "unlocking"
    \/ a = "running" /\ b = "deciding"
    \/ a = "deciding" /\ b \in {"reporting", "persisting", "checking", "unlocking"}
    \/ a = "persisting" /\ b = "reporting"
    \/ a = "checking" /\ b \in {"applying", "persisting", "reporting"}
    \/ a = "applying" /\ b \in {"verifying", "reporting"}
    \/ a = "verifying" /\ b \in {"logging", "rolling"}
    \/ a = "logging" /\ b \in {"reporting", "rolling"}
    \/ a = "rolling" /\ b = "reporting"
    \/ a = "reporting" /\ b \in {"cleaning", "unlocking"}
    \/ a = "cleaning" /\ b \in {"removing", "unlocking"}
    \/ a = "removing" /\ b \in {"clearing", "unlocking"}
    \/ a = "clearing" /\ b \in {"emptying", "unlocking"}
    \/ a = "emptying" /\ b = "unlocking"
    \/ a = "unlocking" /\ b = "done"

\* A step of run u follows an edge, moves no other run, and keeps what is
\* known of the facts.
RunEffect(u) ==
    /\ run' \in [Runs -> RunState]
    /\ \A v \in Runs \ {u} : run'[v] = run[v]
    /\ Edge(run[u].pc, run'[u].pc)
    /\ run'[u].pc = "deciding" =>
           /\ run'[u].status # "none"
           /\ run'[u].facts.cmd = "unknown" => run'[u].status = "failed"
    /\ run'[u].pc \in {"checking", "applying", "verifying", "logging", "rolling"}
           => Harmless(run'[u].facts)
    /\ run'[u].pc \in {"applying", "verifying", "logging", "rolling"}
           => run'[u].facts.risk = "safe"

\* The labels that the steps use are labels.
LEMMA Labels ==
    /\ "ready" \in RunPC /\ "locking" \in RunPC /\ "reading" \in RunPC
    /\ "judging" \in RunPC /\ "naming" \in RunPC /\ "entered" \in RunPC
    /\ "marking" \in RunPC /\ "adding" \in RunPC /\ "undoing" \in RunPC
    /\ "running" \in RunPC /\ "deciding" \in RunPC /\ "persisting" \in RunPC
    /\ "checking" \in RunPC /\ "applying" \in RunPC /\ "verifying" \in RunPC
    /\ "logging" \in RunPC /\ "rolling" \in RunPC /\ "reporting" \in RunPC
    /\ "cleaning" \in RunPC /\ "removing" \in RunPC /\ "clearing" \in RunPC
    /\ "emptying" \in RunPC /\ "unlocking" \in RunPC /\ "done" \in RunPC
    /\ "dead" \in RunPC
    /\ "none" \in Statuses /\ "completed" \in Statuses /\ "failed" \in Statuses
    /\ "timed_out" \in Statuses /\ "blocked" \in Statuses /\ "approval_required" \in Statuses
    /\ "cleanup_failed" \in Statuses
    /\ "none" \in Outcomes /\ "not_applied" \in Outcomes /\ "applied" \in Outcomes
    /\ "pending_approval" \in Outcomes /\ "apply_failed" \in Outcomes /\ "unrestored" \in Outcomes
  BY DEF RunPC, Statuses, RunStatus, Outcomes, ApplyOutcome

\* Stages about which the facts say something.
Judged == {"deciding", "checking", "applying", "verifying", "logging", "rolling"}

LEMMA PlainMoves ==
    ASSUME RunsTyped, NEW u \in Runs, NEW from, NEW to \in RunPC \ Judged, Edge(from, to)
    PROVE  /\ Step(u, from, to) => RunEffect(u)
           /\ \A s \in Statuses, o \in Outcomes :
                  Settle(u, from, to, s, o) => RunEffect(u)
           /\ /\ In(u, from)
              /\ run' = [run EXCEPT ![u] = [@ EXCEPT !.pc = to, !.raised = TRUE]]
              => RunEffect(u)
  <1>1. ASSUME run[u].pc = from, Moves(u, to)
        PROVE  RunEffect(u)
    BY <1>1 DEF Moves, RunEffect, Judged
  <1>2. Step(u, from, to) => RunEffect(u)
    BY <1>1, StepMoves
  <1>3. ASSUME NEW s \in Statuses, NEW o \in Outcomes, Settle(u, from, to, s, o)
        PROVE  RunEffect(u)
    BY <1>1, <1>3, SettleMoves
  <1>4. ASSUME In(u, from), run' = [run EXCEPT ![u] = [@ EXCEPT !.pc = to, !.raised = TRUE]]
        PROVE  RunEffect(u)
    BY <1>1, <1>4, RaiseMoves DEF In
  <1>5. QED
    BY <1>2, <1>3, <1>4

LEMMA LockingEffect ==
    ASSUME GTyped, FactsInv, NEW u \in Runs,
           \/ Begin(u) \/ TakeLock(u) \/ ReadHolder(u) \/ JudgeHolder(u) \/ NameLock(u)
           \/ DropLock(u)
    PROVE  RunEffect(u)
  <1>. USE DEF RunEffect, Edge, Moves
  <1>0. RunsTyped /\ u \in Actors /\ RepoOf[u] \in LockNames
    BY GuardedAssumption DEF GTyped
  <1>1. CASE Begin(u)
    BY Labels, <1>0, <1>1, StepMoves, SettleMoves DEF Begin
  <1>2. CASE TakeLock(u)
    BY Labels, <1>0, <1>2, StepMoves DEF TakeLock
  <1>3. CASE ReadHolder(u)
    <2>. DEFINE h == IF lock[RepoOf[u]].written THEN lock[RepoOf[u]].holder ELSE NoActor
    <2>1. h \in Holders
      BY <1>0 DEF GTyped, LocksTypeOK, LockFile, Holders
    <2>2. run[u].pc = "reading" /\ run' = [run EXCEPT ![u] = [@ EXCEPT !.pc = "judging", !.saw = h]]
      BY <1>3 DEF ReadHolder, In
    <2>. HIDE DEF h
    <2>3. /\ run' \in [Runs -> RunState] /\ \A v \in Runs \ {u} : run'[v] = run[v]
          /\ run'[u].pc = "judging"
      BY Labels, <1>0, <2>1, <2>2 DEF RunsTyped, RunState
    <2>4. QED
      BY <2>2, <2>3
  <1>4. CASE JudgeHolder(u)
    <2>0. run[u].pc = "judging"
      BY <1>4 DEF JudgeHolder, In
    <2>1. CASE run' = [run EXCEPT ![u] = [NewRun EXCEPT !.pc = "done", !.status = "blocked"]]
      <3>1. [NewRun EXCEPT !.pc = "done", !.status = "blocked"] \in RunState
        BY Labels, NewRunIsRun DEF RunState
      <3>2. QED
        BY <1>0, <2>0, <2>1, <3>1, NewRunIsRun DEF RunsTyped, RunState
    <2>2. CASE run' = [run EXCEPT ![u] = [NewRun EXCEPT !.pc = "locking"]]
      <3>1. [NewRun EXCEPT !.pc = "locking"] \in RunState
        BY Labels, NewRunIsRun DEF RunState
      <3>2. QED
        BY <1>0, <2>0, <2>2, <3>1, NewRunIsRun DEF RunsTyped, RunState
    <2>3. QED
      BY <1>4, <2>1, <2>2 DEF JudgeHolder
  <1>5. CASE NameLock(u) \/ DropLock(u)
    BY Labels, <1>0, <1>5, StepMoves DEF NameLock, DropLock
  <1>6. QED
    BY <1>1, <1>2, <1>3, <1>4, <1>5

LEMMA SessionEffect ==
    ASSUME GTyped, FactsInv, NEW u \in Runs,
           \/ OpenSession(u) \/ MarkSession(u) \/ AddTree(u) \/ UndoSession(u)
           \/ CleanUp(u) \/ RemoveTree(u) \/ ClearSession(u) \/ EmptySession(u)
    PROVE  RunEffect(u)
  <1>. USE DEF Edge
  <1>0. RunsTyped /\ run[u].outcome \in Outcomes
    BY DEF GTyped, RunsTyped, RunState
  <1>1. CASE OpenSession(u)
    <2>1. CASE Settle(u, "entered", "unlocking", "blocked", "none")
      BY Labels, <1>0, <2>1, PlainMoves DEF Judged
    <2>2. CASE /\ run[u].pc = "entered"
               /\ run' = [run EXCEPT ![u] = [@ EXCEPT !.pc = "marking", !.base = Home(u).head]]
      <3>1. PICK h \in Heads : h = Home(u).head
        BY GuardedAssumption DEF GTyped, RepoState, Home
      <3>2. /\ run' \in [Runs -> RunState] /\ \A v \in Runs \ {u} : run'[v] = run[v]
            /\ run'[u].pc = "marking"
        BY Labels, <1>0, <2>2, <3>1 DEF RunsTyped, RunState
      <3>3. QED
        BY <2>2, <3>2 DEF RunEffect
    <2>3. QED
      BY <1>1, <2>1, <2>2 DEF OpenSession, In
  <1>2. CASE MarkSession(u)
    BY Labels, <1>0, <1>2, PlainMoves DEF MarkSession, Judged
  <1>3. CASE AddTree(u)
    BY Labels, <1>0, <1>3, PlainMoves DEF AddTree, Judged
  <1>4. CASE UndoSession(u)
    BY Labels, <1>0, <1>4, PlainMoves DEF UndoSession, Judged
  <1>5. CASE CleanUp(u)
    BY Labels, <1>0, <1>5, PlainMoves DEF CleanUp, Judged
  <1>6. CASE RemoveTree(u)
    BY Labels, <1>0, <1>6, PlainMoves DEF RemoveTree, CleanupFails, Judged
  <1>7. CASE ClearSession(u)
    BY Labels, <1>0, <1>7, PlainMoves DEF ClearSession, CleanupFails, Judged
  <1>8. CASE EmptySession(u)
    BY Labels, <1>0, <1>8, PlainMoves DEF EmptySession, CleanupFails, Judged
  <1>9. QED
    BY <1>1, <1>2, <1>3, <1>4, <1>5, <1>6, <1>7, <1>8

LEMMA PatchEffect ==
    ASSUME GTyped, FactsInv, NEW u \in Runs,
           \/ RunCommand(u) \/ DecidePatch(u) \/ DecisionRaises(u) \/ PersistPatch(u)
           \/ CheckTarget(u) \/ GitApply(u) \/ VerifyApplied(u) \/ LogApply(u)
           \/ RollBack(u) \/ Report(u)
    PROVE  RunEffect(u)
  <1>. USE DEF RunEffect, Edge, Moves
  <1>0. RunsTyped
    BY DEF GTyped
  <1>1. CASE RunCommand(u)
    BY Labels, <1>0, <1>1, CommandMoves DEF RunCommand, In
  <1>2. CASE DecidePatch(u)
    BY Labels, <1>0, <1>2, DecideMoves DEF DecidePatch, In, FactsInv
  <1>3. CASE DecisionRaises(u)
    <2>1. /\ run' \in [Runs -> RunState] /\ \A v \in Runs \ {u} : run'[v] = run[v]
          /\ run'[u].pc = "unlocking"
      BY Labels, <1>0, <1>3, NoFactsAreFacts DEF DecisionRaises, RunsTyped, RunState
    <2>2. QED
      BY <1>3, <2>1 DEF DecisionRaises, In
  <1>4. CASE PersistPatch(u)
    BY Labels, <1>0, <1>4, SettleMoves DEF PersistPatch
  <1>5. CASE CheckTarget(u)
    <2>1. CASE Settle(u, "checking", "reporting", "failed", "apply_failed")
      BY Labels, <1>0, <2>1, SettleMoves
    <2>2. CASE run[u].facts.risk = "safe" /\ Step(u, "checking", "applying")
      BY Labels, <1>0, <2>2, StepMoves DEF FactsInv
    <2>3. CASE Step(u, "checking", "persisting")
      BY Labels, <1>0, <2>3, StepMoves
    <2>4. QED
      BY <1>5, <2>1, <2>2, <2>3 DEF CheckTarget
  <1>6. CASE GitApply(u)
    BY Labels, <1>0, <1>6, StepMoves, SettleMoves DEF GitApply, FactsInv
  <1>7. CASE VerifyApplied(u) \/ LogApply(u)
    <2>1. CASE \/ Step(u, "verifying", "logging") \/ Step(u, "verifying", "rolling")
               \/ Step(u, "logging", "rolling")
      BY Labels, <1>0, <2>1, StepMoves DEF FactsInv
    <2>2. CASE Settle(u, "logging", "reporting", "completed", "applied")
      BY Labels, <1>0, <2>2, PlainMoves DEF Judged
    <2>3. QED
      BY <1>7, <2>1, <2>2 DEF VerifyApplied, LogApply
  <1>8. CASE RollBack(u)
    BY Labels, <1>0, <1>8, SettleMoves DEF RollBack
  <1>9. CASE Report(u)
    <2>0. run[u].pc = "reporting"
      BY <1>9 DEF Report, In
    <2>1. CASE run' = [run EXCEPT ![u] = [@ EXCEPT !.pc = "cleaning", !.facts = NoFacts]]
      BY Labels, <1>0, <2>0, <2>1, NoFactsAreFacts DEF RunsTyped, RunState
    <2>2. CASE run' = [run EXCEPT ![u] = [@ EXCEPT !.pc = "unlocking", !.raised = TRUE,
                           !.status = "failed", !.outcome = "apply_failed"]]
      BY Labels, <1>0, <2>0, <2>2 DEF RunsTyped, RunState
    <2>3. CASE Settle(u, "reporting", "cleaning", "failed", "apply_failed")
      BY Labels, <1>0, <2>3, SettleMoves
    <2>4. QED
      BY <1>9, <2>1, <2>2, <2>3 DEF Report
  <1>10. QED
    BY <1>1, <1>2, <1>3, <1>4, <1>5, <1>6, <1>7, <1>8, <1>9

LEMMA RunEffects ==
    ASSUME GTyped, FactsInv, NEW u \in Runs, Begin(u) \/ RunStep(u)
    PROVE  RunEffect(u)
  BY LockingEffect, SessionEffect, PatchEffect DEF RunStep

----------------------------------------------------------------------------
\* The types of the rest of the state.

\* An operation on the session of u leaves the other sessions alone.
SessionOp(u) ==
    /\ session' \in [Runs -> SessionState]
    /\ \A v \in Runs \ {u} : session'[v] = session[v]

LEMMA SessionOps ==
    ASSUME session \in [Runs -> SessionState], NEW u \in Runs,
           \/ MakeDir(u) \/ WriteMarker(u) \/ AddWorktree(u) \/ AddFails(u) \/ UndoCreate(u)
           \/ Put(u, "quarantined") \/ UNCHANGED session
           \/ \E r : RemoveWorktree(u, r) \/ ClearMarker(u, r) \/ RemoveDir(u, r)
    PROVE  SessionOp(u)
  <1>1. ASSUME NEW s \in SessionState, Put(u, s)
        PROVE  SessionOp(u)
    BY <1>1 DEF Put, SessionOp
  <1>2. UNCHANGED session => SessionOp(u)
    BY DEF SessionOp
  <1>3. /\ "none" \in SessionState /\ "bare" \in SessionState /\ "marked" \in SessionState
        /\ "tree" \in SessionState /\ "stray" \in SessionState /\ "unmarked" \in SessionState
        /\ "quarantined" \in SessionState
    BY DEF SessionState
  <1>4. AddWorktree(u) => SessionOp(u)
    BY <1>1, <1>3 DEF AddWorktree
  <1>5. QED
    BY <1>1, <1>2, <1>3, <1>4
       DEF MakeDir, WriteMarker, AddFails, UndoCreate, RemoveWorktree, ClearMarker, RemoveDir

\* Outside the locks, the sessions and the repositories, a run changes nothing.
LEMMA RunFrame ==
    ASSUME GTyped, NEW u \in Runs, Begin(u) \/ RunStep(u)
    PROVE  /\ UNCHANGED <<alive, rec, edits>>
           /\ LocksTypeOK'
           /\ SessionOp(u)
           /\ repo' \in [Repos -> RepoState]
           /\ landed' \subseteq Runs
  <1>0. u \in Actors /\ RepoOf[u] \in LockNames /\ RepoOf[u] \in Repos
    BY GuardedAssumption
  <1>1. UNCHANGED <<alive, rec, edits>>
    BY DEF Begin, RunStep, TakeLock, ReadHolder, JudgeHolder, NameLock, OpenSession,
           MarkSession, AddTree, UndoSession, RunCommand, DecidePatch, DecisionRaises,
           PersistPatch, CheckTarget, GitApply, VerifyApplied, LogApply, RollBack, Report,
           CleanUp, RemoveTree, ClearSession, EmptySession, DropLock, OnlyRun, World
  <1>2. LocksTypeOK'
    <2>1. UNCHANGED lock \/ CreateLock(u, RepoOf[u]) \/ WriteLock(u, RepoOf[u]) \/ Unlock(RepoOf[u])
      BY DEF Begin, RunStep, TakeLock, ReadHolder, JudgeHolder, NameLock, OpenSession,
             MarkSession, AddTree, UndoSession, RunCommand, DecidePatch, DecisionRaises,
             PersistPatch, CheckTarget, GitApply, VerifyApplied, LogApply, RollBack, Report,
             CleanUp, RemoveTree, ClearSession, EmptySession, DropLock
    <2>2. QED
      BY <1>0, <2>1, LockFilesTyped DEF GTyped, LocksTypeOK
  <1>3. SessionOp(u)
    BY SessionOps
       DEF GTyped, Begin, RunStep, TakeLock, ReadHolder, JudgeHolder, NameLock, OpenSession,
           MarkSession, AddTree, UndoSession, RunCommand, DecidePatch, DecisionRaises,
           PersistPatch, CheckTarget, GitApply, VerifyApplied, LogApply, RollBack, Report,
           CleanUp, RemoveTree, ClearSession, EmptySession, DropLock
  <1>4. /\ \/ UNCHANGED repo
           \/ repo' = [repo EXCEPT ![RepoOf[u]].files = @ \cup {u}]
           \/ repo' = [repo EXCEPT ![RepoOf[u]].files = @ \ {u}]
        /\ landed' \in {landed, landed \cup {u}, landed \ {u}}
    BY DEF Begin, RunStep, TakeLock, ReadHolder, JudgeHolder, NameLock, OpenSession,
           MarkSession, AddTree, UndoSession, RunCommand, DecidePatch, DecisionRaises,
           PersistPatch, CheckTarget, GitApply, VerifyApplied, LogApply, RollBack, Report,
           CleanUp, RemoveTree, ClearSession, EmptySession, DropLock, OnlyRun, World
  <1>5. repo[RepoOf[u]].files \cup {u} \in Changes /\ repo[RepoOf[u]].files \ {u} \in Changes
    BY <1>0 DEF GTyped, RepoState, Changes
  <1>6. repo' \in [Repos -> RepoState]
    BY <1>0, <1>4, <1>5 DEF GTyped, RepoState
  <1>7. QED
    BY <1>1, <1>2, <1>3, <1>4, <1>6 DEF GTyped

\* What the steps of a pass do to the state of the passes.
PassIs(q, c, T, I) ==
    /\ rec' \in [Reconcilers -> PassState]
    /\ \A p \in Reconcilers \ {q} : rec'[p] = rec[p]
    /\ rec'[q].pc = c /\ rec'[q].todo = T /\ rec'[q].item = I

LEMMA PassUpdates ==
    ASSUME rec \in [Reconcilers -> PassState], NEW q \in Reconcilers, NEW c \in PassPC
    PROVE  /\ Move(q, c) => PassIs(q, c, rec[q].todo, rec[q].item)
           /\ Drop(q, c) => PassIs(q, c, rec[q].todo, {})
           /\ \A x \in rec[q].todo :
                  /\ Take(q, x, c) => PassIs(q, c, rec[q].todo \ {x}, {x})
                  /\ Skip(q, x) => PassIs(q, rec[q].pc, rec[q].todo \ {x}, rec[q].item)
           /\ \A T \in Lists :
                  rec' = [rec EXCEPT ![q].pc = c, ![q].todo = T] => PassIs(q, c, T, rec[q].item)
           /\ \A b \in BOOLEAN :
                  rec' = [rec EXCEPT ![q] = [NothingYet EXCEPT !.pc = c, !.blocked = b]]
                  => PassIs(q, c, {}, {}) /\ rec'[q].blocked = b
  <1>. USE DEF PassState, PassIs
  <1>1. Move(q, c) => PassIs(q, c, rec[q].todo, rec[q].item)
    BY DEF Move
  <1>2. {} \in Lists
    BY DEF Lists
  <1>3. ASSUME Drop(q, c)
        PROVE  PassIs(q, c, rec[q].todo, {})
    BY <1>2, <1>3 DEF Drop
  <1>4. ASSUME NEW x \in rec[q].todo
        PROVE  rec[q].todo \ {x} \in Lists /\ {x} \in Lists
    BY DEF Lists
  <1>5. ASSUME NEW x \in rec[q].todo, Take(q, x, c)
        PROVE  PassIs(q, c, rec[q].todo \ {x}, {x})
    <2>1. rec' \in [Reconcilers -> PassState]
      BY <1>4, <1>5 DEF Take
    <2>2. QED
      BY <1>5, <2>1 DEF Take
  <1>6. ASSUME NEW x \in rec[q].todo, Skip(q, x)
        PROVE  PassIs(q, rec[q].pc, rec[q].todo \ {x}, rec[q].item)
    BY <1>4, <1>6 DEF Skip
  <1>7. ASSUME NEW T \in Lists,
               rec' = [rec EXCEPT ![q].pc = c, ![q].todo = T]
        PROVE  PassIs(q, c, T, rec[q].item)
    BY <1>7
  <1>8. ASSUME NEW b \in BOOLEAN,
               rec' = [rec EXCEPT ![q] = [NothingYet EXCEPT !.pc = c, !.blocked = b]]
        PROVE  PassIs(q, c, {}, {}) /\ rec'[q].blocked = b
    BY <1>2, <1>8 DEF NothingYet
  <1>9. QED
    BY <1>1, <1>3, <1>5, <1>6, <1>7, <1>8

\* The stages of a pass, and what it has in its list and in hand.
PassEffect(q) ==
    \/ rec[q].pc = "off" /\ PassIs(q, "gated", {}, {}) /\ rec'[q].blocked = LocksBlockRecovery
    \/ /\ rec[q].pc = "gated" /\ ~rec[q].blocked
       /\ PassIs(q, "listing", rec[q].todo, rec[q].item)
    \/ rec[q].pc = "gated" /\ PassIs(q, "swept", rec[q].todo, rec[q].item)
    \/ rec[q].pc = "listing" /\ \E T \in SUBSET Runs : PassIs(q, "workspaces", T, rec[q].item)
    \/ /\ rec[q].pc = "workspaces"
       /\ \E u \in rec[q].todo :
             \/ PassIs(q, "workspaces", rec[q].todo \ {u}, rec[q].item)
             \/ \E c \in {"removing", "clearing"} : PassIs(q, c, rec[q].todo \ {u}, {u})
    \/ rec[q].pc = "removing" /\ PassIs(q, "clearing", rec[q].todo, rec[q].item)
    \/ rec[q].pc = "clearing" /\ PassIs(q, "emptying", rec[q].todo, rec[q].item)
    \/ rec[q].pc \in HasWorkspace /\ PassIs(q, "workspaces", rec[q].todo, {})
    \/ rec[q].pc = "workspaces" /\ PassIs(q, "swept", rec[q].todo, rec[q].item)
    \/ rec[q].pc = "swept" /\ \E T \in SUBSET Repos : PassIs(q, "locks", T, rec[q].item)
    \/ /\ rec[q].pc = "locks"
       /\ \E n \in rec[q].todo :
             \/ PassIs(q, "locks", rec[q].todo \ {n}, rec[q].item)
             \/ StaleLock(n) /\ PassIs(q, "unlink", rec[q].todo \ {n}, {n})
    \/ rec[q].pc = "unlink" /\ PassIs(q, "locks", rec[q].todo, {})
    \/ rec[q].pc = "locks" /\ PassIs(q, "off", rec[q].todo, rec[q].item)

LEMMA PassLabels ==
    /\ "off" \in PassPC /\ "gated" \in PassPC /\ "listing" \in PassPC
    /\ "workspaces" \in PassPC /\ "removing" \in PassPC /\ "clearing" \in PassPC
    /\ "emptying" \in PassPC /\ "swept" \in PassPC /\ "locks" \in PassPC
    /\ "unlink" \in PassPC /\ "dead" \in PassPC
  BY DEF PassPC

LEMMA PassEffects ==
    ASSUME PassTyped, NEW q \in Reconcilers, BeginPass(q) \/ PassStep(q)
    PROVE  PassEffect(q)
  <1>0. rec \in [Reconcilers -> PassState] /\ LockNames = Repos
    BY GuardedAssumption DEF PassTyped
  <1>1. CASE BeginPass(q)
    <2>1. PICK b \in BOOLEAN : b = LocksBlockRecovery
      BY DEF LocksBlockRecovery
    <2>2. rec[q].pc = "off" /\ rec' = [rec EXCEPT ![q] = [NothingYet EXCEPT !.pc = "gated", !.blocked = b]]
      BY <1>1, <2>1 DEF BeginPass, OpenPass, At
    <2>3. PassIs(q, "gated", {}, {}) /\ rec'[q].blocked = b
      BY <1>0, <2>2, PassUpdates, PassLabels
    <2>4. QED
      BY <2>1, <2>2, <2>3 DEF PassEffect
  <1>2. CASE EnterWorkspaces(q)
    <2>1. rec[q].pc = "gated" /\ (Move(q, "swept") \/ (~rec[q].blocked /\ Move(q, "listing")))
      BY <1>2 DEF EnterWorkspaces, PassGate, At
    <2>2. QED
      BY <1>0, <2>1, PassUpdates, PassLabels DEF PassEffect
  <1>3. CASE ListWorkspaces(q)
    <2>. DEFINE T == {u \in Runs : session[u] \notin {"none", "quarantined"}}
    <2>1. T \in SUBSET Runs /\ T \in Lists
      BY DEF Lists
    <2>2. rec[q].pc = "listing" /\ rec' = [rec EXCEPT ![q].pc = "workspaces", ![q].todo = T]
      BY <1>3 DEF ListWorkspaces, At
    <2>. HIDE DEF T
    <2>3. QED
      BY <1>0, <2>1, <2>2, PassUpdates, PassLabels DEF PassEffect
  <1>4. CASE RecoverWorkspace(q)
    <2>1. PICK u \in rec[q].todo : Take(q, u, "removing") \/ Take(q, u, "clearing") \/ Skip(q, u)
      BY <1>4 DEF RecoverWorkspace
    <2>2. rec[q].pc = "workspaces"
      BY <1>4 DEF RecoverWorkspace, At
    <2>3. QED
      BY <1>0, <2>1, <2>2, PassUpdates, PassLabels DEF PassEffect
  <1>5. CASE DestroyTree(q) \/ DestroyMarker(q) \/ DestroyDir(q)
    <2>1. \/ rec[q].pc = "removing" /\ Move(q, "clearing")
          \/ rec[q].pc = "clearing" /\ Move(q, "emptying")
          \/ rec[q].pc \in HasWorkspace /\ Drop(q, "workspaces")
      BY <1>5 DEF DestroyTree, DestroyMarker, DestroyDir, At, HasWorkspace
    <2>2. QED
      BY <1>0, <2>1, PassUpdates, PassLabels DEF PassEffect
  <1>6. CASE LeaveWorkspaces(q)
    BY <1>0, <1>6, PassUpdates, PassLabels DEF PassEffect, LeaveWorkspaces, At
  <1>7. CASE GlobLocks(q, "swept")
    <2>. DEFINE T == {n \in LockNames : lock[n] # NoLock}
    <2>1. T \in SUBSET Repos /\ T \in Lists
      BY <1>0 DEF Lists
    <2>2. rec[q].pc = "swept" /\ rec' = [rec EXCEPT ![q].pc = "locks", ![q].todo = T]
      BY <1>7 DEF GlobLocks, At
    <2>. HIDE DEF T
    <2>3. QED
      BY <1>0, <2>1, <2>2, PassUpdates, PassLabels DEF PassEffect
  <1>8. CASE InspectLock(q)
    <2>1. PICK n \in rec[q].todo : (StaleLock(n) /\ Take(q, n, "unlink")) \/ Skip(q, n)
      BY <1>8 DEF InspectLock
    <2>2. rec[q].pc = "locks"
      BY <1>8 DEF InspectLock, At
    <2>3. QED
      BY <1>0, <2>1, <2>2, PassUpdates, PassLabels DEF PassEffect
  <1>9. CASE RemoveLock(q) \/ PassGate(q, "locks", "off", "off")
    <2>1. \/ rec[q].pc = "unlink" /\ Drop(q, "locks")
          \/ rec[q].pc = "locks" /\ Move(q, "off")
      BY <1>9 DEF RemoveLock, PassGate, At
    <2>2. QED
      BY <1>0, <2>1, PassUpdates, PassLabels DEF PassEffect
  <1>10. QED
    BY <1>1, <1>2, <1>3, <1>4, <1>5, <1>6, <1>7, <1>8, <1>9 DEF PassStep, SweepLocks

LEMMA PassKeepsTypes ==
    ASSUME PassTyped, NEW q \in Reconcilers, PassEffect(q)
    PROVE  PassTyped'
  <1>1. rec' \in [Reconcilers -> PassState] /\ \A p \in Reconcilers \ {q} : rec'[p] = rec[p]
    BY DEF PassEffect, PassIs
  <1>2. /\ rec'[q].pc \in {"gated", "listing"} => rec'[q].todo = {}
        /\ rec'[q].pc \in AtWorkspaces => rec'[q].todo \subseteq Runs
        /\ rec'[q].pc \in AtLocks => rec'[q].todo \subseteq Repos
        /\ rec'[q].pc \in HasWorkspace => \E u \in Runs : rec'[q].item = {u}
        /\ rec'[q].pc = "unlink" => \E r \in Repos : rec'[q].item = {r}
    BY DEF PassTyped, PassEffect, PassIs, AtWorkspaces, AtLocks, HasWorkspace
  <1>3. QED
    BY <1>1, <1>2 DEF PassTyped

\* A pass removes stale lock files by path and touches workspaces only in the
\* stages for that; runs and repositories are not its business.
LEMMA PassFrame ==
    ASSUME GTyped, NEW q \in Reconcilers, BeginPass(q) \/ PassStep(q)
    PROVE  /\ UNCHANGED <<alive, run, repo, landed, edits>>
           /\ UNCHANGED lock \/ (rec[q].pc = "unlink" /\ Unlock(Item(q)))
           /\ UNCHANGED session \/ rec[q].pc \in AtWorkspaces
           /\ LocksTypeOK'
           /\ session' \in [Runs -> SessionState]
  <1>1. UNCHANGED <<alive, run, repo, landed, edits>>
    BY DEF BeginPass, PassStep, EnterWorkspaces, ListWorkspaces, RecoverWorkspace,
           DestroyTree, DestroyMarker, DestroyDir, LeaveWorkspaces, SweepLocks, OnlyPass, World
  <1>2. UNCHANGED lock \/ (rec[q].pc = "unlink" /\ Unlock(Item(q)))
    BY DEF BeginPass, PassStep, EnterWorkspaces, ListWorkspaces, RecoverWorkspace,
           DestroyTree, DestroyMarker, DestroyDir, LeaveWorkspaces, SweepLocks, OpenPass,
           PassGate, GlobLocks, InspectLock, RemoveLock, At
  <1>3. UNCHANGED session \/ rec[q].pc \in AtWorkspaces
    BY DEF BeginPass, PassStep, EnterWorkspaces, ListWorkspaces, RecoverWorkspace,
           DestroyTree, DestroyMarker, DestroyDir, LeaveWorkspaces, SweepLocks, At,
           AtWorkspaces
  <1>4. LocksTypeOK'
    <2>1. rec[q].pc = "unlink" => Item(q) \in LockNames
      BY GuardedAssumption DEF GTyped, PassTyped, Item
    <2>2. q \in Actors
      BY ReconcilerAssumption
    <2>3. QED
      BY <1>2, <2>1, <2>2, LockFilesTyped DEF GTyped, LocksTypeOK
  <1>5. session' \in [Runs -> SessionState]
    <2>1. rec[q].pc \in HasWorkspace => Item(q) \in Runs
      BY DEF GTyped, PassTyped, Item
    <2>2. rec[q].pc = "workspaces" => rec[q].todo \subseteq Runs
      BY DEF GTyped, PassTyped, AtWorkspaces
    <2>3. \/ UNCHANGED session
          \/ rec[q].pc = "workspaces" /\ \E u \in rec[q].todo : Put(u, "quarantined")
          \/ /\ rec[q].pc \in HasWorkspace
             /\ \E r : \/ RemoveWorktree(Item(q), r) \/ ClearMarker(Item(q), r)
                       \/ RemoveDir(Item(q), r)
      BY DEF BeginPass, PassStep, EnterWorkspaces, ListWorkspaces, RecoverWorkspace,
             DestroyTree, DestroyMarker, DestroyDir, LeaveWorkspaces, SweepLocks, At,
             HasWorkspace
    <2>4. session \in [Runs -> SessionState]
      BY DEF GTyped
    <2>5. QED
      BY <2>1, <2>2, <2>3, <2>4, SessionOps DEF SessionOp
  <1>6. QED
    BY <1>1, <1>2, <1>3, <1>4, <1>5

\* Others change repositories; an exit stops the runs and passes of a process.
LEMMA WorldFrame ==
    ASSUME GTyped, (\E r \in Repos : Develop(r)) \/ (\E p \in Procs : Exit(p))
    PROVE  /\ UNCHANGED <<lock, session, landed>>
           /\ alive' \subseteq alive
           /\ run' \in [Runs -> RunState] /\ PassTyped'
           /\ \A u \in Runs :
                  \/ run'[u] = run[u] /\ (run[u].pc \in {"ready", "done", "dead"}
                                            \/ (ProcOf[u] \in alive => ProcOf[u] \in alive'))
                  \/ /\ run'[u].pc = "dead"
                     /\ run'[u].outcome = run[u].outcome
           /\ \A q \in Reconcilers :
                  rec'[q] = rec[q] \/ rec'[q] = [NothingYet EXCEPT !.pc = "dead"]
           /\ repo' \in [Repos -> RepoState] /\ edits' \in Heads
  <1>1. CASE \E r \in Repos : Develop(r)
    <2>1. PICK r \in Repos : Develop(r)
      BY <1>1
    <2>2. UNCHANGED <<alive, lock, session, rec, run, landed>>
      BY <2>1 DEF Develop
    <2>3. edits' \in Heads /\ edits + 1 \in Heads
      BY <2>1, GuardedAssumption DEF Develop, GTyped, Heads
    <2>4. repo[r].files \cup {"dev"} \in Changes /\ {} \in Changes
      BY DEF GTyped, RepoState, Changes
    <2>5. PICK h \in Heads : h = edits + 1
      BY <2>3
    <2>6. \/ repo' = [repo EXCEPT ![r].files = @ \cup {"dev"}]
          \/ repo' = [repo EXCEPT ![r] = [head |-> h, files |-> {}]]
      BY <2>1, <2>5 DEF Develop
    <2>7. repo' \in [Repos -> RepoState]
      <3>1. CASE repo' = [repo EXCEPT ![r].files = @ \cup {"dev"}]
        <4>1. PICK F \in Changes : F = repo[r].files \cup {"dev"}
          BY <2>4
        <4>2. repo' = [repo EXCEPT ![r].files = F]
          BY <3>1, <4>1
        <4>3. QED
          BY <4>2 DEF GTyped, RepoState
      <3>2. CASE repo' = [repo EXCEPT ![r] = [head |-> h, files |-> {}]]
        BY <2>4, <3>2 DEF GTyped, RepoState
      <3>3. QED
        BY <2>6, <3>1, <3>2
    <2>8. QED
      BY <2>2, <2>3, <2>7 DEF GTyped, RunsTyped, PassTyped
  <1>2. CASE \E p \in Procs : Exit(p)
    <2>1. PICK p \in Procs : Exit(p)
      BY <1>2
    <2>2. UNCHANGED <<lock, session, repo, landed, edits>> /\ alive' = alive \ {p}
      BY <2>1 DEF Exit, World, ProcessExit
    <2>3. /\ run' \in [Runs -> RunState]
          /\ \A u \in Runs :
                 \/ run'[u] = run[u] /\ (run[u].pc = "done" \/ ProcOf[u] # p)
                 \/ run'[u].pc = "dead" /\ run'[u].outcome = run[u].outcome
      BY <2>1, Labels DEF Exit, In, GTyped, RunsTyped, RunState
    <2>. DEFINE gone == [NothingYet EXCEPT !.pc = "dead"]
    <2>4. gone \in PassState /\ gone.pc = "dead"
      BY PassLabels DEF NothingYet, PassState, Lists
    <2>. HIDE DEF gone
    <2>5. rec' = [q \in Reconcilers |-> IF ProcOf[q] = p THEN gone ELSE rec[q]]
      BY <2>1 DEF Exit, gone
    <2>6. rec' \in [Reconcilers -> PassState]
      BY <2>4, <2>5 DEF GTyped, PassTyped
    <2>7. \A q \in Reconcilers : rec'[q] = rec[q] \/ rec'[q] = gone
      BY <2>5
    <2>8. PassTyped'
      BY <2>4, <2>6, <2>7 DEF GTyped, PassTyped, AtWorkspaces, AtLocks, HasWorkspace
    <2>9. QED
      BY <2>2, <2>3, <2>7, <2>8 DEF GTyped, gone
  <1>3. QED
    BY <1>1, <1>2

LEMMA GuardedInitTyped == GuardedInit => GTyped /\ FactsInv
  <1>. SUFFICES ASSUME GuardedInit PROVE GTyped /\ FactsInv
    OBVIOUS
  <1>1. RunsTyped /\ FactsInv
    BY NewRunIsRun DEF GuardedInit, RunsTyped, FactsInv, NewRun
  <1>2. LocksTypeOK /\ session \in [Runs -> SessionState]
    BY DEF GuardedInit, LocksTypeOK, LockFile, NoLock, SessionState
  <1>3. 0 \in Heads /\ {} \in Changes
    BY GuardedAssumption DEF Heads, Changes
  <1>4. repo \in [Repos -> RepoState] /\ edits \in Heads
    BY <1>3 DEF GuardedInit, RepoState
  <1>5. PassTyped
    BY PassLabels DEF GuardedInit, PassTyped, PassState, NothingYet, Lists, AtWorkspaces, AtLocks,
                      HasWorkspace
  <1>6. QED
    BY <1>1, <1>2, <1>4, <1>5 DEF GuardedInit, GTyped

LEMMA GuardedNextTyped ==
    ASSUME GTyped, FactsInv, [GuardedNext]_guardedVars
    PROVE  GTyped' /\ FactsInv'
  <1>1. ASSUME NEW u \in Runs, Begin(u) \/ RunStep(u)
        PROVE  GTyped' /\ FactsInv'
    <2>1. RunEffect(u)
      BY <1>1, RunEffects
    <2>2. FactsInv'
      BY <2>1 DEF RunEffect, FactsInv, Harmless
    <2>3. GTyped'
      BY <1>1, <2>1, RunFrame DEF GTyped, RunEffect, RunsTyped, SessionOp, PassTyped
    <2>4. QED
      BY <2>2, <2>3
  <1>2. ASSUME NEW q \in Reconcilers, BeginPass(q) \/ PassStep(q)
        PROVE  GTyped' /\ FactsInv'
    <2>1. PassTyped'
      BY <1>2, PassEffects, PassKeepsTypes DEF GTyped
    <2>2. QED
      BY <1>2, <2>1, PassFrame DEF GTyped, FactsInv, RunsTyped, Harmless
  <1>3. CASE (\E r \in Repos : Develop(r)) \/ (\E p \in Procs : Exit(p))
    <2>1. FactsInv'
      BY <1>3, WorldFrame DEF FactsInv, Harmless
    <2>2. GTyped'
      BY <1>3, WorldFrame DEF GTyped, LocksTypeOK, RunsTyped
    <2>3. QED
      BY <2>1, <2>2
  <1>4. CASE UNCHANGED guardedVars
    BY <1>4 DEF guardedVars, GTyped, FactsInv, LocksTypeOK, RunsTyped, PassTyped, Harmless
  <1>5. QED
    BY <1>1, <1>2, <1>3, <1>4 DEF GuardedNext

\* Types, and what is known of the facts of a patch at each stage of its run.
THEOREM GuardedTyped == GuardedSpec => [](GTyped /\ FactsInv)
  BY GuardedInitTyped, GuardedNextTyped, PTL DEF GuardedSpec

\* The type invariant of the guarded run, as it is declared with the model.
THEOREM GuardedTypeCorrect == GuardedSpec => []GuardedTypeOK
  <1>1. GTyped => GuardedTypeOK
    BY DEF GTyped, GuardedTypeOK, RunsTyped, RunState, Holders, Heads, Statuses, Outcomes,
           RepoState, Changes, PassTyped, PassState, Lists
  <1>2. QED
    BY <1>1, GuardedTyped, PTL

\* Whatever else happens on the machine, the patch of a run reaches the trusted
\* repository only when its command succeeded, no intent rule objected and its
\* risk report found it harmless.
THEOREM LandedIsAllowed == GuardedSpec => []LandedWasAllowed
  <1>1. GTyped /\ FactsInv => LandedWasAllowed
    BY DEF GTyped, FactsInv, LandedWasAllowed, Harmless
  <1>2. QED
    BY <1>1, GuardedTyped, PTL

----------------------------------------------------------------------------
\* "failed closed"

Late == {"reporting", "cleaning", "removing", "clearing", "emptying", "unlocking", "done"}

\* A run whose patch is in the repository is about to verify or to undo it, or
\* says that it is there, or that it could not be undone.
LandedInv ==
    \A u \in landed :
        \/ run[u].pc \in {"verifying", "logging", "rolling", "dead"}
        \/ run[u].pc \in Late /\ run[u].outcome \in {"applied", "unrestored"}

\* Once it is reporting, a run keeps its outcome, unless the audit event of the
\* outcome raises.
LEMMA OutcomeStays ==
    ASSUME GTyped, NEW u \in Runs, "final" \notin AuditFails,
           \/ Report(u) \/ CleanUp(u) \/ RemoveTree(u) \/ ClearSession(u) \/ EmptySession(u)
           \/ DropLock(u)
    PROVE  run'[u].outcome = run[u].outcome
  <1>0. RunsTyped /\ run[u].outcome \in Outcomes
    BY DEF GTyped, RunsTyped, RunState
  <1>1. CASE Report(u)
    BY <1>0, <1>1 DEF Report, RunsTyped, RunState
  <1>2. CASE CleanUp(u)
    <2>1. \/ \E to \in RunPC : Step(u, "cleaning", to)
          \/ Settle(u, "cleaning", "unlocking", "cleanup_failed", run[u].outcome)
          \/ run' = [run EXCEPT ![u] = [@ EXCEPT !.pc = "unlocking", !.raised = TRUE]]
      BY <1>2, Labels DEF CleanUp
    <2>2. CASE \E to \in RunPC : Step(u, "cleaning", to)
      BY <1>0, <2>2, StepMoves
    <2>3. CASE Settle(u, "cleaning", "unlocking", "cleanup_failed", run[u].outcome)
      BY <1>0, <2>3, Labels, SettleMoves
    <2>4. CASE run' = [run EXCEPT ![u] = [@ EXCEPT !.pc = "unlocking", !.raised = TRUE]]
      BY <1>0, <2>4, Labels, RaiseMoves
    <2>5. QED
      BY <2>1, <2>2, <2>3, <2>4
  <1>3. CASE RemoveTree(u) \/ EmptySession(u) \/ DropLock(u)
    <2>1. \/ \E from, to \in RunPC : Step(u, from, to)
          \/ \E from \in RunPC : Settle(u, from, "unlocking", "cleanup_failed", run[u].outcome)
      BY <1>3, Labels DEF RemoveTree, EmptySession, DropLock, CleanupFails
    <2>2. QED
      BY <1>0, <2>1, Labels, StepMoves, SettleMoves
  <1>4. CASE ClearSession(u)
    <2>1. \/ \E to \in RunPC : Step(u, "clearing", to)
          \/ Settle(u, "clearing", "unlocking", "cleanup_failed", run[u].outcome)
          \/ run' = [run EXCEPT ![u] = [@ EXCEPT !.pc = "unlocking", !.raised = TRUE]]
      BY <1>4, Labels DEF ClearSession, CleanupFails
    <2>2. CASE \E to \in RunPC : Step(u, "clearing", to)
      BY <1>0, <2>2, StepMoves
    <2>3. CASE Settle(u, "clearing", "unlocking", "cleanup_failed", run[u].outcome)
      BY <1>0, <2>3, Labels, SettleMoves
    <2>4. CASE run' = [run EXCEPT ![u] = [@ EXCEPT !.pc = "unlocking", !.raised = TRUE]]
      BY <1>0, <2>4, Labels, RaiseMoves
    <2>5. QED
      BY <2>1, <2>2, <2>3, <2>4
  <1>5. QED
    BY <1>1, <1>2, <1>3, <1>4

LEMMA LandedRun ==
    ASSUME GTyped, FactsInv, LandedInv, "final" \notin AuditFails,
           NEW u \in Runs, Begin(u) \/ RunStep(u)
    PROVE  LandedInv'
  <1>0. RunsTyped /\ RunEffect(u)
    BY RunEffects DEF GTyped
  <1>1. CASE GitApply(u)
    <2>1. \/ Step(u, "applying", "verifying") /\ landed' = landed \cup {u}
          \/ landed' = landed /\ run[u].pc = "applying"
      BY <1>1 DEF GitApply, Settle, In
    <2>2. CASE Step(u, "applying", "verifying") /\ landed' = landed \cup {u}
      BY <1>0, <2>2, Labels, StepMoves DEF Moves, LandedInv, GTyped
    <2>3. CASE landed' = landed /\ run[u].pc = "applying"
      BY <1>0, <2>3 DEF LandedInv, Late, RunEffect, GTyped
    <2>4. QED
      BY <2>1, <2>2, <2>3
  <1>2. CASE RollBack(u)
    <2>1. \/ landed' = landed \ {u}
          \/ landed' = landed /\ Settle(u, "rolling", "reporting", "failed", "unrestored")
      BY <1>2 DEF RollBack
    <2>2. CASE landed' = landed \ {u}
      BY <1>0, <2>2 DEF RunEffect, LandedInv, GTyped
    <2>3. CASE landed' = landed /\ Settle(u, "rolling", "reporting", "failed", "unrestored")
      BY <1>0, <2>3, Labels, SettleMoves DEF Moves, LandedInv, GTyped, Late
    <2>4. QED
      BY <2>1, <2>2, <2>3
  <1>3. CASE VerifyApplied(u) \/ LogApply(u)
    <2>1. /\ landed' = landed
          /\ \/ Step(u, "verifying", "logging") \/ Step(u, "verifying", "rolling")
             \/ Step(u, "logging", "rolling")
             \/ Settle(u, "logging", "reporting", "completed", "applied")
      BY <1>3 DEF VerifyApplied, LogApply, OnlyRun, World
    <2>2. run'[u].pc \in {"logging", "rolling"} \/ (run'[u].pc = "reporting" /\ run'[u].outcome = "applied")
      <3>1. CASE \/ Step(u, "verifying", "logging") \/ Step(u, "verifying", "rolling")
                 \/ Step(u, "logging", "rolling")
        BY <1>0, <3>1, Labels, StepMoves DEF Moves
      <3>2. CASE Settle(u, "logging", "reporting", "completed", "applied")
        <4>1. Moves(u, "reporting") /\ run'[u].outcome = "applied"
          BY <1>0, <3>2, Labels, SettleMoves
        <4>2. QED
          BY <4>1 DEF Moves
      <3>3. QED
        BY <2>1, <3>1, <3>2
    <2>3. QED
      BY <1>0, <2>1, <2>2 DEF RunEffect, LandedInv, GTyped, Late
  <1>4. CASE \/ Report(u) \/ CleanUp(u) \/ RemoveTree(u) \/ ClearSession(u) \/ EmptySession(u)
             \/ DropLock(u)
    <2>1. run'[u].outcome = run[u].outcome /\ landed' = landed
      BY <1>4, OutcomeStays
         DEF Report, CleanUp, RemoveTree, ClearSession, EmptySession, DropLock, OnlyRun, World
    <2>2. run[u].pc \in Late \ {"done"}
      BY <1>4 DEF Report, CleanUp, RemoveTree, ClearSession, EmptySession, DropLock, In, Step,
                  Settle, CleanupFails, Late
    <2>3. run'[u].pc \in Late
      BY <1>0, <2>2 DEF RunEffect, Edge, Late
    <2>4. QED
      BY <1>0, <2>1, <2>2, <2>3 DEF RunEffect, LandedInv, GTyped, Late
  <1>5. CASE \/ Begin(u) \/ TakeLock(u) \/ ReadHolder(u) \/ JudgeHolder(u) \/ NameLock(u)
             \/ OpenSession(u) \/ MarkSession(u) \/ AddTree(u) \/ UndoSession(u)
             \/ RunCommand(u) \/ DecidePatch(u) \/ DecisionRaises(u) \/ PersistPatch(u)
             \/ CheckTarget(u)
    <2>1. landed' = landed
      BY <1>5 DEF Begin, TakeLock, ReadHolder, JudgeHolder, NameLock, OpenSession,
             MarkSession, AddTree, UndoSession, RunCommand, DecidePatch, DecisionRaises,
             PersistPatch, CheckTarget, OnlyRun, World
    <2>2. run[u].pc \in {"ready", "locking", "reading", "judging", "naming", "entered", "marking",
                         "adding", "undoing", "running", "deciding", "persisting", "checking"}
      BY <1>5 DEF Begin, TakeLock, ReadHolder, JudgeHolder, NameLock, OpenSession,
             MarkSession, AddTree, UndoSession, RunCommand, DecidePatch, DecisionRaises,
             PersistPatch, CheckTarget, In, Step, Settle
    <2>3. QED
      BY <1>0, <2>1, <2>2 DEF RunEffect, LandedInv, GTyped, Late
  <1>6. QED
    BY <1>1, <1>2, <1>3, <1>4, <1>5 DEF RunStep

LEMMA LandedInductive ==
    ASSUME GTyped, FactsInv, LandedInv, "final" \notin AuditFails, [GuardedNext]_guardedVars
    PROVE  LandedInv'
  <1>1. ASSUME NEW q \in Reconcilers, BeginPass(q) \/ PassStep(q)
        PROVE  LandedInv'
    BY <1>1, PassFrame DEF LandedInv
  <1>2. CASE (\E r \in Repos : Develop(r)) \/ (\E p \in Procs : Exit(p))
    BY <1>2, WorldFrame DEF LandedInv, GTyped
  <1>3. CASE UNCHANGED guardedVars
    BY <1>3 DEF guardedVars, LandedInv
  <1>4. QED
    BY <1>1, <1>2, <1>3, LandedRun DEF GuardedNext

\* A run that reports anything but an applied patch, or a repository it could
\* not restore, has left no patch behind: whatever git, the verification, the
\* audit writes up to the outcome and the developers do, and wherever it dies.
\* The audit event of the outcome is assumed to be written: when that raises,
\* the handler reports apply_failed for a patch that was applied.
THEOREM FailedChangedNothing ==
    ASSUME "final" \notin AuditFails
    PROVE  GuardedSpec => []FailedRunChangedNothing
  <1>1. GuardedInit => LandedInv
    BY DEF GuardedInit, LandedInv
  <1>2. GTyped /\ FactsInv /\ LandedInv /\ [GuardedNext]_guardedVars => LandedInv'
    BY LandedInductive
  <1>3. LandedInv => FailedRunChangedNothing
    BY DEF LandedInv, FailedRunChangedNothing, Late
  <1>4. QED
    BY <1>1, <1>2, <1>3, GuardedTyped, PTL DEF GuardedSpec

----------------------------------------------------------------------------
\* One run per repository, and workspaces that are left alone

\* The stages in which a run uses its worktree.
Live == {"running", "deciding", "persisting", "checking", "applying",
         "verifying", "logging", "rolling", "reporting", "cleaning"}

\* A run that is under way is in a process that runs.
AliveInv ==
    \A u \in Runs : run[u].pc \notin {"ready", "done", "dead"} => ProcOf[u] \in alive

\* One run at a time takes a lock, and no pass is made meanwhile.
ApartInv ==
    /\ \A u, v \in Runs : Acquiring(u) /\ Acquiring(v) => u = v
    /\ \A u \in Runs, q \in Reconcilers : Acquiring(u) => ~Passing(q)

\* The lock file of a run inside is its own and names its process; a run that
\* reads the lock sees so, and a pass that holds a lock to be stale is right.
HolderInv ==
    /\ \A u \in Runs : Inside(u) => lock[RepoOf[u]] = [holder |-> u, written |-> TRUE]
    /\ \A u \in Runs : run[u].pc = "naming" => lock[RepoOf[u]].holder = u
    /\ \A u, v \in Runs : Inside(u) /\ run[v].pc = "judging" /\ RepoOf[u] = RepoOf[v]
                              => run[v].saw = u
    /\ \A u \in Runs, q \in Reconcilers :
           Inside(u) /\ rec[q].pc = "unlink" => RepoOf[u] \notin rec[q].item

\* A pass whose gate is open runs beside no run.
GateInv ==
    \A u \in Runs, q \in Reconcilers :
        rec[q].pc \in AtWorkspaces \/ (rec[q].pc = "gated" /\ ~rec[q].blocked) => ~Inside(u)

\* The session of a run is in the state that the run has built.
SessionInv ==
    \A u \in Runs :
        /\ run[u].pc = "marking" => session[u] = "bare"
        /\ run[u].pc = "adding" => session[u] = "marked"
        /\ run[u].pc \in Live => session[u] = "tree"

SerialInv == AliveInv /\ ApartInv /\ HolderInv /\ GateInv /\ SessionInv

LEMMA HolderIsInside ==
    ASSUME HolderInv, NEW u \in Runs, Inside(u)
    PROVE  lock[RepoOf[u]].holder = u
  <1>1. lock[RepoOf[u]] = [holder |-> u, written |-> TRUE]
    BY DEF HolderInv
  <1>2. QED
    BY <1>1

\* What a step of a run does to its lock file.
LockEffect(u) ==
    \/ UNCHANGED lock /\ run'[u].pc \notin {"naming", "entered"}
    \/ run'[u].pc = "naming" /\ CreateLock(u, RepoOf[u])
    \/ run[u].pc = "naming" /\ run'[u].pc = "entered" /\ WriteLock(u, RepoOf[u])
    \/ run[u].pc = "judging" /\ ~HolderRuns(u) /\ Unlock(RepoOf[u])
    \/ run[u].pc = "unlocking" /\ run'[u].pc = "done" /\ Unlock(RepoOf[u])

LEMMA LockEffects ==
    ASSUME GTyped, FactsInv, NEW u \in Runs, Begin(u) \/ RunStep(u)
    PROVE  LockEffect(u)
  <1>0. RunsTyped /\ Edge(run[u].pc, run'[u].pc)
    BY RunEffects DEF GTyped, RunEffect
  <1>1. CASE TakeLock(u)
    <2>1. \/ CreateLock(u, RepoOf[u]) /\ Step(u, "locking", "naming")
          \/ Step(u, "locking", "reading") /\ UNCHANGED lock
      BY <1>1 DEF TakeLock
    <2>2. QED
      BY <1>0, <2>1, Labels, StepMoves DEF LockEffect, Moves
  <1>2. CASE NameLock(u) \/ DropLock(u)
    BY <1>0, <1>2, Labels, StepMoves DEF LockEffect, Moves, NameLock, DropLock
  <1>3. CASE JudgeHolder(u)
    <2>1. run[u].pc = "judging" /\ (UNCHANGED lock \/ (~HolderRuns(u) /\ Unlock(RepoOf[u])))
      BY <1>3 DEF JudgeHolder, In
    <2>2. QED
      BY <1>0, <2>1 DEF LockEffect, Edge
  <1>4. CASE ~TakeLock(u) /\ ~NameLock(u) /\ ~DropLock(u) /\ ~JudgeHolder(u)
    <2>1. UNCHANGED lock /\ run[u].pc \notin {"locking", "naming"}
      BY <1>4
         DEF Begin, RunStep, ReadHolder, OpenSession, MarkSession, AddTree, UndoSession,
             RunCommand, DecidePatch, DecisionRaises, PersistPatch, CheckTarget, GitApply,
             VerifyApplied, LogApply, RollBack, Report, CleanUp, RemoveTree, ClearSession,
             EmptySession, CleanupFails, In, Step, Settle
    <2>2. QED
      BY <1>0, <2>1 DEF LockEffect, Edge
  <1>5. QED
    BY <1>1, <1>2, <1>3, <1>4

\* What a step of a run does to its own session on the way to the command,
\* while it uses the worktree, and whom it sees holding the lock.
LEMMA SessionSteps ==
    ASSUME GTyped, FactsInv, NEW u \in Runs, Begin(u) \/ RunStep(u)
    PROVE  /\ run'[u].pc = "marking" => session'[u] = "bare"
           /\ run'[u].pc = "adding" => session'[u] = "marked"
           /\ run'[u].pc = "running" => run[u].pc = "adding" /\ AddWorktree(u)
           /\ run'[u].pc \in Live \ {"running"} => run[u].pc \in Live /\ UNCHANGED session
           /\ run'[u].pc = "judging" =>
                  run'[u].saw = IF lock[RepoOf[u]].written THEN lock[RepoOf[u]].holder ELSE NoActor
  <1>0. RunsTyped /\ Edge(run[u].pc, run'[u].pc) /\ session \in [Runs -> SessionState]
    BY RunEffects DEF GTyped, RunEffect
  <1>1. ASSUME run'[u].pc = "marking"
        PROVE  session'[u] = "bare"
    <2>1. run[u].pc = "entered"
      BY <1>0, <1>1 DEF Edge
    <2>2. OpenSession(u)
      BY <2>1
         DEF Begin, RunStep, TakeLock, ReadHolder, JudgeHolder, NameLock, MarkSession, AddTree,
             UndoSession, RunCommand, DecidePatch, DecisionRaises, PersistPatch, CheckTarget,
             GitApply, VerifyApplied, LogApply, RollBack, Report, CleanUp, RemoveTree,
             ClearSession, EmptySession, DropLock, CleanupFails, In, Step, Settle
    <2>3. ~Settle(u, "entered", "unlocking", "blocked", "none")
      BY <1>0, <1>1, Labels, SettleMoves DEF Moves
    <2>4. QED
      BY <1>0, <2>2, <2>3 DEF OpenSession, MakeDir, Put
  <1>2. ASSUME run'[u].pc = "adding"
        PROVE  session'[u] = "marked"
    <2>1. run[u].pc = "marking"
      BY <1>0, <1>2 DEF Edge
    <2>2. MarkSession(u)
      BY <2>1
         DEF Begin, RunStep, TakeLock, ReadHolder, JudgeHolder, NameLock, OpenSession, AddTree,
             UndoSession, RunCommand, DecidePatch, DecisionRaises, PersistPatch, CheckTarget,
             GitApply, VerifyApplied, LogApply, RollBack, Report, CleanUp, RemoveTree,
             ClearSession, EmptySession, DropLock, CleanupFails, In, Step, Settle
    <2>3. ~Settle(u, "marking", "unlocking", "blocked", "none")
      BY <1>0, <1>2, Labels, SettleMoves DEF Moves
    <2>4. QED
      BY <1>0, <2>2, <2>3 DEF MarkSession, WriteMarker, Put
  <1>3. ASSUME run'[u].pc = "running"
        PROVE  run[u].pc = "adding" /\ AddWorktree(u)
    <2>1. run[u].pc = "adding"
      BY <1>0, <1>3 DEF Edge
    <2>2. AddTree(u)
      BY <2>1
         DEF Begin, RunStep, TakeLock, ReadHolder, JudgeHolder, NameLock, OpenSession,
             MarkSession, UndoSession, RunCommand, DecidePatch, DecisionRaises, PersistPatch,
             CheckTarget, GitApply, VerifyApplied, LogApply, RollBack, Report, CleanUp,
             RemoveTree, ClearSession, EmptySession, DropLock, CleanupFails, In, Step, Settle
    <2>3. ~Step(u, "adding", "undoing")
      BY <1>0, <1>3, Labels, StepMoves DEF Moves
    <2>4. QED
      BY <2>1, <2>2, <2>3 DEF AddTree
  <1>4. ASSUME run'[u].pc \in Live \ {"running"}
        PROVE  run[u].pc \in Live /\ UNCHANGED session
    <2>1. run[u].pc \in Live \ {"cleaning"}
      BY <1>0, <1>4 DEF Edge, Live
    <2>2. UNCHANGED session
      BY <2>1
         DEF Begin, RunStep, TakeLock, ReadHolder, JudgeHolder, NameLock, OpenSession,
             MarkSession, AddTree, UndoSession, RunCommand, DecidePatch, DecisionRaises,
             PersistPatch, CheckTarget, GitApply, VerifyApplied, LogApply, RollBack, Report,
             CleanUp, RemoveTree, ClearSession, EmptySession, DropLock, CleanupFails, In, Step,
             Settle, Live
    <2>3. QED
      BY <2>1, <2>2
  <1>5. ASSUME run'[u].pc = "judging"
        PROVE  run'[u].saw = IF lock[RepoOf[u]].written THEN lock[RepoOf[u]].holder ELSE NoActor
    <2>1. run[u].pc = "reading"
      BY <1>0, <1>5 DEF Edge
    <2>2. ReadHolder(u)
      BY <2>1
         DEF Begin, RunStep, TakeLock, JudgeHolder, NameLock, OpenSession, MarkSession, AddTree,
             UndoSession, RunCommand, DecidePatch, DecisionRaises, PersistPatch, CheckTarget,
             GitApply, VerifyApplied, LogApply, RollBack, Report, CleanUp, RemoveTree,
             ClearSession, EmptySession, DropLock, CleanupFails, In, Step, Settle
    <2>3. QED
      BY <1>0, <2>2 DEF ReadHolder, RunsTyped, RunState
  <1>6. QED
    BY <1>1, <1>2, <1>3, <1>4, <1>5

\* A run that starts beside no other start and no pass.
LEMMA SerialRun ==
    ASSUME GTyped, FactsInv, SerialInv, ~StartsOverlap,
           NEW u \in Runs, Begin(u) \/ RunStep(u)
    PROVE  SerialInv'
  <1>0. /\ run' \in [Runs -> RunState]
        /\ \A v \in Runs \ {u} : run'[v] = run[v]
        /\ Edge(run[u].pc, run'[u].pc)
        /\ UNCHANGED <<alive, rec>>
        /\ SessionOp(u)
        /\ LockEffect(u)
    BY RunEffects, RunFrame, LockEffects DEF RunEffect
  <1>1. /\ AliveInv /\ ApartInv /\ HolderInv /\ GateInv /\ SessionInv
        /\ LockNames = Repos /\ RepoOf \in [Runs -> Repos] /\ Runs \subseteq Actors
        /\ NoActor \notin Actors /\ LocksTypeOK
    BY GuardedAssumption, ActorAssumption DEF SerialInv, GTyped
  <1>2. /\ \A v \in Runs \ {u} : /\ Inside(v)' = Inside(v)
                                 /\ Acquiring(v)' = Acquiring(v)
        /\ \A q \in Reconcilers : Passing(q)' = Passing(q)
    BY <1>0 DEF Inside, Acquiring, Passing
  <1>3. Inside(u)' => Inside(u) \/ run[u].pc = "naming"
    BY <1>0 DEF Inside, Edge
  <1>4. AliveInv'
    <2>1. run[u].pc = "ready" => ProcOf[u] \in alive
      BY DEF Begin, RunStep, TakeLock, ReadHolder, JudgeHolder, NameLock, OpenSession,
             MarkSession, AddTree, UndoSession, RunCommand, DecidePatch, DecisionRaises,
             PersistPatch, CheckTarget, GitApply, VerifyApplied, LogApply, RollBack, Report,
             CleanUp, RemoveTree, ClearSession, EmptySession, DropLock, CleanupFails, In, Step,
             Settle
    <2>2. ProcOf[u] \in alive
      BY <1>0, <1>1, <2>1 DEF AliveInv, Edge
    <2>3. QED
      BY <1>0, <1>1, <2>2 DEF AliveInv
  <1>5. ApartInv'
    <2>1. Acquiring(u)' => \/ Acquiring(u)
                           \/ /\ \A v \in Runs : ~Acquiring(v)
                              /\ \A q \in Reconcilers : ~Passing(q)
      <3>1. CASE Begin(u)
        BY <3>1 DEF Begin
      <3>2. CASE RunStep(u)
        <4>1. run[u].pc # "ready"
          BY <3>2
             DEF RunStep, TakeLock, ReadHolder, JudgeHolder, NameLock, OpenSession,
                 MarkSession, AddTree, UndoSession, RunCommand, DecidePatch, DecisionRaises,
                 PersistPatch, CheckTarget, GitApply, VerifyApplied, LogApply, RollBack,
                 Report, CleanUp, RemoveTree, ClearSession, EmptySession, DropLock,
                 CleanupFails, In, Step, Settle
        <4>2. QED
          BY <1>0, <4>1 DEF Acquiring, Edge
      <3>3. QED
        BY <3>1, <3>2
    <2>2. QED
      BY <1>1, <1>2, <2>1 DEF ApartInv
  <1>6. HolderInv'
    <2>1. ASSUME NEW v \in Runs, Inside(v)'
          PROVE  lock'[RepoOf[v]] = [holder |-> v, written |-> TRUE]
      <3>1. CASE v = u /\ run[u].pc = "naming"
        <4>1. lock[RepoOf[u]].holder = u /\ WriteLock(u, RepoOf[u])
          BY <1>0, <1>1, <3>1 DEF HolderInv, LockEffect, CreateLock, Edge
        <4>2. lock' = [lock EXCEPT ![RepoOf[u]].written = TRUE]
          BY <4>1 DEF WriteLock
        <4>3. QED
          BY <1>1, <3>1, <4>1, <4>2 DEF LocksTypeOK, LockFile
      <3>2. CASE Inside(v) /\ ~(v = u /\ run[u].pc = "naming")
        <4>1. lock[RepoOf[v]] = [holder |-> v, written |-> TRUE] /\ lock[RepoOf[v]] # NoLock
          BY <1>1, <3>2 DEF HolderInv, NoLock
        <4>2. CASE run[u].pc = "judging" /\ ~HolderRuns(u) /\ Unlock(RepoOf[u])
          <5>1. RepoOf[u] # RepoOf[v]
            <6>1. SUFFICES ASSUME RepoOf[u] = RepoOf[v] PROVE FALSE
              OBVIOUS
            <6>2. run[u].saw = v
              BY <1>1, <3>2, <4>2, <6>1 DEF HolderInv
            <6>3. ProcOf[v] \in alive /\ v # NoActor
              BY <1>1, <3>2 DEF AliveInv, Inside
            <6>4. QED
              BY <4>2, <6>2, <6>3 DEF HolderRuns, OwnerActive
          <5>2. QED
            BY <1>1, <4>1, <4>2, <5>1 DEF Unlock, LocksTypeOK
        <4>3. CASE run[u].pc = "unlocking" /\ run'[u].pc = "done" /\ Unlock(RepoOf[u])
          <5>1. u # v /\ Inside(u)
            BY <2>1, <4>3 DEF Inside
          <5>a. lock[RepoOf[u]].holder = u /\ lock[RepoOf[v]].holder = v
            BY <1>1, <3>2, <5>1, HolderIsInside
          <5>2. RepoOf[u] # RepoOf[v]
            BY <5>1, <5>a
          <5>3. QED
            BY <1>1, <4>1, <4>3, <5>2 DEF Unlock, LocksTypeOK
        <4>4. CASE run'[u].pc = "naming" /\ CreateLock(u, RepoOf[u])
          BY <1>1, <4>1, <4>4 DEF CreateLock, LocksTypeOK
        <4>5. CASE run[u].pc = "naming" /\ run'[u].pc = "entered" /\ WriteLock(u, RepoOf[u])
          <5>1. lock[RepoOf[u]].holder = u /\ u # v
            BY <1>1, <3>2, <4>5 DEF HolderInv
          <5>2. RepoOf[u] # RepoOf[v]
            BY <4>1, <5>1
          <5>3. QED
            BY <1>1, <4>1, <4>5, <5>2 DEF WriteLock, LocksTypeOK
        <4>6. CASE UNCHANGED lock
          BY <4>1, <4>6
        <4>7. QED
          BY <1>0, <4>2, <4>3, <4>4, <4>5, <4>6 DEF LockEffect
      <3>3. QED
        BY <1>2, <1>3, <2>1, <3>1, <3>2
    <2>2. ASSUME NEW v \in Runs, run'[v].pc = "naming"
          PROVE  lock'[RepoOf[v]].holder = v
      <3>1. CASE v = u
        BY <1>0, <1>1, <2>2, <3>1 DEF LockEffect, CreateLock, LocksTypeOK, Edge
      <3>2. CASE v # u
        <4>1. run[v].pc = "naming" /\ lock[RepoOf[v]].holder = v
          BY <1>0, <1>1, <2>2, <3>2 DEF HolderInv
        <4>2. ~Acquiring(u)
          BY <1>1, <3>2, <4>1 DEF ApartInv, Acquiring
        <4>3. UNCHANGED lock \/ (run[u].pc = "unlocking" /\ Unlock(RepoOf[u]))
          BY <1>0, <4>2 DEF LockEffect, Edge, Acquiring
        <4>a. run[u].pc = "unlocking" => lock[RepoOf[u]].holder = u
          BY <1>1, HolderIsInside DEF Inside
        <4>4. run[u].pc = "unlocking" => RepoOf[u] # RepoOf[v]
          BY <3>2, <4>1, <4>a
        <4>5. QED
          BY <1>1, <4>1, <4>3, <4>4 DEF Unlock, LocksTypeOK
      <3>3. QED
        BY <3>1, <3>2
    <2>3. ASSUME NEW v \in Runs, NEW w \in Runs,
                 Inside(v)', run'[w].pc = "judging", RepoOf[v] = RepoOf[w]
          PROVE  run'[w].saw = v
      <3>1. CASE w = u
        <4>1. v # u /\ Inside(v)
          BY <1>2, <2>3, <3>1 DEF Inside
        <4>2. lock[RepoOf[u]] = [holder |-> v, written |-> TRUE]
          BY <1>1, <2>3, <3>1, <4>1 DEF HolderInv
        <4>3. QED
          BY <2>3, <3>1, <4>2, SessionSteps
      <3>2. CASE w # u
        <4>1. run[w].pc = "judging" /\ run'[w].saw = run[w].saw
          BY <1>0, <2>3, <3>2
        <4>2. Acquiring(w)
          BY <4>1 DEF Acquiring
        <4>3. Inside(v)
          BY <1>1, <1>2, <1>3, <2>3, <3>2, <4>2 DEF ApartInv, Acquiring
        <4>4. QED
          BY <1>1, <2>3, <4>1, <4>3 DEF HolderInv
      <3>3. QED
        BY <3>1, <3>2
    <2>4. ASSUME NEW v \in Runs, NEW q \in Reconcilers, Inside(v)', rec'[q].pc = "unlink"
          PROVE  RepoOf[v] \notin rec'[q].item
      <3>1. rec[q].pc = "unlink" /\ rec'[q].item = rec[q].item /\ Passing(q)
        BY <1>0, <2>4 DEF Passing
      <3>2. Inside(v)
        BY <1>1, <1>2, <1>3, <2>4, <3>1 DEF ApartInv, Acquiring
      <3>3. QED
        BY <1>1, <3>1, <3>2 DEF HolderInv
    <2>5. QED
      BY <2>1, <2>2, <2>3, <2>4 DEF HolderInv
  <1>7. GateInv'
    <2>. SUFFICES ASSUME NEW v \in Runs, NEW q \in Reconcilers, Inside(v)',
                         rec'[q].pc \in AtWorkspaces \/ (rec'[q].pc = "gated" /\ ~rec'[q].blocked)
                  PROVE  FALSE
      BY DEF GateInv
    <2>1. Passing(q) /\ rec' = rec
      BY <1>0 DEF Passing, AtWorkspaces
    <2>2. Inside(v)
      BY <1>1, <1>2, <1>3, <2>1 DEF ApartInv, Acquiring
    <2>3. QED
      BY <1>1, <2>1, <2>2 DEF GateInv
  <1>8. SessionInv'
    <2>1. ASSUME NEW v \in Runs, v # u
          PROVE  session'[v] = session[v] /\ run'[v] = run[v]
      BY <1>0, <2>1 DEF SessionOp
    <2>2. run[u].pc = "adding" => session[u] = "marked"
      BY <1>1 DEF SessionInv
    <2>3. run'[u].pc = "running" => session'[u] = "tree"
      BY <2>2, SessionSteps DEF AddWorktree, Put, GTyped
    <2>4. run'[u].pc \in Live \ {"running"} => session'[u] = "tree"
      BY <1>1, SessionSteps DEF SessionInv
    <2>5. QED
      BY <1>1, <2>1, <2>3, <2>4, SessionSteps DEF SessionInv
  <1>9. QED
    BY <1>4, <1>5, <1>6, <1>7, <1>8 DEF SerialInv

\* A pass that starts beside no run that takes its lock.
LEMMA SerialPass ==
    ASSUME GTyped, SerialInv, ~StartsOverlap,
           NEW q \in Reconcilers, BeginPass(q) \/ PassStep(q)
    PROVE  SerialInv'
  <1>0. /\ UNCHANGED <<alive, run>>
        /\ UNCHANGED lock \/ (rec[q].pc = "unlink" /\ Unlock(Item(q)))
        /\ UNCHANGED session \/ rec[q].pc \in AtWorkspaces
        /\ PassEffect(q) /\ PassTyped
    BY PassFrame, PassEffects DEF GTyped
  <1>1. /\ AliveInv /\ ApartInv /\ HolderInv /\ GateInv /\ SessionInv
        /\ LockNames = Repos /\ RepoOf \in [Runs -> Repos] /\ LocksTypeOK
    BY GuardedAssumption DEF SerialInv, GTyped
  <1>2. /\ rec' \in [Reconcilers -> PassState]
        /\ \A p \in Reconcilers \ {q} : rec'[p] = rec[p]
    BY <1>0 DEF PassEffect, PassIs
  <1>3. \A u \in Runs : Inside(u)' = Inside(u) /\ Acquiring(u)' = Acquiring(u)
    BY <1>0 DEF Inside, Acquiring
  <1>4. \A u \in Runs : Inside(u) =>
            /\ lock[RepoOf[u]] = [holder |-> u, written |-> TRUE]
            /\ lock[RepoOf[u]] # NoLock /\ ~StaleLock(RepoOf[u])
    <2>. SUFFICES ASSUME NEW u \in Runs, Inside(u)
                  PROVE  /\ lock[RepoOf[u]] = [holder |-> u, written |-> TRUE]
                         /\ lock[RepoOf[u]] # NoLock /\ ~StaleLock(RepoOf[u])
      OBVIOUS
    <2>1. lock[RepoOf[u]] = [holder |-> u, written |-> TRUE] /\ ProcOf[u] \in alive
      BY <1>1 DEF HolderInv, AliveInv, Inside
    <2>2. QED
      BY <2>1 DEF NoLock, StaleLock, OwnerActive
  <1>5. AliveInv'
    BY <1>0, <1>1 DEF AliveInv
  <1>6. ApartInv'
    <2>1. BeginPass(q) => \A u \in Runs : ~Acquiring(u)
      BY DEF BeginPass
    <2>2. PassStep(q) => Passing(q)
      BY DEF PassStep, EnterWorkspaces, ListWorkspaces, RecoverWorkspace, DestroyTree,
             DestroyMarker, DestroyDir, LeaveWorkspaces, SweepLocks, PassGate, GlobLocks,
             InspectLock, RemoveLock, At, Passing
    <2>3. \A u \in Runs : ~Acquiring(u) \/ ~Passing(q)'
      BY <1>1, <2>1, <2>2 DEF ApartInv
    <2>4. \A p \in Reconcilers \ {q} : Passing(p)' = Passing(p)
      BY <1>2 DEF Passing
    <2>5. QED
      BY <1>1, <1>3, <2>3, <2>4 DEF ApartInv
  <1>7. HolderInv'
    <2>1. ASSUME NEW u \in Runs, Inside(u) \/ run[u].pc = "naming"
          PROVE  lock'[RepoOf[u]] = lock[RepoOf[u]]
      <3>1. CASE UNCHANGED lock
        BY <3>1
      <3>2. CASE rec[q].pc = "unlink" /\ Unlock(Item(q))
        <4>1. rec[q].item = {Item(q)}
          BY <1>0, <3>2 DEF PassTyped, Item
        <4>2. Passing(q)
          BY <3>2 DEF Passing
        <4>3. Inside(u)
          BY <1>1, <2>1, <4>2 DEF ApartInv, Acquiring
        <4>4. RepoOf[u] # Item(q)
          BY <1>1, <3>2, <4>1, <4>3 DEF HolderInv
        <4>5. QED
          BY <1>1, <3>2, <4>4 DEF Unlock, LocksTypeOK
      <3>3. QED
        BY <1>0, <3>1, <3>2
    <2>2. ASSUME NEW u \in Runs, NEW p \in Reconcilers, Inside(u), rec'[p].pc = "unlink"
          PROVE  RepoOf[u] \notin rec'[p].item
      <3>1. CASE p # q
        BY <1>1, <1>2, <2>2, <3>1 DEF HolderInv
      <3>2. CASE p = q
        <4>1. \E n \in rec[q].todo : StaleLock(n) /\ rec'[q].item = {n}
          BY <1>0, <2>2, <3>2 DEF PassEffect, PassIs
        <4>2. QED
          BY <1>4, <2>2, <3>2, <4>1
      <3>3. QED
        BY <3>1, <3>2
    <2>3. QED
      BY <1>0, <1>1, <1>3, <2>1, <2>2 DEF HolderInv
  <1>8. GateInv'
    <2>. SUFFICES ASSUME NEW u \in Runs, NEW p \in Reconcilers, Inside(u),
                         rec'[p].pc \in AtWorkspaces \/ (rec'[p].pc = "gated" /\ ~rec'[p].blocked)
                  PROVE  FALSE
      BY <1>3 DEF GateInv
    <2>1. CASE p # q
      BY <1>1, <1>2, <2>1 DEF GateInv
    <2>2. CASE p = q
      <3>1. LocksBlockRecovery
        BY <1>1, <1>4 DEF LocksBlockRecovery
      <3>2. \/ rec[q].pc \in AtWorkspaces
            \/ rec[q].pc = "gated" /\ ~rec[q].blocked
        BY <1>0, <2>2, <3>1 DEF PassEffect, PassIs, AtWorkspaces, HasWorkspace
      <3>3. QED
        BY <1>1, <3>2 DEF GateInv
    <2>3. QED
      BY <2>1, <2>2
  <1>9. SessionInv'
    <2>1. CASE UNCHANGED session
      BY <1>0, <1>1, <2>1 DEF SessionInv
    <2>2. CASE rec[q].pc \in AtWorkspaces
      <3>1. \A u \in Runs : ~Inside(u)
        BY <1>1, <2>2 DEF GateInv
      <3>2. QED
        BY <1>0, <3>1 DEF SessionInv, Inside, Live
    <2>3. QED
      BY <1>0, <2>1, <2>2
  <1>10. QED
    BY <1>5, <1>6, <1>7, <1>8, <1>9 DEF SerialInv

\* Others, and the exit of a process at any moment.
LEMMA SerialWorld ==
    ASSUME GTyped, SerialInv, (\E r \in Repos : Develop(r)) \/ (\E p \in Procs : Exit(p))
    PROVE  SerialInv'
  <1>0. /\ UNCHANGED <<lock, session>>
        /\ \A u \in Runs :
               \/ run'[u] = run[u] /\ (run[u].pc \in {"ready", "done", "dead"}
                                         \/ (ProcOf[u] \in alive => ProcOf[u] \in alive'))
               \/ run'[u].pc = "dead"
        /\ \A q \in Reconcilers :
               rec'[q] = rec[q] \/ rec'[q] = [NothingYet EXCEPT !.pc = "dead"]
    BY WorldFrame
  <1>1. AliveInv /\ ApartInv /\ HolderInv /\ GateInv /\ SessionInv
    BY DEF SerialInv
  <1>2. \A q \in Reconcilers : rec'[q] = rec[q] \/ rec'[q].pc = "dead"
    BY <1>0 DEF NothingYet
  <1>3. /\ \A u \in Runs : (Inside(u)' => Inside(u)) /\ (Acquiring(u)' => Acquiring(u))
        /\ \A q \in Reconcilers : Passing(q)' => Passing(q)
    BY <1>0, <1>2 DEF Inside, Acquiring, Passing
  <1>4. AliveInv'
    BY <1>0, <1>1 DEF AliveInv
  <1>5. ApartInv'
    BY <1>1, <1>3 DEF ApartInv
  <1>6. HolderInv'
    BY <1>0, <1>1, <1>2, <1>3 DEF HolderInv
  <1>7. GateInv'
    BY <1>1, <1>2, <1>3 DEF GateInv, AtWorkspaces
  <1>8. SessionInv'
    BY <1>0, <1>1 DEF SessionInv, Live
  <1>9. QED
    BY <1>4, <1>5, <1>6, <1>7, <1>8 DEF SerialInv

\* The lock of a repository, its holder, the passes beside it and the sessions
\* on the run root agree, as long as a run takes its lock while nobody else
\* takes one and no pass is made.
THEOREM RunsAreSerial ==
    ASSUME ~StartsOverlap
    PROVE  GuardedSpec => []SerialInv
  <1>1. GuardedInit => SerialInv
    BY DEF GuardedInit, SerialInv, AliveInv, ApartInv, HolderInv, GateInv, SessionInv, Inside,
           Acquiring, NewRun, NothingYet, AtWorkspaces, Live
  <1>2. ASSUME GTyped, FactsInv, SerialInv, [GuardedNext]_guardedVars
        PROVE  SerialInv'
    <2>1. CASE UNCHANGED guardedVars
      BY <1>2, <2>1
         DEF guardedVars, SerialInv, AliveInv, ApartInv, HolderInv, GateInv, SessionInv, Inside,
             Acquiring, Passing
    <2>2. CASE GuardedNext
      BY <1>2, <2>2, SerialRun, SerialPass, SerialWorld DEF GuardedNext
    <2>3. QED
      BY <1>2, <2>1, <2>2
  <1>3. QED
    BY <1>1, <1>2, GuardedTyped, PTL DEF GuardedSpec

\* "guarded run already active for trusted repository": two runs are never past
\* the lock of one repository, however many passes are made and wherever
\* processes die, provided that a run does not take its lock while another
\* takes one or a pass is made.  The code does not ensure that proviso: the
\* lock file is empty for a moment, and it is removed by path.
THEOREM OneRunAtATime ==
    ASSUME ~StartsOverlap
    PROVE  GuardedSpec => []OneRunPerRepo
  <1>1. SerialInv => OneRunPerRepo
    <2>. SUFFICES ASSUME SerialInv, NEW u \in Runs, NEW v \in Runs, Inside(u), Inside(v),
                         RepoOf[u] = RepoOf[v]
                  PROVE  u = v
      BY DEF OneRunPerRepo
    <2>1. lock[RepoOf[u]].holder = u /\ lock[RepoOf[v]].holder = v
      BY HolderIsInside DEF SerialInv
    <2>2. QED
      BY <2>1
  <1>2. QED
    BY <1>1, RunsAreSerial, PTL

\* Under the same proviso no recovery pass takes away the worktree of a run
\* that is still using it, whichever way git fails.
THEOREM WorkspaceIsKept ==
    ASSUME ~StartsOverlap
    PROVE  GuardedSpec => []LiveWorkspaceKept
  <1>1. SerialInv => LiveWorkspaceKept
    BY DEF SerialInv, SessionInv, LiveWorkspaceKept, Live
  <1>2. QED
    BY <1>1, RunsAreSerial, PTL

=============================================================================
