--------------------------- MODULE ToolInterceptor ---------------------------
(***************************************************************************)
(* Tool calls of AI agents (interceptor.py, approval.py,                    *)
(* approval_authorization.py, tool_executor.py, core.py and the evaluate    *)
(* endpoint of api.py).  Calls run in threads that share one risk engine,   *)
(* one policy, one audit log and one table of tool handlers.                *)
(*                                                                          *)
(*   idle -> begun -> recording -> trimming -> assessed ->     *)
(*   asking -> auditing -> executing -> done      failing -> done    raised *)
(***************************************************************************)
EXTENDS RiskScore, PolicyRules

CONSTANTS
    Calls,       \* calls, numbered in the order they begin
    MaxThreads,  \* bound: calls under way at a time
    MaxFaults,   \* bound: steps that raise
    Requests,    \* [kind, risk, facts, bytes, name, action, ids, by]
    Registrable, \* tools whose handler may be registered late
    Setups,      \* [mode, source, policy, default_resolver, reviewers, roles]
    Questions,   \* more requests a policy is asked about
    Answers      \* [status, by, role, same_id]: what a resolver may return

Modes == {"observe", "simulate", "enforce", "production_safe"}
Nobody == "nobody"
NoAnswer == [status |-> "none", by |-> Nobody]

ASSUME CallsAssumption ==
    /\ Calls \subseteq Nat /\ MaxThreads \in Nat /\ MaxFaults \in Nat /\ Requests # {}
    /\ \A r \in Requests : r.risk \in RiskFacts /\ r.kind \in {"intercept", "evaluate"} /\ r.facts \subseteq Conditions /\ r.ids \in Seq(Traces \cup {NoTrace})
    /\ \A s \in Setups : s.mode \in Modes /\ s.source \in Sources /\ s.policy.default \in Decisions /\ s.policy.rules \in Seq(Rule)
    /\ \A a \in Answers : a.status \in {"approved", "rejected", "pending"}

\* A sum of the scores of signals, capped.
ASSUME ScoresAssumption == \A r \in Requests : PreliminaryScore(r.risk) \in 0..100

VARIABLES
    setup,    \* the configuration the service is started with
    serving,  \* "loading", "up" or "refused"
    history,  \* [Traces -> Seq(score)]: _trace_risk_history
    call,     \* [Calls -> the state of the call]
    events,   \* audit events of calls
    ran,      \* calls whose handler was called
    tools,    \* names of registered handlers
    faults,   \* steps that raised so far
    ledger    \* ghost, [Traces -> [all, risky]]: calls assessed so far

callVars == <<setup, serving, history, call, events, ran, tools, faults, ledger>>
EngineSame == UNCHANGED <<setup, serving, tools>>

Fresh == [pc |-> "idle", req |-> CHOOSE r \in Requests : TRUE, score |-> 0,
          surplus |-> 0, asked |-> [decision |-> "none", severity |-> "low"], answer |-> NoAnswer,
          failed |-> FALSE, out |-> [status |-> "none", executed |-> FALSE], known |-> 0]

CallsInit ==
    /\ setup \in Setups /\ serving = "loading"
    /\ history = [t \in Traces |-> <<>>]
    /\ call = [c \in Calls |-> Fresh]
    /\ events = {} /\ ran = {} /\ faults = 0
    /\ tools = {r.name : r \in Requests} \ Registrable
    /\ ledger = [t \in Traces |-> [all |-> 0, risky |-> 0]]

----------------------------------------------------------------------------
\* Rygnal.__init__ and create_app load the policy of the mode, or raise.
Load ==
    /\ serving = "loading"
    /\ serving' = IF LoadAccepted(setup.source, setup.policy, setup.mode) THEN "up" ELSE "refused"
    /\ UNCHANGED <<setup, history, call, events, ran, tools, faults, ledger>>

\* register_tool, before the first call.
Register(t) ==
    /\ \A c \in Calls : call[c].pc = "idle"
    /\ t \notin tools /\ tools' = tools \cup {t}
    /\ UNCHANGED <<setup, serving, history, call, events, ran, faults, ledger>>

At(c, where) == call[c].pc = where
Go(c, from, to) == At(c, from) /\ call' = [call EXCEPT ![c].pc = to]
UnderWay == {c \in Calls : call[c].pc \notin {"idle", "done", "raised"}}

Trace(c) == TraceIdentity(call[c].req.ids)
Past(c) == IF Trace(c) = NoTrace THEN <<>> ELSE history[Trace(c)]

KnownRisky(t) == IF t = NoTrace THEN 0 ELSE ledger[t].risky

\* intercept, or POST /v1/evaluate.
Begin(c) ==
    /\ serving = "up" /\ At(c, "idle")
    /\ \A d \in Calls : d < c => ~At(d, "idle")
    /\ Cardinality(UnderWay) < MaxThreads
    /\ \E r \in Requests :
        call' = [call EXCEPT ![c] = [@ EXCEPT !.pc = "begun", !.req = r, !.known = KnownRisky(TraceIdentity(r.ids))]]
    /\ EngineSame /\ UNCHANGED <<history, events, ran, faults, ledger>>

\* assess: the detectors, and the score raised by the history as it is now.
Score(c) ==
    /\ At(c, "begun")
    /\ LET now == PreliminaryScore(call[c].req.risk) IN
       call' = [call EXCEPT ![c].pc = IF Trace(c) = NoTrace THEN "assessed" ELSE "recording",
                            ![c].score = FinalScore(Trace(c), Past(c), now)]
    /\ EngineSame /\ UNCHANGED <<history, events, ran, faults, ledger>>

Assessed(c) == ledger' = [ledger EXCEPT ![Trace(c)].all = @ + 1,
                                        ![Trace(c)].risky = IF call[c].score >= MediumThreshold THEN @ + 1 ELSE @]
AfterRecording(c, n) ==
    /\ At(c, "recording")
    /\ call' = [call EXCEPT ![c].pc = IF n > HistoryLimit THEN "trimming" ELSE "assessed",
                            ![c].surplus = IF n > HistoryLimit THEN n - HistoryLimit ELSE 0]

\* Fault: only what was not raised by the history is recorded.
RecordTraceOnce(c) ==
    /\ AfterRecording(c, 0) /\ Assessed(c)
    /\ history' = IF RiskyCount(Past(c)) > 0 THEN history ELSE [history EXCEPT ![Trace(c)] = Append(@, call[c].score)]
    /\ EngineSame /\ UNCHANGED <<events, ran, faults>>

\* _record_trace_risk appends the score and counts what is too much ...
RecordTrace(c) ==
    /\ AfterRecording(c, Len(Past(c)) + 1) /\ Assessed(c)
    /\ history' = [history EXCEPT ![Trace(c)] = Append(@, call[c].score)]
    /\ EngineSame /\ UNCHANGED <<events, ran, faults>>

\* ... and deletes as many of the oldest scores.
TrimHistory(c) ==
    /\ Go(c, "trimming", "assessed")
    /\ history' = [history EXCEPT ![Trace(c)] = DropFirst(@, call[c].surplus)]
    /\ EngineSame /\ UNCHANGED <<events, ran, faults, ledger>>

Question(c) == [facts |-> call[c].req.facts, bytes |-> call[c].req.bytes,
                level |-> RiskLevel(call[c].score), score |-> call[c].score]

\* evaluate
EvaluatePolicy(c) ==
    /\ At(c, "assessed")
    /\ LET d == Evaluate(setup.policy, Question(c)) IN
       call' = [call EXCEPT ![c].asked = d,
                            ![c].pc = IF d.decision = "require_approval" /\ call[c].req.kind = "intercept"
                                      THEN "asking" ELSE "auditing"]
    /\ EngineSame /\ UNCHANGED <<history, events, ran, faults, ledger>>

\* risk_engine.assess or policy_engine.evaluate raises.  An intercepted call
\* is blocked; the endpoint answers with an internal error.
StageRaises(c) ==
    /\ faults < MaxFaults /\ faults' = faults + 1
    /\ call[c].pc \in {"begun", "assessed"}
    /\ call' = [call EXCEPT ![c].pc = IF call[c].req.kind = "evaluate" THEN "raised" ELSE "failing",
                            ![c].failed = TRUE]
    /\ EngineSame /\ UNCHANGED <<history, events, ran, ledger>>

----------------------------------------------------------------------------
\* _authorize_role_permission and _authorize_role_constraints: once roles are
\* configured they alone decide.
RoleAllows(c, a) ==
    /\ a.role \in DOMAIN setup.roles
    /\ LET p == setup.roles[a.role] IN
       /\ call[c].asked.severity \in p.severities
       /\ call[c].req.action \in p.actions
       /\ call[c].req.risk.env \in p.envs

\* _authorize_reviewer_permission
ReviewerAllows(a) == DOMAIN setup.reviewers # {} => (a.by \in DOMAIN setup.reviewers /\ setup.reviewers[a.by])

\* Fault: the reviewer is compared with the agent, not with the requester.
AuthorizedSelf(c, a) ==
    /\ a.status \in {"approved", "rejected"}
    /\ a.status = "approved" =>
        /\ a.by # Nobody
        /\ IF DOMAIN setup.roles # {} THEN RoleAllows(c, a) ELSE ReviewerAllows(a)

\* ApprovalAuthorizationEngine.authorize of an answer to a pending request.
Authorized(c, a) ==
    /\ a.status \in {"approved", "rejected"}
    /\ a.status = "approved" =>
        /\ a.by \notin {Nobody, call[c].req.by}
        /\ IF DOMAIN setup.roles # {} THEN RoleAllows(c, a) ELSE ReviewerAllows(a)

\* request_approval: the resolver answers, or is the one that rejects; an
\* answer to another request raises; an unauthorized one is a rejection by
\* the system.  The receipt of an approval is attached or raises.
Ask(c) ==
    /\ At(c, "asking")
    /\ \/ /\ setup.default_resolver
          /\ call' = [call EXCEPT ![c].pc = "auditing", ![c].answer = [status |-> "rejected", by |-> "system"]]
          /\ UNCHANGED faults
       \/ /\ ~setup.default_resolver
          /\ \E a \in Answers :
              /\ a.same_id
              /\ call' = [call EXCEPT ![c].pc = "auditing",
                              ![c].answer = IF Authorized(c, a) THEN [status |-> a.status, by |-> a.by]
                                            ELSE [status |-> "rejected", by |-> "system"]]
          /\ UNCHANGED faults
       \/ /\ ~setup.default_resolver
          /\ \/ (\E a \in Answers : ~a.same_id) /\ UNCHANGED faults
             \/ faults < MaxFaults /\ faults' = faults + 1
          /\ call' = [call EXCEPT ![c].pc = "failing", ![c].failed = TRUE]
    /\ EngineSame /\ UNCHANGED <<history, events, ran, ledger>>

EventOf(c) == [call |-> c, decision |-> call[c].asked.decision, answer |-> call[c].answer]
Blocked == [decision |-> "block", severity |-> "high"]

\* log_decision: written, or it raises and the caller gets the exception.
LogDecision(c) ==
    /\ \/ /\ events' = events \cup {EventOf(c)} /\ UNCHANGED faults
          /\ Go(c, "auditing", IF call[c].req.kind = "evaluate" THEN "done" ELSE "executing")
       \/ /\ faults < MaxFaults /\ faults' = faults + 1 /\ UNCHANGED events
          /\ Go(c, "auditing", "raised")
    /\ EngineSame /\ UNCHANGED <<history, ran, ledger>>

\* Fault: the result keeps the decision of the policy.
FailClosedDecided(c) ==
    /\ At(c, "failing")
    /\ call' = [call EXCEPT ![c].pc = "done", ![c].out = [status |-> "skipped", executed |-> FALSE]]
    /\ events' = events \cup {[call |-> c, decision |-> "block", answer |-> NoAnswer]}
    /\ EngineSame /\ UNCHANGED <<history, ran, faults, ledger>>

\* _fail_closed_result: a block, logged if the log can be written, otherwise
\* only in the result.
FailClosed(c) ==
    /\ At(c, "failing")
    /\ call' = [call EXCEPT ![c].pc = "done", ![c].asked = Blocked, ![c].answer = NoAnswer,
                            ![c].out = [status |-> "skipped", executed |-> FALSE]]
    /\ \/ /\ events' = events \cup {[call |-> c, decision |-> "block", answer |-> NoAnswer]}
          /\ UNCHANGED faults
       \/ faults < MaxFaults /\ faults' = faults + 1 /\ UNCHANGED events
    /\ EngineSame /\ UNCHANGED <<history, ran, ledger>>

Enforcing == setup.mode \in {"enforce", "production_safe"}

\* _execute_with_decision: whether the tool is executed ...
MayExecute(c) ==
    /\ Enforcing
    /\ \/ call[c].asked.decision = "allow"
       \/ call[c].asked.decision = "require_approval" /\ call[c].answer.status = "approved"

\* ... and what is answered when it is not.
NotExecuted(c) ==
    [status |-> IF call[c].asked.decision = (IF setup.mode = "simulate" THEN "allow" ELSE "simulate") /\ setup.mode # "observe"
                THEN "simulated" ELSE "skipped", executed |-> FALSE]

\* ToolExecutor.execute: an unknown tool fails, a handler returns or raises.
Execute(c) ==
    /\ At(c, "executing")
    /\ \/ /\ ~MayExecute(c)
          /\ call' = [call EXCEPT ![c].pc = "done", ![c].out = NotExecuted(c)]
          /\ UNCHANGED ran
       \/ /\ MayExecute(c) /\ call[c].req.name \notin tools
          /\ call' = [call EXCEPT ![c].pc = "done", ![c].out = [status |-> "failed", executed |-> FALSE]]
          /\ UNCHANGED ran
       \/ /\ MayExecute(c) /\ call[c].req.name \in tools
          /\ \E s \in {"executed", "failed"} :
              call' = [call EXCEPT ![c].pc = "done", ![c].out = [status |-> s, executed |-> TRUE]]
          /\ ran' = ran \cup {c}
    /\ EngineSame /\ UNCHANGED <<history, events, faults, ledger>>

ThreadStep(c) ==
    \/ Score(c) \/ RecordTrace(c) \/ TrimHistory(c)
    \/ EvaluatePolicy(c) \/ LogDecision(c) \/ FailClosed(c) \/ Execute(c)

CallsNext ==
    \/ Load
    \/ \E t \in Registrable : Register(t)
    \/ \E c \in Calls : Begin(c) \/ ThreadStep(c) \/ StageRaises(c) \/ Ask(c)

CallsSpec == CallsInit /\ [][CallsNext]_callVars

----------------------------------------------------------------------------
Logged(c) == {e \in events : e.call = c}

\* A handler is called only in an enforcing mode, after an event of this call
\* was written whose decision permits it: allowed, or approved by somebody who
\* is not the requester and whom the configured roles or reviewers permit.
\* Under the bundled production policy nothing critical runs, and nothing
\* without such an approval (intercept, request_approval, log_decision).
RunWasPermitted ==
    \A c \in ran :
        /\ Enforcing
        /\ \E e \in Logged(c) :
              \/ e.decision = "allow" /\ setup.policy # ProductionPolicy
              \/ /\ e.decision = "require_approval" /\ e.answer.status = "approved"
                 /\ \E a \in Answers : a.by = e.answer.by /\ a.by \notin {Nobody, call[c].req.by}
                                        /\ (DOMAIN setup.roles # {} => a.role \in DOMAIN setup.roles)
                 /\ DOMAIN setup.roles = {} /\ DOMAIN setup.reviewers # {} =>
                      e.answer.by \in DOMAIN setup.reviewers
        /\ setup.policy = ProductionPolicy => RiskLevel(call[c].score) # "critical"

\* What the caller of intercept is told is what happened: executed exactly if
\* the handler was called, with the decision that was logged, and a block if
\* a stage failed; a call that raised has not run its tool.
ResultIsTrue ==
    \A c \in Calls :
        /\ At(c, "done") => /\ call[c].out.executed <=> c \in ran
                            /\ \A e \in Logged(c) : e.decision = call[c].asked.decision
                            /\ call[c].failed => call[c].asked.decision = "block"
        /\ At(c, "raised") => c \notin ran /\ Logged(c) = {}

\* A risky call that begins when two risky calls of its trace have been
\* assessed is scored with both in mind, whatever threads score at the same
\* time, as long as the history of the trace has not reached its limit
\* (_cumulative_trace_signal, _record_trace_risk).
RepeatedRiskEscalates ==
    \A c \in Calls :
        /\ At(c, "recording") /\ call[c].known >= 2
        /\ ledger[Trace(c)].all <= HistoryLimit
        /\ PreliminaryScore(call[c].req.risk) >= MediumThreshold
        => call[c].score >= CappedScore(PreliminaryScore(call[c].req.risk) + 45)

\* The policy of a service that was started gives every request the decision
\* of the matching rule no other matching rule precedes, or its default; in
\* the production-safe mode nothing is allowed or simulated that no rule with
\* a condition names (evaluate, _validate_terminal_catch_all).
LoadedPolicyDecides ==
    serving = "up" /\ UnderWay = {} /\ At(1, "idle") =>
        \A r \in Requests \cup Questions, score \in {10, 45, 84, 85, 100} :
            LET q     == [facts |-> r.facts, bytes |-> r.bytes, level |-> RiskLevel(score), score |-> score]
                rules == setup.policy.rules
                found == {i \in DOMAIN rules : MatchOutcome(rules[i], q) # "no"}
                best  == {i \in found : \A j \in found \ {i} : Precedes(rules, i, j)}
                d     == Evaluate(setup.policy, q).decision
            IN  /\ found = {} => d = setup.policy.default
                /\ \A i \in best : d = rules[i].decision \/ (MatchOutcome(rules[i], q) = "guard" /\ d = "block")
                /\ setup.mode = "production_safe" /\ d \in {"allow", "simulate"} =>
                      \E i \in best : ~CatchAll(rules[i])
=============================================================================
