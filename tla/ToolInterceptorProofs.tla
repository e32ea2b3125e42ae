------------------------ MODULE ToolInterceptorProofs ------------------------
(***************************************************************************)
(* Proofs about ToolInterceptor, for any number of calls and threads, any   *)
(* policies, requests and reviewers, and any length of a trace's history.   *)
(***************************************************************************)
EXTENDS ToolInterceptor, FunctionTheorems, FiniteSetTheorems, WellFoundedInduction, TLAPS

----------------------------------------------------------------------------
(* Numbers.                                                                 *)

\* A set of natural numbers that is not empty has a smallest one.
LEMMA MinNat ==
    ASSUME NEW S \in SUBSET Nat, S # {}
    PROVE  Min(S) \in S /\ \A y \in S : Min(S) <= y
  <1> DEFINE R == OpToRel(<, Nat)
  <1>1. \A x, y \in Nat : <<x, y>> \in R <=> x < y
    BY DEF OpToRel
  <1>2. IsWellFoundedOn(R, Nat)
    BY NatLessThanWellFounded
  <1> HIDE DEF R
  <1>3. PICK x \in S : \A y \in S : ~(<<y, x>> \in R)
    BY <1>2, WFMin
  <1>4. ASSUME NEW y \in S
        PROVE  x <= y
    <2>1. x \in Nat /\ y \in Nat /\ ~(<<y, x>> \in R)
      BY <1>3
    <2>2. ~(y < x)
      BY <1>1, <2>1
    <2> QED
      BY <2>1, <2>2
  <1> QED
    BY <1>4 DEF Min

----------------------------------------------------------------------------
(* The order of rules.                                                      *)

Before(rules, i) == {j \in DOMAIN rules : Precedes(rules, j, i)}

LEMMA PriorityIsNat ==
    ASSUME NEW r \in Rule
    PROVE  r.priority \in Nat
  <1> DEFINE p == r.priority
  <1>1. p \in 0..1000
    BY DEF Rule
  <1> HIDE DEF p
  <1>2. p \in Nat
    BY <1>1
  <1> QED
    BY <1>2 DEF p

\* Of two rules exactly one precedes the other, and precedence is transitive.
LEMMA RulesOrdered ==
    ASSUME NEW rules \in Seq(Rule)
    PROVE  /\ \A i \in DOMAIN rules : ~Precedes(rules, i, i)
           /\ \A i, j \in DOMAIN rules : i # j => (Precedes(rules, i, j) <=> ~Precedes(rules, j, i))
           /\ \A i, j, k \in DOMAIN rules :
                 Precedes(rules, i, j) /\ Precedes(rules, j, k) => Precedes(rules, i, k)
  <1>1. \A i \in DOMAIN rules : i \in Nat /\ rules[i] \in Rule
    OBVIOUS
  <1>2. \A r \in Rule : r.priority \in Nat
    BY PriorityIsNat
  <1>3. \A i \in DOMAIN rules : i \in Nat /\ rules[i].priority \in Nat
    BY <1>1, <1>2
  <1> QED
    BY <1>3 DEF Precedes

\* A rule that precedes another has fewer rules before it.
LEMMA RankGrows ==
    ASSUME NEW rules \in Seq(Rule), NEW i \in DOMAIN rules
    PROVE  /\ Cardinality(Before(rules, i)) \in 0..(Len(rules) - 1)
           /\ \A j \in DOMAIN rules :
                 Precedes(rules, i, j) => Cardinality(Before(rules, i)) < Cardinality(Before(rules, j))
  <1>1. DOMAIN rules = 1..Len(rules) /\ Len(rules) \in Nat
    OBVIOUS
  <1>2. IsFiniteSet(DOMAIN rules) /\ Cardinality(DOMAIN rules) = Len(rules)
    <2> DEFINE n == Len(rules)
    <2> HIDE DEF n
    <2>1. n \in Nat
      BY <1>1 DEF n
    <2>2. IsFiniteSet(1..n) /\ Cardinality(1..n) = IF 1 > n THEN 0 ELSE n - 1 + 1
      BY <2>1, FS_Interval
    <2> QED
      BY <1>1, <2>1, <2>2 DEF n
  <1>3. \A j \in DOMAIN rules : IsFiniteSet(Before(rules, j)) /\ Cardinality(Before(rules, j)) \in Nat
    BY <1>2, FS_Subset, FS_CardinalityType DEF Before
  <1>4. Before(rules, i) \subseteq DOMAIN rules \ {i}
    BY RulesOrdered DEF Before
  <1>5. Cardinality(Before(rules, i)) <= Len(rules) - 1
    <2>1. IsFiniteSet(DOMAIN rules \ {i}) /\ Cardinality(DOMAIN rules \ {i}) = Len(rules) - 1
      BY <1>2, FS_RemoveElement
    <2> QED
      BY <1>4, <2>1, FS_Subset
  <1>6. ASSUME NEW j \in DOMAIN rules, Precedes(rules, i, j)
        PROVE  Cardinality(Before(rules, i)) < Cardinality(Before(rules, j))
    <2>1. Before(rules, i) \subseteq Before(rules, j)
      BY <1>6, RulesOrdered DEF Before
    <2>2. i \in Before(rules, j) /\ i \notin Before(rules, i)
      BY <1>6, <1>4 DEF Before
    <2>3. Cardinality(Before(rules, i)) <= Cardinality(Before(rules, j))
      BY <1>3, <2>1, FS_Subset
    <2>4. Cardinality(Before(rules, j)) # Cardinality(Before(rules, i))
      BY <1>3, <2>1, <2>2, FS_Subset
    <2> QED
      BY <1>3, <2>3, <2>4
  <1> QED
    BY <1>1, <1>3, <1>5, <1>6

\* sorted() loses no rule and repeats none: the rule at place k is the one
\* with k - 1 rules before it, and the places are in the order of precedence.
Place(rules, k) == CHOOSE i \in DOMAIN rules : Cardinality(Before(rules, i)) = k - 1

LEMMA PlacesExist ==
    ASSUME NEW rules \in Seq(Rule), NEW k \in DOMAIN rules
    PROVE  Place(rules, k) \in DOMAIN rules /\ Cardinality(Before(rules, Place(rules, k))) = k - 1
  <1> DEFINE n == Len(rules)
             rank == [i \in 1..n |-> Cardinality(Before(rules, i)) + 1]
  <1>1. n \in Nat /\ DOMAIN rules = 1..n
    OBVIOUS
  <1> HIDE DEF n
  <1>2. rank \in [1..n -> 1..n]
    BY <1>1, RankGrows DEF n
  <1>3. \A i, j \in 1..n : rank[i] = rank[j] => i = j
    BY <1>1, RankGrows, RulesOrdered DEF n
  <1>4. rank \in Injection(1..n, 1..n)
    BY <1>2, <1>3, Fun_IsInj
  <1>5. rank \in Surjection(1..n, 1..n)
    BY <1>1, <1>4, FS_Interval, FS_Injection
  <1> HIDE DEF rank
  <1>6. \A t \in 1..n : \E i \in 1..n : rank[i] = t
    BY <1>5, Fun_SurjectionProperties
  <1>7. \E i \in DOMAIN rules : Cardinality(Before(rules, i)) = k - 1
    <2>1. PICK i \in 1..n : rank[i] = k
      BY <1>1, <1>6
    <2> QED
      BY <1>1, <2>1, RankGrows DEF rank
  <1> QED
    BY <1>7 DEF Place

LEMMA SortedRules ==
    ASSUME NEW rules \in Seq(Rule)
    PROVE  /\ Len(Sorted(rules)) = Len(rules) /\ Len(rules) \in Nat
           /\ \A k \in 1..Len(rules) :
                 Place(rules, k) \in DOMAIN rules /\ Sorted(rules)[k] = rules[Place(rules, k)]
           /\ \A k, m \in 1..Len(rules) : k < m => Precedes(rules, Place(rules, k), Place(rules, m))
           /\ \A i \in DOMAIN rules : \E k \in 1..Len(rules) : Place(rules, k) = i
  <1>1. DOMAIN rules = 1..Len(rules) /\ Len(rules) \in Nat
    OBVIOUS
  <1>2. Sorted(rules) = [k \in 1..Len(rules) |-> rules[Place(rules, k)]]
    BY <1>1 DEF Sorted, Place, Before
  <1>3. \A k \in 1..Len(rules) : Place(rules, k) \in DOMAIN rules
    BY <1>1, PlacesExist
  <1>4. Sorted(rules) \in Seq(Rule) /\ Len(Sorted(rules)) = Len(rules)
    BY <1>1, <1>2, <1>3
  <1>5. ASSUME NEW k \in 1..Len(rules), NEW m \in 1..Len(rules), k < m
        PROVE  Precedes(rules, Place(rules, k), Place(rules, m))
    <2>1. /\ Cardinality(Before(rules, Place(rules, k))) = k - 1
          /\ Cardinality(Before(rules, Place(rules, m))) = m - 1
          /\ Place(rules, k) \in DOMAIN rules /\ Place(rules, m) \in DOMAIN rules
      BY <1>1, PlacesExist
    <2>2. Place(rules, k) # Place(rules, m)
      BY <1>5, <2>1
    <2>3. ~Precedes(rules, Place(rules, m), Place(rules, k))
      BY <1>5, <2>1, RankGrows
    <2> QED
      BY <2>1, <2>2, <2>3, RulesOrdered
  <1>6. ASSUME NEW i \in DOMAIN rules
        PROVE  \E k \in 1..Len(rules) : Place(rules, k) = i
    <2> DEFINE k == Cardinality(Before(rules, i)) + 1
    <2>1. k \in 1..Len(rules) /\ k \in DOMAIN rules
      BY <1>1, RankGrows
    <2>2. Place(rules, k) \in DOMAIN rules
          /\ Cardinality(Before(rules, Place(rules, k))) = Cardinality(Before(rules, i))
      BY <2>1, PlacesExist, RankGrows
    <2>3. Place(rules, k) = i
      BY <2>2, RankGrows, RulesOrdered
    <2> QED
      BY <2>1, <2>3
  <1> QED
    BY <1>1, <1>2, <1>3, <1>4, <1>5, <1>6

----------------------------------------------------------------------------
(* The decision of a policy.                                                *)

Found(rules, q) == {i \in DOMAIN rules : MatchOutcome(rules[i], q) # "no"}
Best(rules, q) == {i \in Found(rules, q) : \A j \in Found(rules, q) \ {i} : Precedes(rules, i, j)}

Verdict(rule, q) ==
    IF MatchOutcome(rule, q) = "guard" THEN Blocked
    ELSE [decision |-> rule.decision, severity |-> rule.severity]

\* evaluate: without a match the default decides, otherwise the matching rule
\* no other one precedes, and there is exactly one.
LEMMA EvaluateDecides ==
    ASSUME NEW policy, policy.rules \in Seq(Rule), NEW q
    PROVE  /\ Found(policy.rules, q) = {} =>
                 Evaluate(policy, q) = [decision |-> policy.default, severity |-> "low"]
           /\ Found(policy.rules, q) # {} =>
                 \E i \in Best(policy.rules, q) :
                    /\ \A j \in Best(policy.rules, q) : j = i
                    /\ Evaluate(policy, q) = Verdict(policy.rules[i], q)
  <1> DEFINE rules == policy.rules
             n     == Len(rules)
             I     == {k \in 1..n : MatchOutcome(Sorted(rules)[k], q) # "no"}
             hit   == IF I # {} THEN Min(I) ELSE 0
  <1>1. rules \in Seq(Rule) /\ n \in Nat
    OBVIOUS
  <1> HIDE DEF rules
  <1>2. /\ Len(Sorted(rules)) = n
        /\ \A k \in 1..n : Place(rules, k) \in DOMAIN rules /\ Sorted(rules)[k] = rules[Place(rules, k)]
        /\ \A k, m \in 1..n : k < m => Precedes(rules, Place(rules, k), Place(rules, m))
        /\ \A i \in DOMAIN rules : \E k \in 1..n : Place(rules, k) = i
    BY <1>1, SortedRules
  <1>3. Evaluate(policy, q) =
            IF hit = 0 THEN [decision |-> policy.default, severity |-> "low"]
            ELSE IF MatchOutcome(Sorted(rules)[hit], q) = "guard" THEN [decision |-> "block", severity |-> "high"]
            ELSE [decision |-> Sorted(rules)[hit].decision, severity |-> Sorted(rules)[hit].severity]
    BY <1>2 DEF Evaluate, SelectInSeq, rules
  <1> HIDE DEF n, hit
  <1>4. CASE I = {}
    <2>1. Found(rules, q) = {}
      BY <1>2, <1>4 DEF Found
    <2>2. hit = 0
      BY <1>4 DEF hit
    <2> QED
      BY <1>3, <2>1, <2>2 DEF rules
  <1>5. CASE I # {}
    <2>1. I \in SUBSET Nat
      BY <1>1
    <2>2. hit \in I /\ \A k \in I : hit <= k
      BY <1>5, <2>1, MinNat DEF hit
    <2>3. hit \in 1..n /\ hit # 0
      BY <1>1, <2>2
    <2> DEFINE i == Place(rules, hit)
    <2>4. i \in DOMAIN rules /\ Sorted(rules)[hit] = rules[i] /\ MatchOutcome(rules[i], q) # "no"
      BY <1>2, <2>2, <2>3
    <2> HIDE DEF i
    <2>5. ASSUME NEW j \in Found(rules, q), j # i
          PROVE  Precedes(rules, i, j)
      <3>1. PICK k \in 1..n : Place(rules, k) = j
        BY <1>2 DEF Found
      <3>2. k \in I
        BY <1>2, <3>1 DEF Found
      <3>3. hit < k
        BY <1>1, <2>2, <2>3, <2>5, <3>1, <3>2 DEF i
      <3> QED
        BY <1>2, <2>3, <3>1, <3>3 DEF i
    <2>6. i \in Best(rules, q) /\ i \in Found(rules, q)
      BY <2>4, <2>5 DEF Best, Found
    <2>7. \A j \in Best(rules, q) : j = i
      BY <1>1, <2>6, RulesOrdered DEF Best, Found
    <2> QED
      BY <1>3, <2>3, <2>4, <2>6, <2>7 DEF rules, Verdict, Blocked
  <1> QED
    BY <1>4, <1>5

\* The service starts only with a policy that was accepted.
LoadedInv ==
    /\ setup \in Setups
    /\ serving = "up" => LoadAccepted(setup.source, setup.policy, setup.mode)

LEMMA LoadedInit == CallsInit => LoadedInv
  BY DEF CallsInit, LoadedInv

LEMMA LoadedNext == LoadedInv /\ [CallsNext]_callVars => LoadedInv'
  BY DEF LoadedInv, CallsNext, callVars, Load, Register, Begin, ThreadStep, StageRaises, Ask, Score,
         RecordTrace, TrimHistory, EvaluatePolicy, LogDecision, FailClosed, Execute, EngineSame

LEMMA PolicyDecides ==
    ASSUME NEW policy, policy.rules \in Seq(Rule), NEW q, NEW production \in BOOLEAN,
           production => /\ policy.default \notin {"allow", "simulate"}
                         /\ \A i \in DOMAIN policy.rules :
                               CatchAll(policy.rules[i]) => policy.rules[i].decision \notin {"allow", "simulate"}
    PROVE  LET d == Evaluate(policy, q).decision
           IN  /\ Found(policy.rules, q) = {} => d = policy.default
               /\ \A i \in Best(policy.rules, q) :
                     d = policy.rules[i].decision \/ (MatchOutcome(policy.rules[i], q) = "guard" /\ d = "block")
               /\ production /\ d \in {"allow", "simulate"} =>
                     \E i \in Best(policy.rules, q) : ~CatchAll(policy.rules[i])
  <1> DEFINE d == Evaluate(policy, q).decision
  <1>1. CASE Found(policy.rules, q) = {}
    <2>1. d = policy.default /\ Best(policy.rules, q) = {}
      BY <1>1, EvaluateDecides DEF Best
    <2> QED
      BY <2>1
  <1>2. CASE Found(policy.rules, q) # {}
    <2>1. PICK i \in Best(policy.rules, q) :
              /\ \A j \in Best(policy.rules, q) : j = i
              /\ Evaluate(policy, q) = Verdict(policy.rules[i], q)
      BY <1>2, EvaluateDecides
    <2>2. /\ MatchOutcome(policy.rules[i], q) = "guard" => d = "block"
          /\ MatchOutcome(policy.rules[i], q) # "guard" => d = policy.rules[i].decision
      BY <2>1 DEF Verdict, Blocked
    <2>3. i \in DOMAIN policy.rules
      BY <2>1 DEF Best, Found
    <2> HIDE DEF d
    <2>4. \A j \in Best(policy.rules, q) :
             d = policy.rules[j].decision \/ (MatchOutcome(policy.rules[j], q) = "guard" /\ d = "block")
      BY <2>1, <2>2
    <2>5. production /\ d \in {"allow", "simulate"} => ~CatchAll(policy.rules[i])
      BY <2>2, <2>3
    <2> QED
      BY <1>2, <2>1, <2>4, <2>5 DEF d
  <1> QED
    BY <1>1, <1>2

LEMMA LoadedDecides == LoadedInv => LoadedPolicyDecides
  <1> SUFFICES ASSUME LoadedInv, serving = "up", NEW r \in Requests \cup Questions,
                      NEW score \in {10, 45, 84, 85, 100}
               PROVE  LET q     == [facts |-> r.facts, bytes |-> r.bytes, level |-> RiskLevel(score), score |-> score]
                          rules == setup.policy.rules
                          found == {i \in DOMAIN rules : MatchOutcome(rules[i], q) # "no"}
                          best  == {i \in found : \A j \in found \ {i} : Precedes(rules, i, j)}
                          d     == Evaluate(setup.policy, q).decision
                      IN  /\ found = {} => d = setup.policy.default
                          /\ \A i \in best : d = rules[i].decision \/ (MatchOutcome(rules[i], q) = "guard" /\ d = "block")
                          /\ setup.mode = "production_safe" /\ d \in {"allow", "simulate"} =>
                                \E i \in best : ~CatchAll(rules[i])
    BY DEF LoadedPolicyDecides
  <1> DEFINE q          == [facts |-> r.facts, bytes |-> r.bytes, level |-> RiskLevel(score), score |-> score]
             production == (setup.mode = "production_safe")
             policy     == setup.policy
             rules      == policy.rules
             d          == Evaluate(policy, q).decision
  <1>1. rules \in Seq(Rule)
    BY CallsAssumption DEF LoadedInv
  <1>2. production =>
            /\ policy.default \notin {"allow", "simulate"}
            /\ \A i \in DOMAIN rules : CatchAll(rules[i]) => rules[i].decision \notin {"allow", "simulate"}
    BY DEF LoadedInv, LoadAccepted, SchemaAccepted, TerminalAccepted
  <1>3. production \in BOOLEAN
    OBVIOUS
  <1> HIDE DEF q, production, policy
  <1>4. /\ Found(rules, q) = {} => d = policy.default
        /\ \A i \in Best(rules, q) : d = rules[i].decision \/ (MatchOutcome(rules[i], q) = "guard" /\ d = "block")
        /\ production /\ d \in {"allow", "simulate"} => \E i \in Best(rules, q) : ~CatchAll(rules[i])
    BY <1>1, <1>2, <1>3, PolicyDecides
  <1> QED
    BY <1>4 DEF Best, Found, q, production, policy

\* The policy of a started service decides every request by precedence, for a
\* policy of any number of rules, and the production-safe mode fails closed.
THEOREM PoliciesDecide == CallsSpec => []LoadedPolicyDecides
  BY LoadedInit, LoadedNext, LoadedDecides, PTL DEF CallsSpec

----------------------------------------------------------------------------
(* The bundled production policy.                                           *)

LEMMA ProductionRules ==
    LET rules == ProductionPolicy.rules
    IN  /\ ProductionPolicy.default # "allow"
        /\ \A i \in DOMAIN rules : rules[i].decision # "allow" /\ (i # 1 => rules[i].priority > 5)
        /\ 1 \in DOMAIN rules
        /\ rules[1].priority = 5 /\ rules[1].decision = "block"
        /\ rules[1].before = {} /\ rules[1].search = {} /\ rules[1].unless = {} /\ rules[1].after = {}
        /\ rules[1].level = "critical" /\ rules[1].score = 0
  <1> DEFINE rules == ProductionPolicy.rules
  <1>1. DOMAIN rules = 1..7 /\ Len(rules) = 7
    BY DEF ProductionPolicy
  <1>2. rules[1].priority = 5 /\ rules[1].decision = "block"
        /\ rules[1].before = {} /\ rules[1].search = {} /\ rules[1].unless = {} /\ rules[1].after = {}
        /\ rules[1].level = "critical" /\ rules[1].score = 0
    BY DEF ProductionPolicy, AnyRule, NoScore
  <1>3. rules[2].priority = 10 /\ rules[2].decision = "block"
    BY DEF ProductionPolicy, AnyRule
  <1>4. rules[3].priority = 20 /\ rules[3].decision = "block"
    BY DEF ProductionPolicy, AnyRule
  <1>5. rules[4].priority = 30 /\ rules[4].decision = "block"
    BY DEF ProductionPolicy, AnyRule
  <1>6. rules[5].priority = 40 /\ rules[5].decision = "require_approval"
    BY DEF ProductionPolicy, AnyRule
  <1>7. rules[6].priority = 50 /\ rules[6].decision = "simulate"
    BY DEF ProductionPolicy, AnyRule
  <1>8. rules[7].priority = 1000 /\ rules[7].decision = "require_approval"
    BY DEF ProductionPolicy, AnyRule
  <1>9. ProductionPolicy.default # "allow"
    BY DEF ProductionPolicy
  <1> HIDE DEF rules
  <1>10. \A i \in 1..7 : i = 1 \/ i = 2 \/ i = 3 \/ i = 4 \/ i = 5 \/ i = 6 \/ i = 7
    OBVIOUS
  <1>11. ASSUME NEW i \in 1..7
         PROVE  rules[i].decision # "allow" /\ (i # 1 => rules[i].priority > 5)
    BY <1>2, <1>3, <1>4, <1>5, <1>6, <1>7, <1>8, <1>10
  <1>12. 1 \in DOMAIN rules
    BY <1>1
  <1> QED
    BY <1>1, <1>2, <1>9, <1>11, <1>12 DEF rules

\* Under the production policy nothing is simply allowed, and what is critical
\* is blocked.
LEMMA ProductionDecides ==
    ASSUME ProductionPolicy.rules \in Seq(Rule), NEW q
    PROVE  /\ Evaluate(ProductionPolicy, q).decision # "allow"
           /\ q.level = "critical" /\ q.score \in Nat => Evaluate(ProductionPolicy, q).decision = "block"
  <1> DEFINE rules == ProductionPolicy.rules
             d     == Evaluate(ProductionPolicy, q).decision
  <1>0. /\ ProductionPolicy.default # "allow"
        /\ \A i \in DOMAIN rules : rules[i].decision # "allow" /\ (i # 1 => rules[i].priority > 5)
        /\ 1 \in DOMAIN rules
        /\ rules[1].priority = 5 /\ rules[1].decision = "block"
        /\ rules[1].before = {} /\ rules[1].search = {} /\ rules[1].unless = {} /\ rules[1].after = {}
        /\ rules[1].level = "critical" /\ rules[1].score = 0
    BY ProductionRules
  <1>1. CASE Found(rules, q) = {}
    <2>1. d = ProductionPolicy.default
      BY <1>1, EvaluateDecides
    <2>2. ASSUME q.level = "critical", q.score \in Nat
          PROVE  FALSE
      BY <1>0, <1>1, <2>2 DEF Found, MatchOutcome, SearchRaises
    <2> QED
      BY <1>0, <2>1, <2>2
  <1>2. CASE Found(rules, q) # {}
    <2>1. PICK i \in Best(rules, q) :
              /\ \A j \in Best(rules, q) : j = i
              /\ Evaluate(ProductionPolicy, q) = Verdict(rules[i], q)
      BY <1>2, EvaluateDecides
    <2>2. /\ MatchOutcome(rules[i], q) = "guard" => d = "block"
          /\ MatchOutcome(rules[i], q) # "guard" => d = rules[i].decision
      BY <2>1 DEF Verdict, Blocked
    <2>3. i \in DOMAIN rules
      BY <2>1 DEF Best, Found
    <2>4. ASSUME q.level = "critical", q.score \in Nat
          PROVE  d = "block"
      <3>1. 1 \in Found(rules, q)
        BY <1>0, <2>4 DEF Found, MatchOutcome, SearchRaises
      <3>2. rules[i].priority \in Nat
        BY <2>3, PriorityIsNat
      <3>3. i = 1
        BY <1>0, <2>1, <2>3, <3>1, <3>2 DEF Best, Precedes
      <3> QED
        BY <1>0, <2>2, <3>3
    <2> QED
      BY <1>0, <2>2, <2>3, <2>4
  <1> QED
    BY <1>1, <1>2

----------------------------------------------------------------------------
(* Types.                                                                   *)

Pcs == {"idle", "begun", "recording", "trimming", "assessed", "asking", "auditing", "executing", "failing", "done", "raised"}
Verdicts == [decision: Decisions \cup {"none"}, severity: Severities]
AnswersGiven == [status: {"none", "approved", "rejected", "pending"}, by: {Nobody, "system"} \cup {a.by : a \in Answers}]
Outcomes == [status: {"none", "skipped", "simulated", "executed", "failed"}, executed: BOOLEAN]
CallState ==
    [pc: Pcs, req: Requests, score: Nat, surplus: Nat, asked: Verdicts, answer: AnswersGiven,
     failed: BOOLEAN, out: Outcomes, known: Nat]
Counts == [all: Nat, risky: Nat]

CallsTyped ==
    /\ setup \in Setups
    /\ history \in [Traces -> Seq(Nat)]
    /\ ledger \in [Traces -> Counts]
    /\ call \in [Calls -> CallState]
    /\ \A c \in Calls : call[c].pc \in {"recording", "trimming"} => Trace(c) # NoTrace

LEMMA TraceType ==
    ASSUME NEW r \in Requests
    PROVE  TraceIdentity(r.ids) \in Traces \cup {NoTrace}
  <1> DEFINE ids   == r.ids
             given == {i \in DOMAIN ids : ids[i] # NoTrace}
  <1>1. ids \in Seq(Traces \cup {NoTrace})
    BY CallsAssumption
  <1>2. given \in SUBSET Nat
    BY <1>1
  <1>3. given # {} => Min(given) \in given
    BY <1>2, MinNat
  <1>4. \A i \in DOMAIN ids : ids[i] \in Traces \cup {NoTrace}
    BY <1>1
  <1> HIDE DEF ids
  <1> QED
    BY <1>3, <1>4 DEF TraceIdentity, ids

LEMMA ScoreType ==
    ASSUME NEW t, NEW h, NEW n \in 0..100
    PROVE  FinalScore(t, h, n) \in Nat
  <1>1. CumulativeScore(t, h, n) \in {0, 20, 45}
    BY DEF CumulativeScore
  <1> QED
    BY <1>1 DEF FinalScore, CappedScore

LEMMA VerdictType ==
    ASSUME NEW policy, policy.rules \in Seq(Rule), policy.default \in Decisions, NEW q
    PROVE  Evaluate(policy, q) \in Verdicts /\ Evaluate(policy, q).decision # "none"
  <1> DEFINE rules == policy.rules
  <1>1. CASE Found(rules, q) = {}
    <2>1. Evaluate(policy, q) = [decision |-> policy.default, severity |-> "low"]
      BY <1>1, EvaluateDecides
    <2> QED
      BY <2>1 DEF Verdicts, Decisions, Severities
  <1>2. CASE Found(rules, q) # {}
    <2>1. PICK i \in Best(rules, q) :
              /\ \A j \in Best(rules, q) : j = i
              /\ Evaluate(policy, q) = Verdict(rules[i], q)
      BY <1>2, EvaluateDecides
    <2>2. rules[i] \in Rule
      BY <2>1 DEF Best, Found
    <2>3. rules[i].decision \in Decisions /\ rules[i].severity \in Severities
      BY <2>2 DEF Rule
    <2> QED
      BY <2>1, <2>3 DEF Verdict, Blocked, Verdicts, Decisions, Severities
  <1> QED
    BY <1>1, <1>2

LEMMA TypedInit == CallsInit => CallsTyped
  <1> SUFFICES ASSUME CallsInit PROVE CallsTyped
    OBVIOUS
  <1>1. (CHOOSE r \in Requests : TRUE) \in Requests
    BY CallsAssumption
  <1>2. Fresh \in CallState /\ Fresh.pc = "idle"
    BY <1>1 DEF Fresh, CallState, Pcs, Verdicts, AnswersGiven, NoAnswer, Outcomes, Severities
  <1> QED
    BY <1>2 DEF CallsInit, CallsTyped, Counts

\* What an action does to a call: everything else stays.
Steps(c, k) == call' = [call EXCEPT ![c] = k]

\* A call's step keeps the types if its new state has the type.
LEMMA TypedStep ==
    ASSUME CallsTyped, NEW c \in Calls, NEW k \in CallState, Steps(c, k), UNCHANGED setup,
           history' \in [Traces -> Seq(Nat)], ledger' \in [Traces -> Counts],
           k.pc \in {"recording", "trimming"} => TraceIdentity(k.req.ids) # NoTrace
    PROVE  CallsTyped'
  <1>1. call' \in [Calls -> CallState] /\ call'[c] = k /\ \A d \in Calls \ {c} : call'[d] = call[d]
    BY DEF CallsTyped, Steps
  <1>2. \A d \in Calls : call'[d].pc \in {"recording", "trimming"} => TraceIdentity(call'[d].req.ids) # NoTrace
    BY <1>1 DEF CallsTyped, Trace
  <1> QED
    BY <1>1, <1>2 DEF CallsTyped, Trace

LEMMA TypedCall ==
    ASSUME CallsTyped, NEW c \in Calls
    PROVE  /\ call[c] \in CallState
           /\ call[c].req \in Requests
           /\ Trace(c) \in Traces \cup {NoTrace}
           /\ call[c].pc \in {"recording", "trimming"} => Trace(c) \in Traces
           /\ Past(c) \in Seq(Nat)
           /\ setup \in Setups
  <1>1. call[c] \in CallState /\ setup \in Setups
    BY DEF CallsTyped
  <1>2. call[c].req \in Requests
    BY <1>1 DEF CallState
  <1>3. Trace(c) \in Traces \cup {NoTrace}
    BY <1>2, TraceType DEF Trace
  <1>4. Past(c) \in Seq(Nat)
    BY <1>3 DEF Past, CallsTyped
  <1> QED
    BY <1>1, <1>2, <1>3, <1>4 DEF CallsTyped

LEMMA TypedBegin ==
    ASSUME CallsTyped, NEW c \in Calls, Begin(c)
    PROVE  CallsTyped'
  <1>1. PICK r \in Requests :
            call' = [call EXCEPT ![c] = [@ EXCEPT !.pc = "begun", !.req = r, !.known = KnownRisky(TraceIdentity(r.ids))]]
    BY DEF Begin
  <1>2. KnownRisky(TraceIdentity(r.ids)) \in Nat
    BY TraceType DEF KnownRisky, CallsTyped, Counts
  <1> DEFINE k == [call[c] EXCEPT !.pc = "begun", !.req = r, !.known = KnownRisky(TraceIdentity(r.ids))]
  <1>3. k \in CallState /\ k.pc = "begun"
    BY <1>2, TypedCall DEF CallState, Pcs
  <1>4. Steps(c, k)
    BY <1>1 DEF Steps, CallsTyped
  <1>5. UNCHANGED <<setup, history, ledger>>
    BY DEF Begin, EngineSame
  <1> HIDE DEF k
  <1> QED
    BY <1>3, <1>4, <1>5, TypedStep DEF CallsTyped

LEMMA TypedScore ==
    ASSUME CallsTyped, NEW c \in Calls, Score(c)
    PROVE  CallsTyped'
  <1> DEFINE s == FinalScore(Trace(c), Past(c), PreliminaryScore(call[c].req.risk))
             k == [call[c] EXCEPT !.pc = IF Trace(c) = NoTrace THEN "assessed" ELSE "recording", !.score = s]
  <1>1. s \in Nat
    BY TypedCall, ScoresAssumption, ScoreType
  <1>2. Steps(c, k)
    BY DEF Score, Steps
  <1> HIDE DEF s
  <1>3. /\ k \in CallState /\ k.req = call[c].req
        /\ k.pc = IF Trace(c) = NoTrace THEN "assessed" ELSE "recording"
    BY <1>1, TypedCall DEF CallState, Pcs
  <1>4. UNCHANGED <<setup, history, ledger>>
    BY DEF Score, EngineSame
  <1>5. k.pc \in {"recording", "trimming"} => TraceIdentity(k.req.ids) # NoTrace
    BY <1>3 DEF Trace
  <1> HIDE DEF k
  <1> QED
    BY <1>2, <1>3, <1>4, <1>5, TypedStep DEF CallsTyped

LEMMA TypedRecord ==
    ASSUME CallsTyped, NEW c \in Calls, RecordTrace(c)
    PROVE  CallsTyped'
  <1> DEFINE n == Len(Past(c)) + 1
             t == Trace(c)
             k == [call[c] EXCEPT !.pc = IF n > HistoryLimit THEN "trimming" ELSE "assessed",
                                  !.surplus = IF n > HistoryLimit THEN n - HistoryLimit ELSE 0]
  <1>1. t \in Traces /\ call[c].pc = "recording" /\ n \in Nat
    BY TypedCall DEF RecordTrace, AfterRecording, At
  <1>2. Steps(c, k)
    BY DEF RecordTrace, AfterRecording, Steps
  <1>3. history' \in [Traces -> Seq(Nat)]
    <2>1. history' = [history EXCEPT ![t] = Append(history[t], call[c].score)]
      BY DEF RecordTrace
    <2>2. call[c].score \in Nat /\ history[t] \in Seq(Nat)
      BY <1>1, TypedCall DEF CallState, CallsTyped
    <2>3. Append(history[t], call[c].score) \in Seq(Nat)
      BY <2>2
    <2> QED
      BY <1>1, <2>1, <2>3 DEF CallsTyped
  <1>4. ledger' \in [Traces -> Counts]
    <2> DEFINE risky == IF call[c].score >= MediumThreshold THEN ledger[t].risky + 1 ELSE ledger[t].risky
    <2>1. ledger' = [ledger EXCEPT ![t].all = ledger[t].all + 1, ![t].risky = risky]
      BY DEF RecordTrace, Assessed
    <2>2. ledger[t] \in Counts
      BY <1>1 DEF CallsTyped
    <2>3. ledger[t].all + 1 \in Nat /\ risky \in Nat
      BY <2>2 DEF Counts
    <2> HIDE DEF risky
    <2>4. [ledger[t] EXCEPT !.all = ledger[t].all + 1, !.risky = risky] \in Counts
      BY <2>2, <2>3 DEF Counts
    <2> QED
      BY <1>1, <2>1, <2>4 DEF CallsTyped
  <1> HIDE DEF n, t
  <1>5. k \in CallState /\ k.req = call[c].req
    <2> DEFINE pc      == IF n > HistoryLimit THEN "trimming" ELSE "assessed"
               surplus == IF n > HistoryLimit THEN n - HistoryLimit ELSE 0
    <2>1. pc \in Pcs /\ surplus \in Nat
      BY <1>1, RiskAssumption DEF Pcs
    <2> HIDE DEF pc, surplus
    <2>2. [call[c] EXCEPT !.pc = pc, !.surplus = surplus] \in CallState
          /\ [call[c] EXCEPT !.pc = pc, !.surplus = surplus].req = call[c].req
      BY <2>1, TypedCall DEF CallState
    <2> QED
      BY <2>2 DEF pc, surplus
  <1>6. UNCHANGED setup
    BY DEF RecordTrace, EngineSame
  <1>7. TraceIdentity(k.req.ids) # NoTrace
    BY <1>1, <1>5, RiskAssumption DEF t, Trace
  <1> HIDE DEF k
  <1> QED
    BY <1>2, <1>3, <1>4, <1>5, <1>6, <1>7, TypedStep

LEMMA TypedTrim ==
    ASSUME CallsTyped, NEW c \in Calls, TrimHistory(c)
    PROVE  CallsTyped'
  <1> DEFINE t == Trace(c)
             k == [call[c] EXCEPT !.pc = "assessed"]
  <1>1. t \in Traces
    BY TypedCall DEF TrimHistory, Go, At
  <1>2. Steps(c, k)
    BY DEF TrimHistory, Go, Steps
  <1>3. k \in CallState /\ k.pc = "assessed"
    BY TypedCall DEF CallState, Pcs
  <1>4. history' \in [Traces -> Seq(Nat)]
    <2> DEFINE h == history[t]
               m == call[c].surplus
    <2>1. history' = [history EXCEPT ![t] = DropFirst(h, m)]
      BY DEF TrimHistory
    <2>2. m \in Nat /\ h \in Seq(Nat)
      BY <1>1, TypedCall DEF CallState, CallsTyped
    <2> HIDE DEF h, m
    <2>3. DropFirst(h, m) \in Seq(Nat)
      BY <2>2 DEF DropFirst
    <2> QED
      BY <1>1, <2>1, <2>3 DEF CallsTyped
  <1>5. UNCHANGED <<setup, ledger>>
    BY DEF TrimHistory, EngineSame
  <1> HIDE DEF k
  <1> QED
    BY <1>2, <1>3, <1>4, <1>5, TypedStep DEF CallsTyped

LEMMA TypedEvaluate ==
    ASSUME CallsTyped, NEW c \in Calls, EvaluatePolicy(c)
    PROVE  CallsTyped'
  <1> DEFINE d == Evaluate(setup.policy, Question(c))
             p == IF d.decision = "require_approval" /\ call[c].req.kind = "intercept" THEN "asking" ELSE "auditing"
             k == [call[c] EXCEPT !.asked = d, !.pc = p]
  <1>1. d \in Verdicts
    BY TypedCall, CallsAssumption, VerdictType
  <1>2. Steps(c, k)
    BY DEF EvaluatePolicy, Steps
  <1> HIDE DEF d
  <1>3. p \in {"asking", "auditing"}
    OBVIOUS
  <1> HIDE DEF p
  <1>4. k \in CallState /\ k.pc = p
    BY <1>1, <1>3, TypedCall DEF CallState, Pcs
  <1>5. UNCHANGED <<setup, history, ledger>>
    BY DEF EvaluatePolicy, EngineSame
  <1> HIDE DEF k
  <1> QED
    BY <1>2, <1>3, <1>4, <1>5, TypedStep DEF CallsTyped

LEMMA TypedRaises ==
    ASSUME CallsTyped, NEW c \in Calls, StageRaises(c)
    PROVE  CallsTyped'
  <1> DEFINE p == IF call[c].req.kind = "evaluate" THEN "raised" ELSE "failing"
             k == [call[c] EXCEPT !.pc = p, !.failed = TRUE]
  <1>1. Steps(c, k) /\ UNCHANGED <<setup, history, ledger>>
    BY DEF StageRaises, Steps, EngineSame
  <1>2. p \in {"raised", "failing"}
    OBVIOUS
  <1> HIDE DEF p
  <1>3. k \in CallState /\ k.pc = p
    BY <1>2, TypedCall DEF CallState, Pcs
  <1> HIDE DEF k
  <1> QED
    BY <1>1, <1>2, <1>3, TypedStep DEF CallsTyped

\* The states a call may have when its resolver has answered.
Answered(c, answer) == [call[c] EXCEPT !.pc = "auditing", !.answer = answer]
Misanswered(c) == [call[c] EXCEPT !.pc = "failing", !.failed = TRUE]
SystemRejects == [status |-> "rejected", by |-> "system"]

LEMMA AskCases ==
    ASSUME NEW c \in Calls, Ask(c)
    PROVE  /\ call[c].pc = "asking" /\ UNCHANGED <<setup, history, ledger, events, ran>>
           /\ \/ Steps(c, Answered(c, SystemRejects))
              \/ \E a \in Answers : Authorized(c, a) /\ Steps(c, Answered(c, [status |-> a.status, by |-> a.by]))
              \/ Steps(c, Misanswered(c))
  <1> USE DEF Ask, Steps, Answered, Misanswered, SystemRejects
  <1>1. call[c].pc = "asking" /\ UNCHANGED <<setup, history, ledger, events, ran>>
    BY DEF At, EngineSame
  <1>2. ASSUME NEW a \in Answers,
               call' = [call EXCEPT ![c].pc = "auditing",
                              ![c].answer = IF Authorized(c, a) THEN [status |-> a.status, by |-> a.by]
                                            ELSE [status |-> "rejected", by |-> "system"]]
        PROVE  \/ Steps(c, Answered(c, SystemRejects))
               \/ Authorized(c, a) /\ Steps(c, Answered(c, [status |-> a.status, by |-> a.by]))
    BY <1>2
  <1> QED
    BY <1>1, <1>2

LEMMA AnswerTypes ==
    ASSUME CallsTyped, NEW c \in Calls, NEW answer \in AnswersGiven
    PROVE  Answered(c, answer) \in CallState /\ Misanswered(c) \in CallState
  BY TypedCall DEF Answered, Misanswered, CallState, Pcs

LEMMA TypedAsk ==
    ASSUME CallsTyped, NEW c \in Calls, Ask(c)
    PROVE  CallsTyped'
  <1>1. SystemRejects \in AnswersGiven /\ \A a \in Answers : [status |-> a.status, by |-> a.by] \in AnswersGiven
    BY CallsAssumption DEF SystemRejects, AnswersGiven
  <1>2. PICK k \in CallState : Steps(c, k) /\ k.pc \in {"auditing", "failing"}
    <2>1. \A answer \in AnswersGiven : Answered(c, answer).pc = "auditing" /\ Misanswered(c).pc = "failing"
      BY TypedCall DEF Answered, Misanswered, CallState
    <2> QED
      BY <1>1, <2>1, AskCases, AnswerTypes
  <1> QED
    BY <1>2, AskCases, TypedStep DEF CallsTyped

LEMMA TypedLog ==
    ASSUME CallsTyped, NEW c \in Calls, LogDecision(c)
    PROVE  CallsTyped'
  <1>1. PICK p \in {"done", "executing", "raised"} : call' = [call EXCEPT ![c].pc = p]
    BY DEF LogDecision, Go
  <1> DEFINE k == [call[c] EXCEPT !.pc = p]
  <1>2. Steps(c, k)
    BY <1>1 DEF Steps
  <1>3. k \in CallState /\ k.pc = p
    BY TypedCall DEF CallState, Pcs
  <1> HIDE DEF k
  <1>4. UNCHANGED <<setup, history, ledger>>
    BY DEF LogDecision, EngineSame
  <1> QED
    BY <1>2, <1>3, <1>4, TypedStep DEF CallsTyped

\* The state of a call that failed closed.
Closed(c) == [call[c] EXCEPT !.pc = "done", !.asked = Blocked, !.answer = NoAnswer,
                             !.out = [status |-> "skipped", executed |-> FALSE]]

LEMMA TypedFail ==
    ASSUME CallsTyped, NEW c \in Calls, FailClosed(c)
    PROVE  CallsTyped'
  <1>1. Steps(c, Closed(c)) /\ UNCHANGED <<setup, history, ledger>>
    BY DEF FailClosed, Steps, EngineSame, Closed
  <1>2. Closed(c) \in CallState /\ Closed(c).pc = "done"
    <2>1. Blocked \in Verdicts /\ NoAnswer \in AnswersGiven /\ [status |-> "skipped", executed |-> FALSE] \in Outcomes
      BY DEF Blocked, Verdicts, Decisions, Severities, NoAnswer, AnswersGiven, Outcomes
    <2> QED
      BY <2>1, TypedCall DEF CallState, Pcs, Closed
  <1> QED
    BY <1>1, <1>2, TypedStep DEF CallsTyped

Finished(c, out) == [call[c] EXCEPT !.pc = "done", !.out = out]

\* What executing a call can do: nothing, or call the handler if it may.
LEMMA ExecuteCases ==
    ASSUME NEW c \in Calls, Execute(c)
    PROVE  /\ call[c].pc = "executing" /\ UNCHANGED <<setup, history, ledger, events>>
           /\ \E out \in Outcomes :
                 /\ Steps(c, Finished(c, out))
                 /\ \/ ~out.executed /\ ran' = ran
                    \/ out.executed /\ MayExecute(c) /\ ran' = ran \cup {c}
  <1>1. call[c].pc = "executing" /\ UNCHANGED <<setup, history, ledger, events>>
    BY DEF Execute, At, EngineSame
  <1>2. NotExecuted(c) \in Outcomes /\ ~NotExecuted(c).executed
    BY DEF NotExecuted, Outcomes
  <1>3. /\ [status |-> "failed", executed |-> FALSE] \in Outcomes
        /\ \A s \in {"executed", "failed"} : [status |-> s, executed |-> TRUE] \in Outcomes
    BY DEF Outcomes
  <1>4. CASE ~MayExecute(c)
    <2>1. Steps(c, Finished(c, NotExecuted(c))) /\ ran' = ran
      BY <1>4 DEF Execute, Steps, Finished
    <2> QED
      BY <1>1, <1>2, <2>1
  <1>5. CASE MayExecute(c) /\ call[c].req.name \notin tools
    <2>1. Steps(c, Finished(c, [status |-> "failed", executed |-> FALSE])) /\ ran' = ran
      BY <1>5 DEF Execute, Steps, Finished
    <2> QED
      BY <1>1, <1>3, <2>1
  <1>6. CASE MayExecute(c) /\ call[c].req.name \in tools
    <2>1. PICK s \in {"executed", "failed"} :
              call' = [call EXCEPT ![c].pc = "done", ![c].out = [status |-> s, executed |-> TRUE]]
      BY <1>6 DEF Execute
    <2>2. Steps(c, Finished(c, [status |-> s, executed |-> TRUE]))
      BY <2>1 DEF Steps, Finished
    <2>3. ran' = ran \cup {c}
      BY <1>6 DEF Execute
    <2> QED
      BY <1>1, <1>3, <1>6, <2>2, <2>3
  <1> QED
    BY <1>4, <1>5, <1>6

LEMMA TypedExecute ==
    ASSUME CallsTyped, NEW c \in Calls, Execute(c)
    PROVE  CallsTyped'
  <1>1. PICK out \in Outcomes : Steps(c, Finished(c, out))
    BY ExecuteCases
  <1>2. Finished(c, out) \in CallState /\ Finished(c, out).pc = "done"
    BY TypedCall DEF Finished, CallState, Pcs
  <1> QED
    BY <1>1, <1>2, ExecuteCases, TypedStep DEF CallsTyped

LEMMA TypedNext == CallsTyped /\ [CallsNext]_callVars => CallsTyped'
  <1> SUFFICES ASSUME CallsTyped, [CallsNext]_callVars
               PROVE  CallsTyped'
    OBVIOUS
  <1>1. ASSUME Load \/ (\E t \in Registrable : Register(t)) \/ UNCHANGED callVars
        PROVE  CallsTyped'
    BY <1>1 DEF CallsTyped, Load, Register, callVars, Trace
  <1>2. ASSUME NEW c \in Calls, Begin(c) \/ ThreadStep(c) \/ StageRaises(c) \/ Ask(c)
        PROVE  CallsTyped'
    BY <1>2, TypedBegin, TypedScore, TypedRecord, TypedTrim, TypedEvaluate, TypedRaises, TypedAsk,
       TypedLog, TypedFail, TypedExecute DEF ThreadStep
  <1> QED
    BY <1>1, <1>2 DEF CallsNext

\* The type invariant of the calls.
THEOREM CallsTypeCorrect == CallsSpec => []CallsTyped
  BY TypedInit, TypedNext, PTL DEF CallsSpec

----------------------------------------------------------------------------
(* What a call has logged, decided and run.                                 *)

\* The approval of k was given by somebody who may give it.
Reviewed(k) ==
    \E a \in Answers :
        /\ a.by = k.answer.by /\ a.by \notin {Nobody, k.req.by}
        /\ DOMAIN setup.roles # {} => a.role \in DOMAIN setup.roles
        /\ DOMAIN setup.roles = {} /\ DOMAIN setup.reviewers # {} => a.by \in DOMAIN setup.reviewers

\* es: the events of the call, run: whether its handler was called.
Tells(c, k, es, run) ==
    /\ k.pc \notin {"executing", "done"} => es = {} /\ ~run
    /\ k.pc = "executing" \/ run => [call |-> c, decision |-> k.asked.decision, answer |-> k.answer] \in es
    /\ \A e \in es : e.decision = k.asked.decision
    /\ k.out.executed <=> run
    /\ run => /\ k.pc = "done" /\ Enforcing
              /\ k.asked.decision = "allow" \/ (k.asked.decision = "require_approval" /\ k.answer.status = "approved")
    /\ k.failed => k.pc \in {"failing", "raised"} \/ (k.pc = "done" /\ k.asked.decision = "block")

\* What the policy and the reviewer said.
Decides(k) ==
    /\ k.pc \in {"idle", "begun", "recording", "trimming", "assessed"} => k.asked.decision = "none"
    /\ k.pc \in {"idle", "begun", "recording", "trimming", "assessed", "asking"} => k.answer.status = "none"
    /\ k.answer.status = "approved" => Reviewed(k)
    /\ setup.policy = ProductionPolicy /\ k.asked.decision # "none" =>
           /\ k.asked.decision # "allow"
           /\ RiskLevel(k.score) = "critical" => k.asked.decision = "block"

CallsInv == \A c \in Calls : Tells(c, call[c], Logged(c), c \in ran) /\ Decides(call[c])

LEMMA InvInit == CallsInit => CallsInv
  <1> SUFFICES ASSUME CallsInit, NEW c \in Calls
               PROVE  Tells(c, call[c], Logged(c), c \in ran) /\ Decides(call[c])
    BY DEF CallsInv
  <1>1. /\ call[c].pc = "idle" /\ call[c].asked.decision = "none" /\ call[c].answer.status = "none"
        /\ ~call[c].failed /\ ~call[c].out.executed
    BY DEF CallsInit, Fresh, NoAnswer
  <1>2. Logged(c) = {} /\ c \notin ran
    BY DEF CallsInit, Logged
  <1> QED
    BY <1>1, <1>2 DEF Tells, Decides

\* Only the call that steps has to be looked at.
LEMMA InvStep ==
    ASSUME CallsTyped, CallsInv, NEW c \in Calls, NEW k, Steps(c, k), UNCHANGED setup,
           \A e : e.call # c => (e \in events <=> e \in events'),
           \A d : d # c => (d \in ran <=> d \in ran'),
           Tells(c, k, {e \in events' : e.call = c}, c \in ran'), Decides(k)
    PROVE  CallsInv'
  <1> SUFFICES ASSUME NEW d \in Calls
               PROVE  Tells(d, call'[d], {e \in events' : e.call = d}, d \in ran') /\ Decides(call'[d])
    <2>1. ASSUME NEW d \in Calls, Tells(d, call'[d], {e \in events' : e.call = d}, d \in ran')
          PROVE  Tells(d, call[d], Logged(d), d \in ran)'
      BY <2>1 DEF Logged, Tells, Enforcing
    <2>2. ASSUME NEW d \in Calls, Decides(call'[d])
          PROVE  Decides(call[d])'
      BY <2>2 DEF Decides, Reviewed
    <2> QED
      BY <2>1, <2>2 DEF CallsInv
  <1>1. CASE d = c
    <2>1. call'[d] = k
      BY <1>1 DEF CallsTyped, Steps
    <2> QED
      BY <1>1, <2>1
  <1>2. CASE d # c
    <2>1. call'[d] = call[d]
      BY <1>2 DEF CallsTyped, Steps
    <2>2. {e \in events' : e.call = d} = Logged(d)
      BY <1>2 DEF Logged
    <2>3. d \in ran' <=> d \in ran
      BY <1>2
    <2>4. (d \in ran') = (d \in ran)
      BY <2>3
    <2> QED
      BY <2>1, <2>2, <2>4 DEF CallsInv
  <1> QED
    BY <1>1, <1>2

\* A step that writes no event and runs nothing.
LEMMA InvQuiet ==
    ASSUME CallsTyped, CallsInv, NEW c \in Calls, NEW k, Steps(c, k), UNCHANGED <<setup, events, ran>>,
           Tells(c, k, Logged(c), c \in ran), Decides(k)
    PROVE  CallsInv'
  <1>1. {e \in events' : e.call = c} = Logged(c) /\ ran' = ran /\ events' = events
    BY DEF Logged
  <1>2. Tells(c, k, {e \in events' : e.call = c}, c \in ran')
    BY <1>1
  <1> QED
    BY <1>1, <1>2, InvStep

LEMMA InvBegin ==
    ASSUME CallsTyped, CallsInv, NEW c \in Calls, Begin(c)
    PROVE  CallsInv'
  <1>1. PICK r \in Requests :
            call' = [call EXCEPT ![c] = [@ EXCEPT !.pc = "begun", !.req = r, !.known = KnownRisky(TraceIdentity(r.ids))]]
    BY DEF Begin
  <1> DEFINE k == [call[c] EXCEPT !.pc = "begun", !.req = r, !.known = KnownRisky(TraceIdentity(r.ids))]
  <1>2. Steps(c, k)
    BY <1>1 DEF Steps, CallsTyped
  <1>3. /\ k.pc = "begun" /\ k.asked = call[c].asked /\ k.answer = call[c].answer
        /\ k.failed = call[c].failed /\ k.out = call[c].out /\ k.score = call[c].score
    BY TypedCall DEF CallState
  <1>4. call[c].pc = "idle" /\ UNCHANGED <<setup, events, ran>>
    BY DEF Begin, At, EngineSame
  <1> HIDE DEF k
  <1>5. Tells(c, call[c], Logged(c), c \in ran) /\ Decides(call[c])
    BY DEF CallsInv
  <1>6. Tells(c, k, Logged(c), c \in ran) /\ Decides(k)
    BY <1>3, <1>4, <1>5 DEF Tells, Decides
  <1> QED
    BY <1>2, <1>4, <1>6, InvQuiet

\* Scoring and recording change neither the decision nor the answer.
LEMMA InvScored ==
    ASSUME CallsTyped, CallsInv, NEW c \in Calls, Score(c) \/ RecordTrace(c) \/ TrimHistory(c)
    PROVE  CallsInv'
  <1> DEFINE k == call'[c]
  <1>1. Steps(c, k) /\ UNCHANGED <<setup, events, ran>>
    BY DEF Score, RecordTrace, AfterRecording, TrimHistory, Go, Steps, CallsTyped, EngineSame
  <1>2. /\ k.pc \in {"recording", "trimming", "assessed"} /\ k.asked = call[c].asked /\ k.answer = call[c].answer
        /\ k.failed = call[c].failed /\ k.out = call[c].out
        /\ call[c].pc \in {"begun", "recording", "trimming"}
    BY DEF Score, RecordTrace, AfterRecording, TrimHistory, Go, At, CallsTyped, CallState
  <1> HIDE DEF k
  <1>3. Tells(c, call[c], Logged(c), c \in ran) /\ Decides(call[c])
    BY DEF CallsInv
  <1>4. Tells(c, k, Logged(c), c \in ran) /\ Decides(k)
    BY <1>2, <1>3 DEF Tells, Decides
  <1> QED
    BY <1>1, <1>4, InvQuiet

LEMMA InvEvaluate ==
    ASSUME CallsTyped, CallsInv, NEW c \in Calls, EvaluatePolicy(c)
    PROVE  CallsInv'
  <1> DEFINE policy == setup.policy
             q == Question(c)
             d == Evaluate(policy, q)
             p == IF d.decision = "require_approval" /\ call[c].req.kind = "intercept" THEN "asking" ELSE "auditing"
             k == [call[c] EXCEPT !.asked = d, !.pc = p]
  <1>1. Steps(c, k) /\ call[c].pc = "assessed" /\ UNCHANGED <<setup, events, ran>>
    BY DEF EvaluatePolicy, Steps, At, EngineSame
  <1>2. policy.rules \in Seq(Rule) /\ call[c].score \in Nat
    BY TypedCall, CallsAssumption DEF CallState
  <1>3. q.level = RiskLevel(call[c].score) /\ q.score = call[c].score
    BY DEF Question
  <1> HIDE DEF q
  <1>4. policy = ProductionPolicy =>
            /\ d.decision # "allow"
            /\ RiskLevel(call[c].score) = "critical" => d.decision = "block"
    BY <1>2, <1>3, ProductionDecides
  <1> HIDE DEF d
  <1>5. /\ k.asked = d /\ k.pc \in {"asking", "auditing"} /\ k.answer = call[c].answer
        /\ k.failed = call[c].failed /\ k.out = call[c].out /\ k.score = call[c].score
    BY TypedCall DEF CallState
  <1> HIDE DEF k, p
  <1>6. Tells(c, call[c], Logged(c), c \in ran) /\ Decides(call[c])
    BY DEF CallsInv
  <1>7. Tells(c, k, Logged(c), c \in ran) /\ Decides(k)
    BY <1>1, <1>4, <1>5, <1>6 DEF Tells, Decides
  <1> QED
    BY <1>1, <1>7, InvQuiet

LEMMA InvRaises ==
    ASSUME CallsTyped, CallsInv, NEW c \in Calls, StageRaises(c)
    PROVE  CallsInv'
  <1> DEFINE p == IF call[c].req.kind = "evaluate" THEN "raised" ELSE "failing"
             k == [call[c] EXCEPT !.pc = p, !.failed = TRUE]
  <1>1. Steps(c, k) /\ call[c].pc \in {"begun", "assessed"} /\ UNCHANGED <<setup, events, ran>>
    BY DEF StageRaises, Steps, EngineSame
  <1>2. /\ k.asked = call[c].asked /\ k.pc \in {"raised", "failing"} /\ k.answer = call[c].answer
        /\ k.failed /\ k.out = call[c].out /\ k.score = call[c].score
    BY TypedCall DEF CallState
  <1> HIDE DEF k, p
  <1>3. Tells(c, call[c], Logged(c), c \in ran) /\ Decides(call[c])
    BY DEF CallsInv
  <1>4. Tells(c, k, Logged(c), c \in ran) /\ Decides(k)
    BY <1>1, <1>2, <1>3 DEF Tells, Decides
  <1> QED
    BY <1>1, <1>4, InvQuiet

LEMMA InvAsk ==
    ASSUME CallsTyped, CallsInv, NEW c \in Calls, Ask(c)
    PROVE  CallsInv'
  <1>0. call[c].pc = "asking" /\ UNCHANGED <<setup, events, ran>>
    BY AskCases
  <1>1. Tells(c, call[c], Logged(c), c \in ran) /\ Decides(call[c])
    BY DEF CallsInv
  <1>2. ASSUME NEW answer \in AnswersGiven, Steps(c, Answered(c, answer)),
               answer.status = "approved" => Reviewed(Answered(c, answer))
        PROVE  CallsInv'
    <2> DEFINE k == Answered(c, answer)
    <2>1. /\ k.pc = "auditing" /\ k.asked = call[c].asked /\ k.answer = answer
          /\ k.failed = call[c].failed /\ k.out = call[c].out /\ k.score = call[c].score
      BY TypedCall DEF Answered, CallState
    <2> HIDE DEF k
    <2>2. Tells(c, k, Logged(c), c \in ran)
      BY <1>0, <1>1, <2>1 DEF Tells
    <2>3. answer.status = "approved" => Reviewed(k)
      BY <1>2 DEF k
    <2>4. Decides(k)
      BY <1>0, <1>1, <2>1, <2>3 DEF Decides
    <2>5. Steps(c, k)
      BY <1>2 DEF k
    <2> QED
      BY <1>0, <2>2, <2>4, <2>5, InvQuiet
  <1>3. ASSUME Steps(c, Misanswered(c))
        PROVE  CallsInv'
    <2> DEFINE k == Misanswered(c)
    <2>1. /\ k.pc = "failing" /\ k.asked = call[c].asked /\ k.answer = call[c].answer
          /\ k.failed /\ k.out = call[c].out /\ k.score = call[c].score
      BY TypedCall DEF Misanswered, CallState
    <2>2. Steps(c, k)
      BY <1>3
    <2> HIDE DEF k
    <2>3. Tells(c, k, Logged(c), c \in ran) /\ Decides(k)
      BY <1>0, <1>1, <2>1 DEF Tells, Decides
    <2> QED
      BY <1>0, <2>2, <2>3, InvQuiet
  <1>4. SystemRejects \in AnswersGiven /\ SystemRejects.status # "approved"
    BY DEF SystemRejects, AnswersGiven
  <1>5. ASSUME NEW a \in Answers, Authorized(c, a)
        PROVE  /\ [status |-> a.status, by |-> a.by] \in AnswersGiven
               /\ a.status = "approved" => Reviewed(Answered(c, [status |-> a.status, by |-> a.by]))
    <2> DEFINE k == Answered(c, [status |-> a.status, by |-> a.by])
    <2>1. [status |-> a.status, by |-> a.by] \in AnswersGiven
      BY CallsAssumption DEF AnswersGiven
    <2>2. k.answer.by = a.by /\ k.req = call[c].req
      BY TypedCall DEF Answered, CallState
    <2> HIDE DEF k
    <2>3. a.status = "approved" => Reviewed(k)
      BY <1>5, <2>2 DEF Authorized, RoleAllows, ReviewerAllows, Reviewed
    <2> QED
      BY <2>1, <2>3 DEF k
  <1>6. ASSUME NEW a \in Answers, Authorized(c, a), Steps(c, Answered(c, [status |-> a.status, by |-> a.by]))
        PROVE  CallsInv'
    <2> DEFINE answer == [status |-> a.status, by |-> a.by]
    <2>1. answer.status = a.status
      OBVIOUS
    <2>2. answer \in AnswersGiven /\ (answer.status = "approved" => Reviewed(Answered(c, answer)))
      BY <1>5, <1>6, <2>1
    <2> QED
      BY <1>2, <1>6, <2>2
  <1> QED
    BY <1>2, <1>3, <1>4, <1>6, AskCases

LEMMA InvLog ==
    ASSUME CallsTyped, CallsInv, NEW c \in Calls, LogDecision(c)
    PROVE  CallsInv'
  <1>0. Tells(c, call[c], Logged(c), c \in ran) /\ Decides(call[c])
    BY DEF CallsInv
  <1>1. call[c].pc = "auditing" /\ UNCHANGED <<setup, ran>>
    BY DEF LogDecision, Go, At, EngineSame
  <1>2. CASE events' = events \cup {EventOf(c)}
             /\ call' = [call EXCEPT ![c].pc = IF call[c].req.kind = "evaluate" THEN "done" ELSE "executing"]
    <2> DEFINE p == IF call[c].req.kind = "evaluate" THEN "done" ELSE "executing"
               k == [call[c] EXCEPT !.pc = p]
    <2>1. Steps(c, k)
      BY <1>2 DEF Steps
    <2>2. /\ k.pc \in {"done", "executing"} /\ k.asked = call[c].asked /\ k.answer = call[c].answer
          /\ k.failed = call[c].failed /\ k.out = call[c].out /\ k.score = call[c].score /\ k.req = call[c].req
      BY TypedCall DEF CallState
    <2> HIDE DEF k, p
    <2>3. EventOf(c) = [call |-> c, decision |-> k.asked.decision, answer |-> k.answer]
      BY <2>2 DEF EventOf
    <2>4. EventOf(c).call = c /\ EventOf(c).decision = k.asked.decision
      BY <2>3
    <2> HIDE DEF EventOf
    <2>5. /\ {e \in events' : e.call = c} = Logged(c) \cup {EventOf(c)}
          /\ \A e : e.call # c => (e \in events <=> e \in events')
      BY <1>2, <2>4 DEF Logged
    <2>6. Logged(c) = {} /\ c \notin ran
      BY <1>0, <1>1 DEF Tells
    <2>7. Tells(c, k, {e \in events' : e.call = c}, c \in ran')
      <3>1. Tells(c, k, {EventOf(c)}, FALSE)
        BY <1>0, <1>1, <2>2, <2>3, <2>4, <2>6 DEF Tells
      <3>2. {e \in events' : e.call = c} = {EventOf(c)} /\ (c \in ran') = FALSE
        BY <1>1, <2>5, <2>6
      <3> QED
        BY <3>1, <3>2
    <2>8. Decides(k)
      BY <1>0, <1>1, <2>2 DEF Decides, Reviewed
    <2> QED
      BY <1>1, <2>1, <2>5, <2>7, <2>8, InvStep
  <1>3. CASE UNCHANGED events /\ call' = [call EXCEPT ![c].pc = "raised"]
    <2> DEFINE k == [call[c] EXCEPT !.pc = "raised"]
    <2>1. Steps(c, k)
      BY <1>3 DEF Steps
    <2>2. /\ k.pc = "raised" /\ k.asked = call[c].asked /\ k.answer = call[c].answer
          /\ k.failed = call[c].failed /\ k.out = call[c].out /\ k.score = call[c].score /\ k.req = call[c].req
      BY TypedCall DEF CallState
    <2> HIDE DEF k
    <2>3. Tells(c, k, Logged(c), c \in ran)
      BY <1>0, <1>1, <2>2 DEF Tells
    <2>4. Decides(k)
      BY <1>0, <1>1, <2>2 DEF Decides, Reviewed
    <2> QED
      BY <1>1, <1>3, <2>1, <2>3, <2>4, InvQuiet
  <1> QED
    BY <1>2, <1>3 DEF LogDecision, Go

LEMMA InvFail ==
    ASSUME CallsTyped, CallsInv, NEW c \in Calls, FailClosed(c)
    PROVE  CallsInv'
  <1> DEFINE k == Closed(c)
             e == [call |-> c, decision |-> "block", answer |-> NoAnswer]
  <1>1. Steps(c, k) /\ call[c].pc = "failing" /\ UNCHANGED <<setup, ran>>
    BY DEF FailClosed, Closed, Steps, At, EngineSame
  <1>2. /\ k.pc = "done" /\ k.asked = Blocked /\ k.answer = NoAnswer /\ ~k.out.executed
        /\ k.failed = call[c].failed
    BY TypedCall DEF Closed, CallState
  <1>3. k.asked.decision = "block" /\ k.answer.status = "none"
    BY <1>2 DEF Blocked, NoAnswer
  <1> HIDE DEF k
  <1>4. Tells(c, call[c], Logged(c), c \in ran)
    BY DEF CallsInv
  <1>5. Logged(c) = {} /\ c \notin ran
    BY <1>1, <1>4 DEF Tells
  <1>6. events' = events \cup {e} \/ events' = events
    BY DEF FailClosed
  <1>7. e.call = c /\ e.decision = "block"
    OBVIOUS
  <1> HIDE DEF e
  <1>8. /\ {x \in events' : x.call = c} \subseteq {e}
        /\ \A x : x.call # c => (x \in events <=> x \in events')
    BY <1>5, <1>6, <1>7 DEF Logged
  <1>9. \A es \in SUBSET {e} : Tells(c, k, es, FALSE)
    BY <1>2, <1>3, <1>7 DEF Tells
  <1>10. Tells(c, k, {x \in events' : x.call = c}, c \in ran')
    <2>1. (c \in ran') = FALSE
      BY <1>1, <1>5
    <2> QED
      BY <1>8, <1>9, <2>1
  <1>11. Decides(k)
    BY <1>2, <1>3 DEF Decides
  <1> QED
    BY <1>1, <1>8, <1>10, <1>11, InvStep

LEMMA InvExecute ==
    ASSUME CallsTyped, CallsInv, NEW c \in Calls, Execute(c)
    PROVE  CallsInv'
  <1>0. Tells(c, call[c], Logged(c), c \in ran) /\ Decides(call[c])
    BY DEF CallsInv
  <1>1. call[c].pc = "executing" /\ UNCHANGED <<setup, events>>
    BY ExecuteCases
  <1>2. PICK out \in Outcomes :
            /\ Steps(c, Finished(c, out))
            /\ \/ ~out.executed /\ ran' = ran
               \/ out.executed /\ MayExecute(c) /\ ran' = ran \cup {c}
    BY ExecuteCases
  <1> DEFINE k == Finished(c, out)
  <1>3. /\ k.pc = "done" /\ k.asked = call[c].asked /\ k.answer = call[c].answer
        /\ k.failed = call[c].failed /\ k.out = out /\ k.score = call[c].score /\ k.req = call[c].req
    BY TypedCall DEF Finished, CallState
  <1>4. Steps(c, k)
    BY <1>2
  <1> HIDE DEF k
  <1>5. c \notin ran /\ \A d : d # c => (d \in ran <=> d \in ran')
    BY <1>0, <1>1, <1>2 DEF Tells
  <1>6. out.executed <=> c \in ran'
    BY <1>2, <1>5
  <1>7. out.executed => Enforcing /\ \/ k.asked.decision = "allow"
                                     \/ k.asked.decision = "require_approval" /\ k.answer.status = "approved"
    BY <1>2, <1>3 DEF MayExecute
  <1>8. Tells(c, k, Logged(c), c \in ran')
    BY <1>0, <1>1, <1>3, <1>6, <1>7 DEF Tells
  <1>9. Decides(k)
    BY <1>0, <1>1, <1>3 DEF Decides, Reviewed
  <1>10. {e \in events' : e.call = c} = Logged(c) /\ \A e : e.call # c => (e \in events <=> e \in events')
    BY <1>1 DEF Logged
  <1>11. Tells(c, k, {e \in events' : e.call = c}, c \in ran')
    BY <1>8, <1>10
  <1> QED
    BY <1>1, <1>4, <1>5, <1>9, <1>10, <1>11, InvStep

LEMMA InvNext == CallsTyped /\ CallsInv /\ [CallsNext]_callVars => CallsInv'
  <1> SUFFICES ASSUME CallsTyped, CallsInv, [CallsNext]_callVars
               PROVE  CallsInv'
    OBVIOUS
  <1>1. ASSUME Load \/ (\E t \in Registrable : Register(t)) \/ UNCHANGED callVars
        PROVE  CallsInv'
    <2>1. UNCHANGED <<setup, call, events, ran>>
      BY <1>1 DEF Load, Register, callVars
    <2> QED
      BY <2>1 DEF CallsInv, Tells, Decides, Reviewed, Logged, Enforcing
  <1>2. ASSUME NEW c \in Calls, Begin(c) \/ ThreadStep(c) \/ StageRaises(c) \/ Ask(c)
        PROVE  CallsInv'
    BY <1>2, InvBegin, InvScored, InvEvaluate, InvRaises, InvAsk, InvLog, InvFail, InvExecute DEF ThreadStep
  <1> QED
    BY <1>1, <1>2 DEF CallsNext

\* Calls log what they decide before they run and say what they did.
THEOREM CallsAgree == CallsSpec => []CallsInv
  BY CallsTypeCorrect, InvInit, InvNext, PTL DEF CallsSpec

\* ran holds calls only.
RanInv == ran \subseteq Calls

LEMMA RanKept == (CallsInit => RanInv) /\ (RanInv /\ [CallsNext]_callVars => RanInv')
  <1>1. CallsInit => RanInv
    BY DEF CallsInit, RanInv
  <1>2. ASSUME RanInv, NEW c \in Calls, Execute(c)
        PROVE  RanInv'
    BY <1>2 DEF RanInv, Execute
  <1>3. ASSUME RanInv, NEW c \in Calls, Begin(c) \/ ThreadStep(c) \/ StageRaises(c) \/ Ask(c), ~Execute(c)
        PROVE  RanInv'
    BY <1>3 DEF RanInv, Begin, ThreadStep, StageRaises, Ask, Score, RecordTrace, TrimHistory, EvaluatePolicy,
                LogDecision, FailClosed
  <1>4. ASSUME RanInv, Load \/ (\E t \in Registrable : Register(t)) \/ UNCHANGED callVars
        PROVE  RanInv'
    BY <1>4 DEF RanInv, Load, Register, callVars
  <1> QED
    BY <1>1, <1>2, <1>3, <1>4 DEF CallsNext

\* A handler runs only in an enforcing mode, after an event of its call was
\* written whose decision permits it, and an approval is one of somebody else
\* who may give it; nothing critical runs under the production policy.
THEOREM RunsArePermitted == CallsSpec => []RunWasPermitted
  <1>1. CallsTyped /\ CallsInv /\ RanInv => RunWasPermitted
    <2> SUFFICES ASSUME CallsTyped, CallsInv, RanInv, NEW c \in ran
                 PROVE  /\ Enforcing
                        /\ \E e \in Logged(c) :
                              \/ e.decision = "allow" /\ setup.policy # ProductionPolicy
                              \/ /\ e.decision = "require_approval" /\ e.answer.status = "approved"
                                 /\ \E a \in Answers : a.by = e.answer.by /\ a.by \notin {Nobody, call[c].req.by}
                                                        /\ (DOMAIN setup.roles # {} => a.role \in DOMAIN setup.roles)
                                 /\ DOMAIN setup.roles = {} /\ DOMAIN setup.reviewers # {} =>
                                      e.answer.by \in DOMAIN setup.reviewers
                        /\ setup.policy = ProductionPolicy => RiskLevel(call[c].score) # "critical"
      BY DEF RunWasPermitted
    <2> DEFINE k == call[c]
               e == [call |-> c, decision |-> k.asked.decision, answer |-> k.answer]
    <2>1. c \in Calls /\ Tells(c, k, Logged(c), TRUE) /\ Decides(k)
      <3>1. c \in Calls /\ (c \in ran) = TRUE
        BY DEF RanInv
      <3> QED
        BY <3>1 DEF CallsInv
    <2>2. e.decision = k.asked.decision /\ e.answer = k.answer
      OBVIOUS
    <2>3. /\ e \in Logged(c) /\ Enforcing
          /\ k.asked.decision = "allow" \/ (k.asked.decision = "require_approval" /\ k.answer.status = "approved")
      BY <2>1 DEF Tells
    <2> HIDE DEF e
    <2>4. setup.policy = ProductionPolicy => k.asked.decision # "allow" /\ RiskLevel(k.score) # "critical"
      BY <2>1, <2>3 DEF Decides
    <2>5. k.answer.status = "approved" => Reviewed(k)
      BY <2>1 DEF Decides
    <2>6. CASE k.asked.decision = "allow"
      BY <2>2, <2>3, <2>4, <2>6
    <2>7. CASE k.asked.decision = "require_approval" /\ k.answer.status = "approved"
      <3>1. PICK a \in Answers :
                /\ a.by = k.answer.by /\ a.by \notin {Nobody, k.req.by}
                /\ DOMAIN setup.roles # {} => a.role \in DOMAIN setup.roles
                /\ DOMAIN setup.roles = {} /\ DOMAIN setup.reviewers # {} => a.by \in DOMAIN setup.reviewers
        BY <2>5, <2>7 DEF Reviewed
      <3>2. /\ e.decision = "require_approval" /\ e.answer.status = "approved"
            /\ a.by = e.answer.by /\ a.by \notin {Nobody, call[c].req.by}
            /\ DOMAIN setup.roles = {} /\ DOMAIN setup.reviewers # {} => e.answer.by \in DOMAIN setup.reviewers
        BY <2>2, <2>7, <3>1
      <3>3. \E x \in Answers : /\ x.by = e.answer.by /\ x.by \notin {Nobody, call[c].req.by}
                               /\ DOMAIN setup.roles # {} => x.role \in DOMAIN setup.roles
        BY <3>1, <3>2
      <3>4. e \in Logged(c) /\ Enforcing /\ (setup.policy = ProductionPolicy => RiskLevel(call[c].score) # "critical")
        BY <2>3, <2>4
      <3> QED
        BY <3>2, <3>3, <3>4, Zenon
    <2> QED
      BY <2>3, <2>6, <2>7
  <1> QED
    BY <1>1, CallsTypeCorrect, CallsAgree, RanKept, PTL DEF CallsSpec

\* What the caller of intercept is told is what happened and what was logged.
THEOREM ResultsHold == CallsSpec => []ResultIsTrue
  <1>1. CallsInv => ResultIsTrue
    BY DEF CallsInv, Tells, ResultIsTrue, At
  <1> QED
    BY <1>1, CallsAgree, PTL

----------------------------------------------------------------------------
(* The history of a trace.                                                  *)

LEMMA RiskyAppend ==
    ASSUME NEW h \in Seq(Nat), NEW s \in Nat
    PROVE  /\ Len(Append(h, s)) = Len(h) + 1
           /\ RiskyCount(h) \in Nat
           /\ RiskyCount(Append(h, s)) = IF s >= MediumThreshold THEN RiskyCount(h) + 1 ELSE RiskyCount(h)
  <1> DEFINE n == Len(h)
             g == Append(h, s)
             R == {i \in 1..n : h[i] >= MediumThreshold}
             Q == {i \in 1..(n + 1) : g[i] >= MediumThreshold}
  <1>1. n \in Nat /\ Len(g) = n + 1 /\ g[n + 1] = s /\ \A i \in 1..n : g[i] = h[i]
    OBVIOUS
  <1>2. IsFiniteSet(R) /\ Cardinality(R) \in Nat
    <2>1. IsFiniteSet(1..n)
      BY <1>1, FS_Interval
    <2> QED
      BY <2>1, FS_Subset, FS_CardinalityType
  <1>3. RiskyCount(h) = Cardinality(R) /\ RiskyCount(g) = Cardinality(Q)
    BY <1>1 DEF RiskyCount
  <1> HIDE DEF g, n
  <1>4. 1..(n + 1) = (1..n) \cup {n + 1} /\ n + 1 \notin 1..n
    BY <1>1
  <1>5. CASE s >= MediumThreshold
    <2>1. Q = R \cup {n + 1} /\ n + 1 \notin R
      BY <1>1, <1>4, <1>5
    <2> HIDE DEF Q, R
    <2>2. Cardinality(Q) = Cardinality(R) + 1
      BY <1>2, <2>1, FS_AddElement
    <2> QED
      BY <1>1, <1>2, <1>3, <1>5, <2>2 DEF g, n
  <1>6. CASE ~(s >= MediumThreshold)
    <2>1. Q = R
      BY <1>1, <1>4, <1>6
    <2> HIDE DEF Q, R
    <2> QED
      BY <1>1, <1>2, <1>3, <1>6, <2>1 DEF g, n
  <1> QED
    BY <1>5, <1>6

\* Until a trace has reached the limit its history holds every call that was
\* assessed, and nothing is deleted from it.
WholeInv ==
    \A t \in Traces : ledger[t].all <= HistoryLimit =>
        /\ Len(history[t]) = ledger[t].all
        /\ RiskyCount(history[t]) = ledger[t].risky

\* What a call that has begun knows to be risky was assessed, and a call trims
\* only the history of a trace over the limit.
SeenInv ==
    \A c \in Calls :
        /\ call[c].pc = "begun" /\ Trace(c) # NoTrace => call[c].known <= ledger[Trace(c)].risky
        /\ call[c].pc = "begun" /\ Trace(c) = NoTrace => call[c].known = 0
        /\ call[c].pc = "trimming" => ledger[Trace(c)].all > HistoryLimit

RiskInv == WholeInv /\ SeenInv /\ RepeatedRiskEscalates

LEMMA RiskInit == CallsInit => RiskInv
  <1> SUFFICES ASSUME CallsInit PROVE RiskInv
    OBVIOUS
  <1>1. \A c \in Calls : call[c].pc = "idle"
    BY DEF CallsInit, Fresh
  <1>2. \A t \in Traces : ledger[t].all = 0 /\ ledger[t].risky = 0 /\ history[t] = <<>>
    BY DEF CallsInit
  <1>3. RiskyCount(<<>>) = 0 /\ Len(<<>>) = 0
    <2>1. {i \in 1..Len(<<>>) : <<>>[i] >= MediumThreshold} = {}
      OBVIOUS
    <2> QED
      BY <2>1, FS_EmptySet DEF RiskyCount
  <1>4. WholeInv
    BY <1>2, <1>3 DEF WholeInv
  <1> QED
    BY <1>1, <1>4 DEF RiskInv, SeenInv, RepeatedRiskEscalates, At

\* The counts of a trace only grow.
LEMMA RecordCounts ==
    ASSUME CallsTyped, NEW c \in Calls, RecordTrace(c)
    PROVE  LET t == Trace(c)
           IN  /\ t \in Traces /\ call[c].pc = "recording" /\ call[c].score \in Nat
               /\ history[t] \in Seq(Nat) /\ ledger[t].all \in Nat /\ ledger[t].risky \in Nat
               /\ history' = [history EXCEPT ![t] = Append(history[t], call[c].score)]
               /\ ledger'[t].all = ledger[t].all + 1
               /\ ledger'[t].risky = IF call[c].score >= MediumThreshold THEN ledger[t].risky + 1 ELSE ledger[t].risky
               /\ \A u \in Traces \ {t} : ledger'[u] = ledger[u]
  <1> DEFINE t == Trace(c)
             risky == IF call[c].score >= MediumThreshold THEN ledger[t].risky + 1 ELSE ledger[t].risky
  <1>1. t \in Traces /\ call[c].pc = "recording" /\ call[c].score \in Nat
    BY TypedCall DEF RecordTrace, AfterRecording, At, CallState
  <1>2. history[t] \in Seq(Nat) /\ ledger[t] \in Counts
    BY <1>1 DEF CallsTyped
  <1>3. history' = [history EXCEPT ![t] = Append(history[t], call[c].score)]
    BY DEF RecordTrace
  <1>4. ledger' = [ledger EXCEPT ![t].all = ledger[t].all + 1, ![t].risky = risky]
    BY DEF RecordTrace, Assessed
  <1> HIDE DEF risky, t
  <1>5. ledger'[t] = [ledger[t] EXCEPT !.all = ledger[t].all + 1, !.risky = risky] /\ \A u \in Traces \ {t} : ledger'[u] = ledger[u]
    BY <1>1, <1>4 DEF CallsTyped
  <1>6. ledger'[t].all = ledger[t].all + 1 /\ ledger'[t].risky = risky
    BY <1>2, <1>5 DEF Counts
  <1> QED
    BY <1>1, <1>2, <1>3, <1>5, <1>6 DEF Counts, t, risky

LEMMA RiskBegin ==
    ASSUME CallsTyped, RiskInv, NEW c \in Calls, Begin(c)
    PROVE  RiskInv'
  <1>1. PICK r \in Requests :
            call' = [call EXCEPT ![c] = [@ EXCEPT !.pc = "begun", !.req = r, !.known = KnownRisky(TraceIdentity(r.ids))]]
    BY DEF Begin
  <1>2. /\ call'[c].pc = "begun" /\ call'[c].req = r /\ call'[c].known = KnownRisky(TraceIdentity(r.ids))
        /\ \A d \in Calls \ {c} : call'[d] = call[d]
    BY <1>1 DEF CallsTyped, CallState
  <1>3. history' = history /\ ledger' = ledger
    BY DEF Begin
  <1>4. TraceIdentity(r.ids) \in Traces \cup {NoTrace} /\ \A t \in Traces : ledger[t].risky \in Nat
    BY TraceType DEF CallsTyped, Counts
  <1>5. WholeInv'
    BY <1>3 DEF RiskInv, WholeInv
  <1>6. SeenInv'
    <2> SUFFICES ASSUME NEW d \in Calls
                 PROVE  /\ call'[d].pc = "begun" /\ Trace(d)' # NoTrace => call'[d].known <= ledger'[Trace(d)'].risky
                        /\ call'[d].pc = "begun" /\ Trace(d)' = NoTrace => call'[d].known = 0
                        /\ call'[d].pc = "trimming" => ledger'[Trace(d)'].all > HistoryLimit
      BY DEF SeenInv
    <2>1. CASE d = c
      <3>1. Trace(d)' = TraceIdentity(r.ids)
        BY <1>2, <2>1 DEF Trace
      <3> QED
        BY <1>2, <1>3, <1>4, <2>1, <3>1 DEF KnownRisky
    <2>2. CASE d # c
      BY <1>2, <1>3, <2>2 DEF RiskInv, SeenInv, Trace
    <2> QED
      BY <2>1, <2>2
  <1>7. RepeatedRiskEscalates'
    BY <1>2, <1>3 DEF RiskInv, RepeatedRiskEscalates, At, Trace
  <1> QED
    BY <1>5, <1>6, <1>7 DEF RiskInv

LEMMA RiskScored ==
    ASSUME CallsTyped, RiskInv, NEW c \in Calls, Score(c)
    PROVE  RiskInv'
  <1> DEFINE now == PreliminaryScore(call[c].req.risk)
             t   == Trace(c)
  <1>1. /\ call[c].pc = "begun" /\ call'[c].pc = IF t = NoTrace THEN "assessed" ELSE "recording"
        /\ call'[c].score = FinalScore(t, Past(c), now)
        /\ call'[c].req = call[c].req /\ call'[c].known = call[c].known
        /\ \A d \in Calls \ {c} : call'[d] = call[d]
    BY DEF Score, At, CallsTyped, CallState
  <1>2. history' = history /\ ledger' = ledger
    BY DEF Score
  <1>3. WholeInv'
    BY <1>2 DEF RiskInv, WholeInv
  <1>4. SeenInv'
    BY <1>1, <1>2 DEF RiskInv, SeenInv, Trace
  <1>5. Trace(c)' = t
    BY <1>1 DEF Trace
  <1>6. ASSUME call'[c].pc = "recording", call'[c].known >= 2, ledger[t].all <= HistoryLimit,
               now >= MediumThreshold
        PROVE  call'[c].score >= CappedScore(now + 45)
    <2>1. t # NoTrace /\ t \in Traces /\ Past(c) = history[t] /\ call[c].known \in Nat
      BY <1>1, <1>6, TypedCall DEF Past, CallState
    <2>2. ledger[t].risky \in Nat /\ call[c].known <= ledger[t].risky
      BY <1>1, <2>1 DEF RiskInv, SeenInv, CallsTyped, Counts
    <2>3. RiskyCount(history[t]) = ledger[t].risky
      BY <1>6, <2>1 DEF RiskInv, WholeInv
    <2>4. RiskyCount(Past(c)) >= 2
      BY <1>1, <1>6, <2>1, <2>2, <2>3
    <2>5. now \in Nat
      <3>1. now \in 0..100
        BY TypedCall, ScoresAssumption
      <3> HIDE DEF now
      <3> QED
        BY <3>1
    <2>6. CumulativeScore(t, Past(c), now) = 45
      BY <1>6, <2>1, <2>4, <2>5 DEF CumulativeScore, MediumThreshold
    <2> HIDE DEF now
    <2>7. FinalScore(t, Past(c), now) = CappedScore(now + 45) /\ CappedScore(now + 45) \in Nat
      BY <2>5, <2>6 DEF FinalScore, CappedScore
    <2> QED
      BY <1>1, <2>7
  <1>7. RepeatedRiskEscalates'
    <2> SUFFICES ASSUME NEW d \in Calls,
                        call'[d].pc = "recording", call'[d].known >= 2,
                        ledger'[Trace(d)'].all <= HistoryLimit,
                        PreliminaryScore(call'[d].req.risk) >= MediumThreshold
                 PROVE  call'[d].score >= CappedScore(PreliminaryScore(call'[d].req.risk) + 45)
      BY DEF RepeatedRiskEscalates, At
    <2>1. CASE d = c
      BY <1>1, <1>2, <1>5, <1>6, <2>1
    <2>2. CASE d # c
      BY <1>1, <1>2, <2>2 DEF RiskInv, RepeatedRiskEscalates, At, Trace
    <2> QED
      BY <2>1, <2>2
  <1> QED
    BY <1>3, <1>4, <1>7 DEF RiskInv

LEMMA RiskRecorded ==
    ASSUME CallsTyped, RiskInv, NEW c \in Calls, RecordTrace(c)
    PROVE  RiskInv'
  <1> DEFINE t == Trace(c)
             s == call[c].score
             n == Len(Past(c)) + 1
  <1>1. /\ t \in Traces /\ call[c].pc = "recording" /\ s \in Nat
        /\ history[t] \in Seq(Nat) /\ ledger[t].all \in Nat /\ ledger[t].risky \in Nat
        /\ history' = [history EXCEPT ![t] = Append(history[t], s)]
        /\ ledger'[t].all = ledger[t].all + 1
        /\ ledger'[t].risky = IF s >= MediumThreshold THEN ledger[t].risky + 1 ELSE ledger[t].risky
        /\ \A u \in Traces \ {t} : ledger'[u] = ledger[u]
    BY RecordCounts
  <1>2. /\ call'[c].pc = (IF n > HistoryLimit THEN "trimming" ELSE "assessed") /\ call'[c].req = call[c].req
        /\ \A d \in Calls \ {c} : call'[d] = call[d]
    BY DEF RecordTrace, AfterRecording, CallsTyped, CallState
  <1>3. n = Len(history[t]) + 1
    BY <1>1, RiskAssumption DEF Past
  <1>4. HistoryLimit \in Nat /\ Trace(c)' = t
    BY <1>2, RiskAssumption DEF Trace
  <1>5. \A u \in Traces : /\ ledger[u].all \in Nat /\ ledger[u].risky \in Nat
                          /\ ledger'[u].all \in Nat /\ ledger'[u].risky \in Nat
                          /\ ledger[u].all <= ledger'[u].all /\ ledger[u].risky <= ledger'[u].risky
    <2>1. \A u \in Traces : ledger[u].all \in Nat /\ ledger[u].risky \in Nat
      BY DEF CallsTyped, Counts
    <2>2. \A u \in Traces : u # t => ledger'[u] = ledger[u]
      BY <1>1
    <2>3. /\ ledger'[t].all \in Nat /\ ledger'[t].risky \in Nat
          /\ ledger[t].all <= ledger'[t].all /\ ledger[t].risky <= ledger'[t].risky
      BY <1>1
    <2> HIDE DEF t
    <2> QED
      BY <2>1, <2>2, <2>3
  <1> HIDE DEF t, s, n
  <1>6. history'[t] = Append(history[t], s) /\ \A u \in Traces \ {t} : history'[u] = history[u]
    BY <1>1 DEF CallsTyped
  <1>7. ASSUME ledger'[t].all <= HistoryLimit
        PROVE  /\ Len(history'[t]) = ledger'[t].all /\ RiskyCount(history'[t]) = ledger'[t].risky
               /\ n = ledger'[t].all
    <2>1. Len(history[t]) = ledger[t].all /\ RiskyCount(history[t]) = ledger[t].risky
      BY <1>1, <1>4, <1>7 DEF RiskInv, WholeInv
    <2> QED
      BY <1>1, <1>3, <1>6, <2>1, RiskyAppend
  <1>8. WholeInv'
    BY <1>1, <1>6, <1>7 DEF RiskInv, WholeInv
  <1>9. SeenInv'
    <2> SUFFICES ASSUME NEW d \in Calls
                 PROVE  /\ call'[d].pc = "begun" /\ Trace(d)' # NoTrace => call'[d].known <= ledger'[Trace(d)'].risky
                        /\ call'[d].pc = "begun" /\ Trace(d)' = NoTrace => call'[d].known = 0
                        /\ call'[d].pc = "trimming" => ledger'[Trace(d)'].all > HistoryLimit
      BY DEF SeenInv
    <2>1. CASE d = c
      <3>1. call'[c].pc = "trimming" => ledger'[t].all > HistoryLimit
        BY <1>2, <1>3, <1>4, <1>5, <1>1, <1>7
      <3> QED
        BY <1>2, <1>4, <2>1, <3>1
    <2>2. CASE d # c
      <3>1. call'[d] = call[d] /\ Trace(d)' = Trace(d)
        BY <1>2, <2>2 DEF Trace
      <3>2. Trace(d) \in Traces \cup {NoTrace} /\ call[d].known \in Nat /\ (call[d].pc = "trimming" => Trace(d) \in Traces)
        BY TypedCall DEF CallState
      <3> DEFINE u == Trace(d)
      <3>3. /\ call[d].pc = "begun" /\ u # NoTrace => call[d].known <= ledger[u].risky
            /\ call[d].pc = "begun" /\ u = NoTrace => call[d].known = 0
            /\ call[d].pc = "trimming" => ledger[u].all > HistoryLimit
        BY DEF RiskInv, SeenInv
      <3> HIDE DEF u
      <3>4. /\ call[d].pc = "begun" /\ u # NoTrace => call[d].known <= ledger'[u].risky
            /\ call[d].pc = "trimming" => ledger'[u].all > HistoryLimit
        BY <1>4, <1>5, <3>2, <3>3 DEF u
      <3> QED
        BY <3>1, <3>3, <3>4 DEF u
    <2> QED
      BY <2>1, <2>2
  <1>10. RepeatedRiskEscalates'
    <2> SUFFICES ASSUME NEW d \in Calls,
                        call'[d].pc = "recording", call'[d].known >= 2,
                        ledger'[Trace(d)'].all <= HistoryLimit,
                        PreliminaryScore(call'[d].req.risk) >= MediumThreshold
                 PROVE  call'[d].score >= CappedScore(PreliminaryScore(call'[d].req.risk) + 45)
      BY DEF RepeatedRiskEscalates, At
    <2>1. d # c /\ call'[d] = call[d] /\ Trace(d)' = Trace(d)
      BY <1>2 DEF Trace
    <2>2. Trace(d) \in Traces
      BY <2>1, TypedCall
    <2>3. ledger[Trace(d)].all <= HistoryLimit
      BY <1>4, <1>5, <2>1, <2>2
    <2> QED
      BY <2>1, <2>3 DEF RiskInv, RepeatedRiskEscalates, At
  <1> QED
    BY <1>8, <1>9, <1>10 DEF RiskInv

LEMMA RiskTrimmed ==
    ASSUME CallsTyped, RiskInv, NEW c \in Calls, TrimHistory(c)
    PROVE  RiskInv'
  <1> DEFINE t == Trace(c)
  <1>1. call[c].pc = "trimming" /\ call'[c].pc = "assessed" /\ \A d \in Calls \ {c} : call'[d] = call[d]
    BY DEF TrimHistory, Go, At, CallsTyped, CallState
  <1>2. t \in Traces /\ ledger[t].all \in Nat /\ ledger[t].all > HistoryLimit /\ HistoryLimit \in Nat
    BY <1>1, TypedCall, RiskAssumption DEF RiskInv, SeenInv, CallsTyped, Counts
  <1>3. ledger' = ledger /\ \A u \in Traces \ {t} : history'[u] = history[u]
    BY DEF TrimHistory, CallsTyped
  <1> HIDE DEF t
  <1>4. WholeInv'
    BY <1>2, <1>3 DEF RiskInv, WholeInv
  <1>5. SeenInv'
    BY <1>1, <1>3 DEF RiskInv, SeenInv, Trace
  <1>6. RepeatedRiskEscalates'
    BY <1>1, <1>3 DEF RiskInv, RepeatedRiskEscalates, At, Trace
  <1> QED
    BY <1>4, <1>5, <1>6 DEF RiskInv

\* The other steps have to do with neither scores nor histories.
LEMMA RiskOther ==
    ASSUME CallsTyped, RiskInv, UNCHANGED <<history, ledger>>,
           \A d \in Calls : call'[d] = call[d] \/ call'[d].pc \notin {"begun", "recording", "trimming"}
    PROVE  RiskInv'
  <1>1. WholeInv'
    BY DEF RiskInv, WholeInv
  <1>2. SeenInv'
    BY DEF RiskInv, SeenInv, Trace
  <1>3. RepeatedRiskEscalates'
    BY DEF RiskInv, RepeatedRiskEscalates, At, Trace
  <1> QED
    BY <1>1, <1>2, <1>3 DEF RiskInv

LEMMA RiskNext == CallsTyped /\ RiskInv /\ [CallsNext]_callVars => RiskInv'
  <1> SUFFICES ASSUME CallsTyped, RiskInv, [CallsNext]_callVars
               PROVE  RiskInv'
    OBVIOUS
  <1>1. ASSUME Load \/ (\E t \in Registrable : Register(t)) \/ UNCHANGED callVars
        PROVE  RiskInv'
    <2>1. UNCHANGED <<call, history, ledger>>
      BY <1>1 DEF Load, Register, callVars
    <2> QED
      BY <2>1, RiskOther
  <1>2. ASSUME NEW c \in Calls, EvaluatePolicy(c) \/ StageRaises(c) \/ LogDecision(c) \/ FailClosed(c)
        PROVE  RiskInv'
    <2>1. UNCHANGED <<history, ledger>>
      BY <1>2 DEF EvaluatePolicy, StageRaises, LogDecision, FailClosed
    <2>2. \A d \in Calls : call'[d] = call[d] \/ call'[d].pc \notin {"begun", "recording", "trimming"}
      BY <1>2 DEF EvaluatePolicy, StageRaises, LogDecision, FailClosed, Go, CallsTyped, CallState
    <2> QED
      BY <2>1, <2>2, RiskOther
  <1>3. ASSUME NEW c \in Calls, Ask(c) \/ Execute(c)
        PROVE  RiskInv'
    <2>1. UNCHANGED <<history, ledger>>
      BY <1>3 DEF Ask, Execute
    <2>2. \A d \in Calls : call'[d] = call[d] \/ call'[d].pc \notin {"begun", "recording", "trimming"}
      BY <1>3 DEF Ask, Execute, CallsTyped, CallState
    <2> QED
      BY <2>1, <2>2, RiskOther
  <1>4. ASSUME NEW c \in Calls, Begin(c) \/ ThreadStep(c) \/ StageRaises(c) \/ Ask(c)
        PROVE  RiskInv'
    BY <1>2, <1>3, <1>4, RiskBegin, RiskScored, RiskRecorded, RiskTrimmed DEF ThreadStep
  <1> QED
    BY <1>1, <1>4 DEF CallsNext

\* Repeated risk in a trace raises the score whatever threads score at the
\* same time, as long as the history has not reached its limit.
THEOREM RepetitionEscalates == CallsSpec => []RepeatedRiskEscalates
  <1>1. RiskInv => RepeatedRiskEscalates
    BY DEF RiskInv
  <1> QED
    BY <1>1, CallsTypeCorrect, RiskInit, RiskNext, PTL DEF CallsSpec

=============================================================================
