---------------------------- MODULE PolicyProofs ----------------------------
(***************************************************************************)
(* Facts about the decision function and the counters, for every set of    *)
(* calls and every policy, that the proofs about the stores rest on.       *)
(***************************************************************************)
EXTENDS Policy, FiniteSetTheorems, WellFoundedInduction, TLAPS

-----------------------------------------------------------------------------
(***************************************************************************)
(* The decision function.                                                  *)
(***************************************************************************)

\* A call's fingerprint is one of the fingerprints that are counted.
LEMMA FingerprintType ==
  ASSUME NEW c \in Call
  PROVE  c.name \in Tool /\ FingerprintOf(c) \in Fingerprint
BY CallAssumption, BoundedAssumption DEF FingerprintOf, Fingerprint

\* Evaluation always gives one of the three kinds of decision.
LEMMA EvaluateType ==
  ASSUME NEW c \in Call, NEW u
  PROVE  Evaluate(u, c) \in Decision
<1>1. RuleDecision(c) \in Decision
  <2>1. CASE \E i \in DOMAIN Rules : IsFirstMatch(i, c)
    <3> DEFINE first == CHOOSE i \in DOMAIN Rules : IsFirstMatch(i, c)
    <3>1. first \in DOMAIN Rules
      BY <2>1
    <3> HIDE DEF first
    <3>2. Rules[first].decision \in DecisionKind
      <4>1. Rules \in Seq(Rule)
        BY RulesAssumption
      <4>2. \A r \in Rule : r.decision \in DecisionKind
        BY DEF Rule
      <4>3. Rules[first] \in Rule
        BY <3>1, <4>1
      <4> QED
        BY <4>2, <4>3
    <3>3. [kind |-> Rules[first].decision, code |-> "rule_match"] \in Decision
      BY <3>2 DEF Decision, Code
    <3> QED
      BY <2>1, <3>3 DEF RuleDecision, first
  <2>2. CASE ~ \E i \in DOMAIN Rules : IsFirstMatch(i, c)
    BY <2>2, RulesAssumption DEF RuleDecision, Decision, Code
  <2> QED
    BY <2>1, <2>2
<1>2. [kind |-> "block", code |-> BudgetCode(u, c)] \in Decision
  BY DEF Decision, Code, BudgetCode, DecisionKind
<1> QED
  BY <1>1, <1>2 DEF Evaluate

\* A decision that reserves, approved or not, was taken with room in the
\* budget.
LEMMA ReservationHasRoom ==
  ASSUME NEW c \in Call, NEW u, NEW approved \in BOOLEAN,
         ReservesUsage(Evaluate(u, c), approved)
  PROVE  ~BudgetSpent(u, c)
BY DEF ReservesUsage, Evaluate

\* Recording a call keeps the counters natural numbers.
LEMMA RecordType ==
  ASSUME NEW c \in Call, NEW u \in Usage
  PROVE  Record(u, c) \in Usage
<1>1. c.name \in Tool /\ FingerprintOf(c) \in Fingerprint
  BY FingerprintType
<1>2. u.tool_calls + 1 \in Nat
  BY DEF Usage
<1>3. u.estimated_cost_usd + c.estimated_cost_usd \in Nat
  BY CallAssumption DEF Usage
<1>4. [u.calls_by_tool EXCEPT ![c.name] = @ + 1] \in [Tool -> Nat]
  BY <1>1 DEF Usage
<1>5. [u.calls_by_fingerprint EXCEPT ![FingerprintOf(c)] = @ + 1]
        \in [Fingerprint -> Nat]
  BY <1>1 DEF Usage
<1> QED
  BY <1>2, <1>3, <1>4, <1>5 DEF Record, Usage

LEMMA EmptyUsageType == EmptyUsage \in Usage
BY DEF EmptyUsage, Usage

\* Granting one more call adds one to its own counts and to no other.
LEMMA GrantOne ==
  ASSUME NEW c \in Call, NEW S \in SUBSET Call, IsFiniteSet(S), c \notin S
  PROVE  /\ IsFiniteSet(S \union {c})
         /\ Cardinality(S \union {c}) = Cardinality(S) + 1
         /\ \A t : Cardinality(OfTool(S \union {c}, t)) =
               Cardinality(OfTool(S, t)) + (IF c.name = t THEN 1 ELSE 0)
         /\ \A f : Cardinality(OfFingerprint(S \union {c}, f)) =
               Cardinality(OfFingerprint(S, f)) + (IF FingerprintOf(c) = f THEN 1 ELSE 0)
<1>1. IsFiniteSet(S \union {c}) /\ Cardinality(S \union {c}) = Cardinality(S) + 1
  BY FS_AddElement
<1>2. ASSUME NEW P \in SUBSET S
      PROVE  /\ IsFiniteSet(P) /\ Cardinality(P) \in Nat
             /\ Cardinality(P \union {c}) = Cardinality(P) + 1
  BY FS_Subset, FS_AddElement, FS_CardinalityType
<1>3. ASSUME NEW t
      PROVE  Cardinality(OfTool(S \union {c}, t)) =
               Cardinality(OfTool(S, t)) + (IF c.name = t THEN 1 ELSE 0)
  <2>1. OfTool(S, t) \in SUBSET S
    BY DEF OfTool
  <2>2. CASE c.name = t
    <3>1. OfTool(S \union {c}, t) = OfTool(S, t) \union {c}
      BY <2>2 DEF OfTool
    <3> QED
      BY <1>2, <2>1, <2>2, <3>1
  <2>3. CASE c.name # t
    <3>1. OfTool(S \union {c}, t) = OfTool(S, t)
      BY <2>3 DEF OfTool
    <3>2. Cardinality(OfTool(S, t)) \in Nat
      BY <1>2, <2>1
    <3> QED
      BY <2>3, <3>1, <3>2
  <2> QED
    BY <2>2, <2>3
<1>4. ASSUME NEW f
      PROVE  Cardinality(OfFingerprint(S \union {c}, f)) =
               Cardinality(OfFingerprint(S, f)) + (IF FingerprintOf(c) = f THEN 1 ELSE 0)
  <2>1. OfFingerprint(S, f) \in SUBSET S
    BY DEF OfFingerprint
  <2>2. CASE FingerprintOf(c) = f
    <3>1. OfFingerprint(S \union {c}, f) = OfFingerprint(S, f) \union {c}
      BY <2>2 DEF OfFingerprint
    <3> QED
      BY <1>2, <2>1, <2>2, <3>1
  <2>3. CASE FingerprintOf(c) # f
    <3>1. OfFingerprint(S \union {c}, f) = OfFingerprint(S, f)
      BY <2>3 DEF OfFingerprint
    <3>2. Cardinality(OfFingerprint(S, f)) \in Nat
      BY <1>2, <2>1
    <3> QED
      BY <2>3, <3>1, <3>2
  <2> QED
    BY <2>2, <2>3
<1> QED
  BY <1>1, <1>3, <1>4

\* A subset is counted lower.
LEMMA SubsetCounts ==
  ASSUME NEW S, NEW P \in SUBSET S, IsFiniteSet(S)
  PROVE  /\ IsFiniteSet(P) /\ Cardinality(P) \in Nat /\ Cardinality(S) \in Nat
         /\ Cardinality(P) <= Cardinality(S)
BY FS_Subset, FS_CardinalityType

\* A usage record that counts S, and H in part, counts S and c once c is
\* recorded in it.
LEMMA RecordCounts ==
  ASSUME NEW c \in Call, NEW S \in SUBSET Call, NEW H \in SUBSET Call,
         IsFiniteSet(S), IsFiniteSet(H), c \notin S, c \notin H,
         NEW u \in Usage, CountsBut(u, S, H)
  PROVE  CountsBut(Record(u, c), S \union {c}, H)
<1>1. c.name \in Tool /\ FingerprintOf(c) \in Fingerprint
  BY FingerprintType
<1>2. /\ Record(u, c).tool_calls = u.tool_calls + 1
      /\ \A t \in Tool : Record(u, c).calls_by_tool[t] =
            u.calls_by_tool[t] + (IF c.name = t THEN 1 ELSE 0)
      /\ \A f \in Fingerprint : Record(u, c).calls_by_fingerprint[f] =
            u.calls_by_fingerprint[f] + (IF FingerprintOf(c) = f THEN 1 ELSE 0)
  BY <1>1 DEF Record, Usage
<1> DEFINE B == S \union H
<1>3. IsFiniteSet(B) /\ B \in SUBSET Call /\ c \notin B
  BY FS_Union
<1>4. (S \union {c}) \union H = B \union {c}
  OBVIOUS
<1>5. /\ Cardinality(B \union {c}) = Cardinality(B) + 1
      /\ \A t : Cardinality(OfTool(B \union {c}, t)) =
           Cardinality(OfTool(B, t)) + (IF c.name = t THEN 1 ELSE 0)
  <2> HIDE DEF B
  <2> QED
    BY <1>3, GrantOne
<1>6. \A f : Cardinality(OfFingerprint(S \union {c}, f)) =
        Cardinality(OfFingerprint(S, f)) + (IF FingerprintOf(c) = f THEN 1 ELSE 0)
  BY GrantOne
<1>7. /\ u.tool_calls = Cardinality(B)
      /\ \A t \in Tool : u.calls_by_tool[t] = Cardinality(OfTool(B, t))
      /\ \A f \in Fingerprint : u.calls_by_fingerprint[f] = Cardinality(OfFingerprint(S, f))
  BY DEF CountsBut
<1> HIDE DEF B
<1> DEFINE after == Record(u, c)
<1> HIDE DEF after
<1>8. after.tool_calls = Cardinality(B \union {c})
  BY <1>2, <1>5, <1>7 DEF after
<1>9. \A t \in Tool : after.calls_by_tool[t] = Cardinality(OfTool(B \union {c}, t))
  BY <1>2, <1>5, <1>7 DEF after
<1>10. \A f \in Fingerprint :
         after.calls_by_fingerprint[f] = Cardinality(OfFingerprint(S \union {c}, f))
  BY <1>2, <1>6, <1>7 DEF after
<1>11. CountsBut(after, S \union {c}, H)
  BY <1>4, <1>8, <1>9, <1>10 DEF CountsBut
<1> QED
  BY <1>11 DEF after

\* And H and c in part, once c is recorded in part.
LEMMA RecordPartlyCounts ==
  ASSUME NEW c \in Call, NEW S \in SUBSET Call, NEW H \in SUBSET Call,
         IsFiniteSet(S), IsFiniteSet(H), c \notin S, c \notin H,
         NEW u \in Usage, CountsBut(u, S, H)
  PROVE  CountsBut(RecordPartly(u, c), S, H \union {c})
<1>1. c.name \in Tool
  BY FingerprintType
<1>2. /\ RecordPartly(u, c).tool_calls = u.tool_calls + 1
      /\ \A t \in Tool : RecordPartly(u, c).calls_by_tool[t] =
            u.calls_by_tool[t] + (IF c.name = t THEN 1 ELSE 0)
      /\ RecordPartly(u, c).calls_by_fingerprint = u.calls_by_fingerprint
  BY <1>1 DEF RecordPartly, Usage
<1> DEFINE B == S \union H
<1>3. IsFiniteSet(B) /\ B \in SUBSET Call /\ c \notin B
  BY FS_Union
<1>4. S \union (H \union {c}) = B \union {c}
  OBVIOUS
<1>5. /\ Cardinality(B \union {c}) = Cardinality(B) + 1
      /\ \A t : Cardinality(OfTool(B \union {c}, t)) =
           Cardinality(OfTool(B, t)) + (IF c.name = t THEN 1 ELSE 0)
  <2> HIDE DEF B
  <2> QED
    BY <1>3, GrantOne
<1>6. /\ u.tool_calls = Cardinality(B)
      /\ \A t \in Tool : u.calls_by_tool[t] = Cardinality(OfTool(B, t))
      /\ \A f \in Fingerprint : u.calls_by_fingerprint[f] = Cardinality(OfFingerprint(S, f))
  BY DEF CountsBut
<1> HIDE DEF B
<1> QED
  BY <1>2, <1>4, <1>5, <1>6 DEF CountsBut

LEMMA RecordPartlyType ==
  ASSUME NEW c \in Call, NEW u \in Usage
  PROVE  RecordPartly(u, c) \in Usage
<1>1. u.tool_calls + 1 \in Nat /\ u.estimated_cost_usd + c.estimated_cost_usd \in Nat
  BY CallAssumption DEF Usage
<1>2. [u.calls_by_tool EXCEPT ![c.name] = @ + 1] \in [Tool -> Nat]
  BY FingerprintType DEF Usage
<1> QED
  BY <1>1, <1>2 DEF RecordPartly, Usage

\* A count below its limit can take one more.
LEMMA OneMoreFits ==
  ASSUME NEW limit \in CountLimit, NEW n \in Nat,
         NEW d \in {0, 1}, AtMost(n, limit), d = 1 => ~Exhausted(n, limit)
  PROVE  AtMost(n + d, limit)
BY BudgetAssumption DEF CountLimit, AtMost, Exhausted

\* Where a count is not exhausted, a lower one is not.
LEMMA LowerHasRoom ==
  ASSUME NEW limit \in CountLimit, NEW n \in Nat, NEW m \in Nat, n <= m,
         ~Exhausted(m, limit)
  PROVE  ~Exhausted(n, limit)
BY BudgetAssumption DEF CountLimit, Exhausted

\* With room in the budget, the counts stay within it when c is added; what
\* the record counts besides only leaves less room.
LEMMA RoomForOne ==
  ASSUME NEW c \in Call, NEW S \in SUBSET Call, NEW H \in SUBSET Call,
         IsFiniteSet(S), IsFiniteSet(H), c \notin S,
         NEW u \in Usage, CountsBut(u, S, H), CountsWithinBudget(S),
         AtMost(u.estimated_cost_usd, MaxCost), ~BudgetSpent(u, c)
  PROVE  /\ CountsWithinBudget(S \union {c})
         /\ AtMost(Record(u, c).estimated_cost_usd, MaxCost)
<1>1. c.name \in Tool /\ FingerprintOf(c) \in Fingerprint
  BY FingerprintType
<1> DEFINE B == S \union H
<1>0. IsFiniteSet(B) /\ S \subseteq B
  BY FS_Union
<1>2. AtMost(Cardinality(S \union {c}), MaxCalls)
  <2>1. u.tool_calls = Cardinality(B)
    BY DEF CountsBut
  <2>2. /\ Cardinality(S) \in Nat /\ Cardinality(B) \in Nat
        /\ Cardinality(S) <= Cardinality(B)
    <3> HIDE DEF B
    <3> QED
      BY <1>0, SubsetCounts
  <2>3. AtMost(Cardinality(S), MaxCalls) /\ ~Exhausted(Cardinality(B), MaxCalls)
    BY <2>1 DEF CountsWithinBudget, BudgetSpent
  <2> HIDE DEF B
  <2>4. ~Exhausted(Cardinality(S), MaxCalls)
    BY <2>2, <2>3, LowerHasRoom, BudgetAssumption
  <2>5. AtMost(Cardinality(S) + 1, MaxCalls)
    BY <2>2, <2>3, <2>4, OneMoreFits, BudgetAssumption
  <2> QED
    BY <2>5, GrantOne
<1>3. ASSUME NEW t \in Tool
      PROVE  AtMost(Cardinality(OfTool(S \union {c}, t)), MaxCallsPerTool)
  <2>1. u.calls_by_tool[t] = Cardinality(OfTool(B, t))
    BY DEF CountsBut
  <2>2. AtMost(Cardinality(OfTool(S, t)), MaxCallsPerTool)
    BY DEF CountsWithinBudget
  <2>3. c.name = t => ~Exhausted(Cardinality(OfTool(B, t)), MaxCallsPerTool)
    BY <2>1 DEF BudgetSpent
  <2>6. /\ Cardinality(OfTool(S, t)) \in Nat /\ Cardinality(OfTool(B, t)) \in Nat
        /\ Cardinality(OfTool(S, t)) <= Cardinality(OfTool(B, t))
    <3>1. OfTool(B, t) \in SUBSET B /\ OfTool(S, t) \in SUBSET OfTool(B, t)
      BY <1>0 DEF OfTool
    <3> HIDE DEF B
    <3>2. IsFiniteSet(OfTool(B, t))
      BY <1>0, <3>1, SubsetCounts
    <3> QED
      BY <3>1, <3>2, SubsetCounts
  <2> HIDE DEF B
  <2>7. c.name = t => ~Exhausted(Cardinality(OfTool(S, t)), MaxCallsPerTool)
    BY <2>3, <2>6, LowerHasRoom, BudgetAssumption
  <2> DEFINE d == IF c.name = t THEN 1 ELSE 0
  <2>4. AtMost(Cardinality(OfTool(S, t)) + d, MaxCallsPerTool)
    <3>1. d \in {0, 1} /\ (d = 1 => c.name = t)
      OBVIOUS
    <3> HIDE DEF d
    <3> QED
      BY <2>2, <2>6, <2>7, <3>1, OneMoreFits, BudgetAssumption
  <2>5. Cardinality(OfTool(S \union {c}, t)) = Cardinality(OfTool(S, t)) + d
    BY GrantOne
  <2> QED
    BY <2>4, <2>5
<1>4. ASSUME NEW f \in Fingerprint
      PROVE  AtMost(Cardinality(OfFingerprint(S \union {c}, f)), MaxIdenticalCalls)
  <2>1. /\ u.calls_by_fingerprint[f] = Cardinality(OfFingerprint(S, f))
        /\ u.calls_by_fingerprint[f] \in Nat
    BY DEF CountsBut, Usage
  <2>2. AtMost(Cardinality(OfFingerprint(S, f)), MaxIdenticalCalls)
    BY DEF CountsWithinBudget
  <2>3. FingerprintOf(c) = f =>
          ~Exhausted(Cardinality(OfFingerprint(S, f)), MaxIdenticalCalls)
    BY <2>1 DEF BudgetSpent
  <2> DEFINE d == IF FingerprintOf(c) = f THEN 1 ELSE 0
  <2>4. AtMost(Cardinality(OfFingerprint(S, f)) + d, MaxIdenticalCalls)
    <3>1. d \in {0, 1} /\ (d = 1 => FingerprintOf(c) = f)
      OBVIOUS
    <3> HIDE DEF d
    <3> QED
      BY <2>1, <2>2, <2>3, <3>1, OneMoreFits, BudgetAssumption
  <2>5. Cardinality(OfFingerprint(S \union {c}, f)) = Cardinality(OfFingerprint(S, f)) + d
    BY GrantOne
  <2> QED
    BY <2>4, <2>5
<1>5. AtMost(Record(u, c).estimated_cost_usd, MaxCost)
  BY CallAssumption, BudgetAssumption
     DEF CostLimit, AtMost, BudgetSpent, CostExceeded, Record, Usage
<1> QED
  BY <1>2, <1>3, <1>4, <1>5 DEF CountsWithinBudget

\* Recording a call, even in part, makes room for no call.
LEMMA RecordKeepsSpent ==
  ASSUME NEW c \in Call, NEW other \in Call, NEW u \in Usage, BudgetSpent(u, other),
         NEW after \in {Record(u, c), RecordPartly(u, c)}
  PROVE  BudgetSpent(after, other)
<1> DEFINE f == FingerprintOf(other)
<1>1. /\ c.name \in Tool /\ FingerprintOf(c) \in Fingerprint
      /\ other.name \in Tool /\ f \in Fingerprint
  BY FingerprintType
<1>2. c.estimated_cost_usd \in Nat /\ other.estimated_cost_usd \in Nat
  BY CallAssumption
<1>3. /\ u.tool_calls \in Nat /\ after.tool_calls = u.tool_calls + 1
      /\ u.estimated_cost_usd \in Nat
      /\ after.estimated_cost_usd = u.estimated_cost_usd + c.estimated_cost_usd
  BY DEF Record, RecordPartly, Usage
<1>4. /\ u.calls_by_tool[other.name] \in Nat
      /\ after.calls_by_tool[other.name] \in
           {u.calls_by_tool[other.name], u.calls_by_tool[other.name] + 1}
  <2>1. CASE after = Record(u, c)
    BY <1>1, <2>1 DEF Record, Usage
  <2>2. CASE after = RecordPartly(u, c)
    BY <1>1, <2>2 DEF RecordPartly, Usage
  <2> QED
    BY <2>1, <2>2
<1>5. /\ u.calls_by_fingerprint[f] \in Nat
      /\ after.calls_by_fingerprint[f] \in
           {u.calls_by_fingerprint[f], u.calls_by_fingerprint[f] + 1}
  <2>1. CASE after = Record(u, c)
    BY <1>1, <2>1 DEF Record, Usage
  <2>2. CASE after = RecordPartly(u, c)
    BY <1>1, <2>2 DEF RecordPartly, Usage
  <2> QED
    BY <2>1, <2>2
<1>6. ASSUME NEW limit \in CountLimit, NEW n \in Nat,
             NEW m \in {n, n + 1}, Exhausted(n, limit)
      PROVE  Exhausted(m, limit)
  BY <1>6, BudgetAssumption DEF CountLimit, Exhausted
<1>7. CostExceeded(u, other) => CostExceeded(after, other)
  BY <1>2, <1>3, BudgetAssumption DEF CostLimit, CostExceeded
<1> HIDE DEF f
<1>8. Exhausted(u.tool_calls, MaxCalls) => Exhausted(after.tool_calls, MaxCalls)
  BY <1>3, <1>6, BudgetAssumption
<1>9. Exhausted(u.calls_by_tool[other.name], MaxCallsPerTool) =>
        Exhausted(after.calls_by_tool[other.name], MaxCallsPerTool)
  BY <1>4, <1>6, BudgetAssumption
<1>10. Exhausted(u.calls_by_fingerprint[f], MaxIdenticalCalls) =>
         Exhausted(after.calls_by_fingerprint[f], MaxIdenticalCalls)
  BY <1>5, <1>6, BudgetAssumption
<1> QED
  BY <1>7, <1>8, <1>9, <1>10 DEF BudgetSpent, f

-----------------------------------------------------------------------------
(***************************************************************************)
(* Sums over finite sets.  SumFunctionOnSet iterates a fold over the       *)
(* subsets of the set, each time taking out an element it chooses: that    *)
(* such a fold exists, and that any element could have been taken out, is  *)
(* proved by induction on the size of the subset.                          *)
(***************************************************************************)

\* Induction over the naturals, of a set in place of a predicate.
LEMMA InductionOnNat ==
  ASSUME NEW S, 0 \in S, \A n \in Nat : n \in S => n + 1 \in S
  PROVE  \A n \in Nat : n \in S
<1> DEFINE Out == {n \in Nat : n \notin S}
           Before == OpToRel(<, Nat)
<1>1. SUFFICES ASSUME Out # {}
               PROVE  FALSE
  OBVIOUS
<1>2. \A k, n \in Nat : k < n => <<k, n>> \in Before
  BY DEF OpToRel
<1>3. IsWellFoundedOn(Before, Nat) /\ Out \subseteq Nat
  BY NatLessThanWellFounded
<1> HIDE DEF Before
<1>4. PICK n \in Out : \A k \in Out : <<k, n>> \notin Before
  <2> HIDE DEF Out
  <2> QED
    BY <1>1, <1>3, WFMin, Zenon
<1>5. n \in Nat /\ n # 0
  OBVIOUS
<1>6. n - 1 \in Nat /\ n - 1 < n
  BY <1>5
<1>7. n - 1 \notin Out
  BY <1>2, <1>4, <1>5, <1>6
<1>8. n - 1 \in S /\ (n - 1) + 1 = n
  BY <1>6, <1>7
<1> QED
  BY <1>4, <1>6, <1>8

Some(s) == CHOOSE x \in s : TRUE

\* g is the fold that SumFunctionOnSet iterates, on the sets of D.
IsSum(g, D, w) ==
  g = [s \in D |-> IF s = {} THEN 0 ELSE w[Some(s)] + g[s \ {Some(s)}]]

Small(S, n) == {s \in SUBSET S : Cardinality(s) <= n}

LEMMA SmallRest ==
  ASSUME NEW S, IsFiniteSet(S), NEW n \in Nat, NEW s \in Small(S, n + 1), s # {}
  PROVE  Some(s) \in s /\ s \ {Some(s)} \in Small(S, n)
<1>1. Some(s) \in s
  BY DEF Some
<1>2. IsFiniteSet(s) /\ Cardinality(s) \in Nat
  BY FS_Subset, FS_CardinalityType DEF Small
<1>3. Cardinality(s \ {Some(s)}) = Cardinality(s) - 1
  BY <1>1, <1>2, FS_RemoveElement
<1> QED
  BY <1>1, <1>2, <1>3 DEF Small

LEMMA SmallIsAll ==
  ASSUME NEW S, IsFiniteSet(S)
  PROVE  /\ Cardinality(S) \in Nat /\ Small(S, Cardinality(S)) = SUBSET S
         /\ \A n \in Nat : Small(S, n) \subseteq Small(S, n + 1)
         /\ \A s \in Small(S, 0) : s = {}
<1>1. ASSUME NEW s \in SUBSET S
      PROVE  IsFiniteSet(s) /\ Cardinality(s) \in Nat /\ Cardinality(s) <= Cardinality(S)
  BY FS_Subset, FS_CardinalityType
<1>2. \A s \in SUBSET S : Cardinality(s) <= 0 => s = {}
  BY <1>1, FS_EmptySet
<1> QED
  BY <1>1, <1>2, FS_CardinalityType DEF Small

LEMMA SumExists ==
  ASSUME NEW S, IsFiniteSet(S), NEW w
  PROVE  \E g : IsSum(g, SUBSET S, w)
<1> DEFINE Levels == {n \in Nat : \E g : IsSum(g, Small(S, n), w)}
           f(h, n) == [s \in Small(S, n) |->
                         IF s = {} THEN 0 ELSE w[Some(s)] + h[s \ {Some(s)}]]
<1>1. 0 \in Levels
  <2> DEFINE g == [s \in Small(S, 0) |-> 0]
  <2>1. g = f(g, 0)
    BY SmallIsAll
  <2> QED
    BY <2>1 DEF IsSum
<1>2. ASSUME NEW n \in Nat, n \in Levels
      PROVE  n + 1 \in Levels
  <2>1. PICK g : IsSum(g, Small(S, n), w)
    BY <1>2
  <2> DEFINE h == f(g, n + 1)
  <2>2. ASSUME NEW s \in Small(S, n)
        PROVE  h[s] = g[s]
    <3>1. s \in Small(S, n + 1)
      BY <2>2, SmallIsAll
    <3>2. g[s] = IF s = {} THEN 0 ELSE w[Some(s)] + g[s \ {Some(s)}]
      BY <2>1 DEF IsSum
    <3> QED
      BY <3>1, <3>2
  <2>3. ASSUME NEW s \in Small(S, n + 1), s # {}
        PROVE  h[s \ {Some(s)}] = g[s \ {Some(s)}]
    BY <2>2, <2>3, SmallRest
  <2>4. f(g, n + 1) = f(h, n + 1)
    BY <2>3
  <2>5. IsSum(h, Small(S, n + 1), w)
    BY <2>4 DEF IsSum
  <2> QED
    BY <2>5
<1>3. \A n \in Nat : n \in Levels
  <2> HIDE DEF Levels
  <2> QED
    BY <1>1, <1>2, InductionOnNat
<1>4. Cardinality(S) \in Levels
  BY <1>3, SmallIsAll
<1>5. PICK g : IsSum(g, Small(S, Cardinality(S)), w)
  BY <1>4
<1>6. Small(S, Cardinality(S)) = SUBSET S
  BY SmallIsAll
<1> QED
  BY <1>5, <1>6, Zenon

\* Two such folds agree where both are defined, if the weights do.
LEMMA SumUnique ==
  ASSUME NEW S, IsFiniteSet(S), NEW T \in SUBSET S, NEW v, NEW w,
         \A x \in T : v[x] = w[x],
         NEW g, NEW h, IsSum(g, SUBSET S, v), IsSum(h, SUBSET T, w)
  PROVE  g[T] = h[T]
<1> DEFINE Same == {n \in Nat : \A s \in Small(T, n) : g[s] = h[s]}
<1>1. IsFiniteSet(T)
  BY FS_Subset
<1>2. ASSUME NEW s \in SUBSET T
      PROVE  /\ g[s] = IF s = {} THEN 0 ELSE w[Some(s)] + g[s \ {Some(s)}]
             /\ h[s] = IF s = {} THEN 0 ELSE w[Some(s)] + h[s \ {Some(s)}]
  <2>1. s # {} => Some(s) \in T
    BY DEF Some
  <2>2. s \in SUBSET S
    OBVIOUS
  <2> QED
    BY <2>1, <2>2 DEF IsSum
<1>3. 0 \in Same
  <2>1. \A s \in Small(T, 0) : s = {} /\ s \in SUBSET T
    BY <1>1, SmallIsAll DEF Small
  <2> QED
    BY <1>2, <2>1
<1>4. ASSUME NEW n \in Nat, n \in Same
      PROVE  n + 1 \in Same
  <2>1. ASSUME NEW s \in Small(T, n + 1), s # {}
        PROVE  g[s] = h[s]
    <3>1. g[s \ {Some(s)}] = h[s \ {Some(s)}]
      BY <1>1, <1>4, <2>1, SmallRest
    <3>2. s \in SUBSET T
      BY DEF Small
    <3> QED
      BY <1>2, <3>1, <3>2
  <2>2. ASSUME NEW s \in Small(T, n + 1), s = {}
        PROVE  g[s] = h[s]
    BY <1>2, <2>2
  <2> QED
    BY <2>1, <2>2
<1>5. \A n \in Nat : n \in Same
  <2> HIDE DEF Same
  <2> QED
    BY <1>3, <1>4, InductionOnNat
<1>6. T \in Small(T, Cardinality(T)) /\ Cardinality(T) \in Nat
  BY <1>1, SmallIsAll
<1> QED
  BY <1>5, <1>6

LEMMA SumDef ==
  ASSUME NEW S, IsFiniteSet(S), NEW w
  PROVE  \E g : IsSum(g, SUBSET S, w) /\ SumFunctionOnSet(w, S) = g[S]
<1> DEFINE iter == CHOOSE g : IsSum(g, SUBSET S, w)
<1>1. IsSum(iter, SUBSET S, w)
  BY SumExists
<1>2. SumFunctionOnSet(w, S) = iter[S]
  BY DEF SumFunctionOnSet, FoldFunctionOnSet, MapThenFoldSet, IsSum, Some
<1> QED
  BY <1>1, <1>2

\* The sum depends on the weights of the elements alone.
LEMMA SumCongruent ==
  ASSUME NEW S, IsFiniteSet(S), NEW v, NEW w, \A x \in S : v[x] = w[x]
  PROVE  SumFunctionOnSet(v, S) = SumFunctionOnSet(w, S)
<1>1. PICK g : IsSum(g, SUBSET S, v) /\ SumFunctionOnSet(v, S) = g[S]
  BY SumDef
<1>2. PICK h : IsSum(h, SUBSET S, w) /\ SumFunctionOnSet(w, S) = h[S]
  BY SumDef
<1>3. g[S] = h[S]
  BY <1>1, <1>2, SumUnique
<1> QED
  BY <1>1, <1>2, <1>3

LEMMA SumTakesSome ==
  ASSUME NEW S, IsFiniteSet(S), NEW w
  PROVE  SumFunctionOnSet(w, S) =
           IF S = {} THEN 0 ELSE w[Some(S)] + SumFunctionOnSet(w, S \ {Some(S)})
<1> DEFINE T == S \ {Some(S)}
<1>1. IsFiniteSet(T) /\ T \subseteq S
  BY FS_RemoveElement
<1>2. PICK h : IsSum(h, SUBSET S, w) /\ SumFunctionOnSet(w, S) = h[S]
  BY SumDef
<1> HIDE DEF T
<1>3. PICK g : IsSum(g, SUBSET T, w) /\ SumFunctionOnSet(w, T) = g[T]
  BY <1>1, SumDef
<1>4. h[T] = g[T]
  BY <1>1, <1>2, <1>3, SumUnique
<1>5. h[S] = IF S = {} THEN 0 ELSE w[Some(S)] + h[T]
  BY <1>2 DEF IsSum, T
<1> QED
  BY <1>2, <1>3, <1>4, <1>5 DEF T

\* Any element can be taken out first.
LEMMA SumTakes ==
  ASSUME NEW S, IsFiniteSet(S), NEW w, \A x \in S : w[x] \in Nat
  PROVE  /\ SumFunctionOnSet(w, S) \in Nat
         /\ \A x \in S : SumFunctionOnSet(w, S) = w[x] + SumFunctionOnSet(w, S \ {x})
<1> DEFINE Sum(s) == SumFunctionOnSet(w, s)
           Done == {n \in Nat : \A s \in Small(S, n) :
                      Sum(s) \in Nat /\ \A x \in s : Sum(s) = w[x] + Sum(s \ {x})}
<1>1. ASSUME NEW s \in SUBSET S
      PROVE  Sum(s) = IF s = {} THEN 0 ELSE w[Some(s)] + Sum(s \ {Some(s)})
  BY FS_Subset, SumTakesSome
<1> HIDE DEF Sum
<1>0. Sum({}) = 0
  BY <1>1
<1>2. 0 \in Done
  <2>1. ASSUME NEW s \in Small(S, 0)
        PROVE  s = {} /\ Sum(s) = 0
    <3>1. s = {}
      BY SmallIsAll
    <3> QED
      BY <1>0, <3>1, Zenon
  <2> QED
    BY <2>1
<1>3. ASSUME NEW n \in Nat, n \in Done
      PROVE  n + 1 \in Done
  <2> SUFFICES ASSUME NEW s \in Small(S, n + 1)
               PROVE  Sum(s) \in Nat /\ \A x \in s : Sum(s) = w[x] + Sum(s \ {x})
    OBVIOUS
  <2>1. s \in SUBSET S
    BY DEF Small
  <2>2. CASE s = {}
    BY <1>0, <2>2
  <2>3. CASE s # {}
    <3> DEFINE y == Some(s)
               rest == s \ {y}
    <3>1. y \in s /\ rest \in Small(S, n)
      BY <2>3, SmallRest
    <3>2. Sum(s) = w[y] + Sum(rest)
      BY <1>1, <2>1, <2>3
    <3> HIDE DEF y
    <3>3. w[y] \in Nat /\ Sum(rest) \in Nat
      BY <1>3, <2>1, <3>1
    <3>4. ASSUME NEW x \in s, x # y
          PROVE  Sum(s) = w[x] + Sum(s \ {x})
      <4>1. x \in rest /\ y \in s \ {x} /\ rest \ {x} = (s \ {x}) \ {y}
        BY <3>1, <3>4
      <4>2. s \ {x} \in Small(S, n) /\ rest \ {x} \in SUBSET S
        <5>1. IsFiniteSet(s) /\ Cardinality(s) \in Nat /\ Cardinality(s) <= n + 1
          BY <2>1, FS_Subset, FS_CardinalityType DEF Small
        <5>2. Cardinality(s \ {x}) = Cardinality(s) - 1
          BY <3>4, <5>1, FS_RemoveElement
        <5> QED
          BY <2>1, <5>1, <5>2 DEF Small
      <4>3. Sum(rest) = w[x] + Sum(rest \ {x})
        BY <1>3, <3>1, <4>1
      <4>4. Sum(s \ {x}) = w[y] + Sum(rest \ {x}) /\ Sum(s \ {x}) \in Nat
        BY <1>3, <4>1, <4>2
      <4>5. Sum(rest \ {x}) \in Nat /\ w[x] \in Nat
        <5>1. rest \ {x} \in Small(S, n)
          <6>1. IsFiniteSet(rest) /\ Cardinality(rest) \in Nat /\ Cardinality(rest) <= n
            BY <2>1, <3>1, FS_Subset, FS_CardinalityType DEF Small
          <6>2. Cardinality(rest \ {x}) <= Cardinality(rest) /\ Cardinality(rest \ {x}) \in Nat
            BY <6>1, FS_Subset, FS_CardinalityType
          <6> QED
            BY <4>2, <6>1, <6>2 DEF Small
        <5> QED
          BY <1>3, <2>1, <3>4, <5>1
      <4> QED
        BY <3>2, <3>3, <4>3, <4>4, <4>5
    <3>5. Sum(s) \in Nat /\ Sum(s) = w[y] + Sum(s \ {y})
      BY <3>2, <3>3
    <3> HIDE DEF rest
    <3> QED
      BY <3>4, <3>5
  <2> QED
    BY <2>2, <2>3
<1>4. \A n \in Nat : n \in Done
  <2> HIDE DEF Done
  <2> QED
    BY <1>2, <1>3, InductionOnNat
<1> QED
  BY <1>4, SmallIsAll DEF Sum

\* A part does not weigh more than the whole.
LEMMA SumMonotone ==
  ASSUME NEW S, IsFiniteSet(S), NEW w, \A x \in S : w[x] \in Nat, NEW T \in SUBSET S
  PROVE  SumFunctionOnSet(w, T) <= SumFunctionOnSet(w, S)
<1> DEFINE Sum(s) == SumFunctionOnSet(w, s)
<1>1. ASSUME NEW s \in SUBSET S
      PROVE  /\ IsFiniteSet(s) /\ Cardinality(s) \in Nat /\ Sum(s) \in Nat
             /\ \A x \in s : Sum(s) = w[x] + Sum(s \ {x})
  BY FS_Subset, FS_CardinalityType, SumTakes
<1> HIDE DEF Sum
<1> DEFINE Fits == {n \in Nat : \A s \in Small(S, n) : Sum(T) <= Sum(T \union s)}
<1>2. 0 \in Fits
  <2>1. \A s \in Small(S, 0) : T \union s = T
    BY SmallIsAll
  <2>2. \A s \in Small(S, 0) : Sum(T \union s) = Sum(T)
    BY <2>1
  <2>3. Sum(T) \in Nat
    BY <1>1
  <2> QED
    BY <2>2, <2>3
<1>3. ASSUME NEW n \in Nat, n \in Fits
      PROVE  n + 1 \in Fits
  <2> SUFFICES ASSUME NEW s \in Small(S, n + 1), s # {}
               PROVE  Sum(T) <= Sum(T \union s)
    <3>1. {} \in Small(S, n)
      BY FS_EmptySet DEF Small
    <3> QED
      BY <1>3, <3>1
  <2> DEFINE y == Some(s)
             before == T \union (s \ {y})
  <2>1. y \in s /\ s \ {y} \in Small(S, n) /\ s \in SUBSET S
    BY SmallRest DEF Small
  <2> HIDE DEF y
  <2>2. Sum(T) <= Sum(before)
    BY <1>3, <2>1
  <2>3. CASE y \in T
    <3>1. T \union s = before
      BY <2>1, <2>3
    <3> QED
      BY <2>2, <3>1
  <2>4. CASE y \notin T
    <3>1. y \in T \union s /\ (T \union s) \ {y} = before /\ T \union s \in SUBSET S
      BY <2>1, <2>4
    <3>2. Sum(T \union s) = w[y] + Sum(before)
      BY <1>1, <3>1
    <3>3. w[y] \in Nat /\ Sum(before) \in Nat /\ Sum(T) \in Nat
      BY <1>1, <2>1
    <3> QED
      BY <2>2, <3>2, <3>3
  <2> QED
    BY <2>3, <2>4
<1>4. \A n \in Nat : n \in Fits
  <2> HIDE DEF Fits
  <2> QED
    BY <1>2, <1>3, InductionOnNat
<1>5. T \union S = S /\ S \in Small(S, Cardinality(S)) /\ Cardinality(S) \in Nat
  BY SmallIsAll
<1>6. Sum(T) <= Sum(T \union S)
  BY <1>4, <1>5
<1> QED
  BY <1>5, <1>6 DEF Sum

-----------------------------------------------------------------------------
(***************************************************************************)
(* The cost of a set of calls, and the sum of a counter.                   *)
(***************************************************************************)

\* A call more costs what it costs.
LEMMA TotalCostOfOneMore ==
  ASSUME NEW S \in SUBSET Call, IsFiniteSet(S), NEW c \in Call \ S
  PROVE  /\ TotalCost(S) \in Nat
         /\ TotalCost(S \union {c}) = TotalCost(S) + c.estimated_cost_usd
<1> DEFINE w == [x \in Call |-> x.estimated_cost_usd]
           T == S \union {c}
<1>1. \A x \in Call : w[x] \in Nat
  BY CallAssumption
<1>2. IsFiniteSet(T) /\ T \subseteq Call /\ c \in T /\ T \ {c} = S
  BY FS_AddElement
<1>3. w[c] = c.estimated_cost_usd /\ w[c] \in Nat
  BY <1>1
<1> HIDE DEF w, T
<1>4. SumFunctionOnSet(w, S) \in Nat
  BY <1>1, SumTakes
<1>5. SumFunctionOnSet(w, T) = w[c] + SumFunctionOnSet(w, T \ {c})
  BY <1>1, <1>2, SumTakes
<1>6. SumFunctionOnSet(w, T) = SumFunctionOnSet(w, S) + c.estimated_cost_usd
  <2>1. SumFunctionOnSet(w, T \ {c}) = SumFunctionOnSet(w, S)
    BY <1>2, Zenon
  <2> QED
    BY <1>3, <1>4, <1>5, <2>1
<1> QED
  BY <1>4, <1>6 DEF TotalCost, w, T

LEMMA TotalCostOfNone == TotalCost({}) = 0
BY FS_EmptySet, SumTakesSome DEF TotalCost

\* Some of the calls do not cost more than all of them.
LEMMA TotalCostMonotone ==
  ASSUME NEW S \in SUBSET Call, IsFiniteSet(S), NEW T \in SUBSET S
  PROVE  TotalCost(T) <= TotalCost(S) /\ TotalCost(T) \in Nat /\ TotalCost(S) \in Nat
<1>1. \A x \in Call : [c \in Call |-> c.estimated_cost_usd][x] \in Nat
  BY CallAssumption
<1>2. IsFiniteSet(T)
  BY FS_Subset
<1> QED
  BY <1>1, <1>2, SumMonotone, SumTakes DEF TotalCost

\* One more row entry adds one to the sum of a counter.
LEMMA SumOfOneMore ==
  ASSUME NEW K, NEW f \in [K -> Nat], NEW k \in K,
         IsFiniteSet({x \in K : f[x] > 0})
  PROVE  LET g == [f EXCEPT ![k] = @ + 1]
             old == {x \in K : f[x] > 0}
             new == {x \in K : g[x] > 0} IN
         /\ IsFiniteSet(new)
         /\ SumFunctionOnSet(f, old) \in Nat
         /\ SumFunctionOnSet(g, new) = SumFunctionOnSet(f, old) + 1
<1> DEFINE g == [f EXCEPT ![k] = @ + 1]
           old == {x \in K : f[x] > 0}
           new == {x \in K : g[x] > 0}
           rest == old \ {k}
<1>1. g \in [K -> Nat] /\ g[k] = f[k] + 1 /\ \A x \in K \ {k} : g[x] = f[x]
  OBVIOUS
<1>2. new = old \union {k} /\ k \in new /\ new \ {k} = rest
  BY <1>1
<1>3. IsFiniteSet(new) /\ IsFiniteSet(rest)
  BY <1>2, FS_AddElement, FS_RemoveElement
<1>4. /\ \A x \in old : f[x] \in Nat
      /\ \A x \in new : g[x] \in Nat
      /\ \A x \in rest : g[x] = f[x]
      /\ f[k] \in Nat
      /\ k \in old <=> f[k] # 0
  BY <1>1
<1>5. k \notin old => rest = old
  OBVIOUS
<1> HIDE DEF g, old, new, rest
<1>6. /\ SumFunctionOnSet(f, old) \in Nat
      /\ k \in old => SumFunctionOnSet(f, old) = f[k] + SumFunctionOnSet(f, rest)
  BY <1>4, SumTakes DEF old, rest
<1>7. SumFunctionOnSet(g, new) = g[k] + SumFunctionOnSet(g, rest)
  <2>1. SumFunctionOnSet(g, new) = g[k] + SumFunctionOnSet(g, new \ {k})
    BY <1>2, <1>3, <1>4, SumTakes
  <2> QED
    BY <1>2, <2>1, Zenon
<1>8. SumFunctionOnSet(g, rest) = SumFunctionOnSet(f, rest)
  BY <1>3, <1>4, SumCongruent
<1>9. SumFunctionOnSet(f, rest) \in Nat
  BY <1>3, <1>4, SumTakes DEF rest
<1>10. SumFunctionOnSet(g, new) = SumFunctionOnSet(f, old) + 1
  <2>1. CASE k \in old
    BY <1>1, <1>4, <1>6, <1>7, <1>8, <1>9, <2>1
  <2>2. CASE k \notin old
    <3>1. SumFunctionOnSet(f, rest) = SumFunctionOnSet(f, old)
      BY <1>5, <2>2, Zenon
    <3> QED
      BY <1>1, <1>4, <1>7, <1>8, <1>9, <2>2, <3>1
  <2> QED
    BY <2>1, <2>2
<1> QED
  BY <1>3, <1>6, <1>10 DEF g, old, new
=============================================================================
