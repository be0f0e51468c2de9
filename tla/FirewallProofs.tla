--------------------------- MODULE FirewallProofs ---------------------------
(***************************************************************************)
(* The ledger counts exactly, within the budget, and its decisions are     *)
(* explained; and the gate on top of it keeps its promises; for every set  *)
(* of calls and processes, every policy, and every failure or crash        *)
(* between two steps.                                                      *)
(***************************************************************************)
EXTENDS Firewall, Explain, PolicyProofs, SequenceTheorems

-----------------------------------------------------------------------------
(***************************************************************************)
(* The ledger's inductive invariant.  A call that may ask is not counted   *)
(* yet, which is what the answers record; so a reservation adds one        *)
(* element to a finite set, and the budget was checked against the size of *)
(* that set.                                                               *)
(***************************************************************************)

\* Only a decision taken is a decision: the other answers hold none.  A call
\* that was counted in part has had its exception, and asks no more.
AnswerShape ==
  /\ \A c \in Call : answer[c].status # "decided" => answer[c].decision = NoDecision
  /\ \A c \in halfCounted : answer[c].status = "UnicodeEncodeError"

LedgerInv ==
  /\ LedgerTypeOk
  /\ AnswerShape
  /\ IsFiniteSet(granted) /\ IsFiniteSet(halfCounted)
  /\ CountsAgree
  /\ CountedIffMayRun
  /\ GrantedWithinBudget

LEMMA LedgerStart == LedgerInit => LedgerInv
<1> SUFFICES ASSUME LedgerInit
             PROVE  LedgerInv
  OBVIOUS
<1>1. LedgerTypeOk
  BY EmptyUsageType DEF LedgerInit, LedgerTypeOk, Answer, NoAnswer, NoDecision, Failure
<1>2. AnswerShape /\ CountedIffMayRun
  BY DEF LedgerInit, AnswerShape, CountedIffMayRun, NoAnswer, NoDecision
<1>3. IsFiniteSet({}) /\ Cardinality({}) = 0
  BY FS_EmptySet
<1>4. /\ \A t : OfTool({}, t) = {}
      /\ \A f : OfFingerprint({}, f) = {}
  BY DEF OfTool, OfFingerprint
<1>5. CountsBut(EmptyUsage, {}, {})
  BY <1>3, <1>4 DEF CountsBut, EmptyUsage
<1>6. \A limit \in Nat \union {NoLimit} : AtMost(0, limit)
  BY DEF AtMost
<1>7. CountsWithinBudget({}) /\ AtMost(0, MaxCost)
  BY <1>3, <1>4, <1>6, BudgetAssumption DEF CountLimit, CostLimit, CountsWithinBudget
<1>8. /\ CountsAgree /\ GrantedWithinBudget
      /\ IsFiniteSet(granted) /\ IsFiniteSet(halfCounted)
  BY <1>3, <1>5, <1>7 DEF LedgerInit, CountsAgree, GrantedWithinBudget, EmptyUsage
<1> QED
  BY <1>1, <1>2, <1>8 DEF LedgerInv

\* A call that may ask has not been counted, not even in part.
LEMMA AskersNotCounted ==
  ASSUME LedgerInv, NEW c \in Call, NEW approved \in BOOLEAN, MayAsk(c, approved)
  PROVE  c \notin granted /\ c \notin halfCounted
BY DEF LedgerInv, AnswerShape, CountedIffMayRun, MayAsk, Held, NoDecision

LEMMA ReserveKeeps ==
  ASSUME LedgerInv, NEW c \in Call, NEW approved \in BOOLEAN,
         EvaluateAndReserve(c, approved)
  PROVE  LedgerInv'
<1> DEFINE d == Evaluate(usage, c)
<1>1. c \notin granted /\ c \notin halfCounted
  BY AskersNotCounted DEF EvaluateAndReserve
<1>0. halfCounted' = halfCounted
  BY DEF EvaluateAndReserve
<1>2. d \in Decision
  BY EvaluateType
<1>3. answer' = [answer EXCEPT ![c] = Decided(approved, d)]
  BY DEF EvaluateAndReserve
<1>4. Decided(approved, d) \in Answer
  BY <1>2 DEF Decided, Answer
<1>5. answer' \in [Call -> Answer]
  BY <1>3, <1>4 DEF LedgerInv, LedgerTypeOk
<1>6. AnswerShape'
  BY <1>0, <1>1, <1>3 DEF LedgerInv, LedgerTypeOk, AnswerShape, Decided
<1>7. \/ granted' = granted \union {c} /\ ReservesUsage(d, approved)
      \/ granted' = granted /\ ~ReservesUsage(d, approved)
  BY DEF EvaluateAndReserve
<1>8. CountedIffMayRun'
  <2> HIDE DEF d
  <2> SUFFICES ASSUME NEW x \in Call
               PROVE  x \in granted' <=>
                        \/ answer'[x].decision.kind = "allow"
                        \/ /\ answer'[x].decision.kind = "require_approval"
                           /\ answer'[x].approved
    BY DEF CountedIffMayRun
  <2>1. CASE x # c
    BY <2>1, <1>3, <1>7 DEF LedgerInv, LedgerTypeOk, CountedIffMayRun
  <2>2. CASE x = c
    <3>1. answer'[c].decision = d /\ answer'[c].approved = approved
      BY <1>3 DEF LedgerInv, LedgerTypeOk, Decided
    <3>2. ReservesUsage(d, approved) <=>
            d.kind = "allow" \/ (d.kind = "require_approval" /\ approved)
      BY <1>2 DEF ReservesUsage, Decision, DecisionKind
    <3> QED
      BY <2>2, <3>1, <3>2, <1>1, <1>7
  <2> QED
    BY <2>1, <2>2
<1>9. CASE ReservesUsage(d, approved)
  <2>1. usage' = Record(usage, c) /\ granted' = granted \union {c}
    BY <1>9 DEF EvaluateAndReserve
  <2>2. ~BudgetSpent(usage, c)
    BY <1>9, ReservationHasRoom
  <2> HIDE DEF d
  <2>3. /\ usage \in Usage /\ granted \in SUBSET Call /\ IsFiniteSet(granted)
        /\ halfCounted \in SUBSET Call /\ IsFiniteSet(halfCounted)
    BY DEF LedgerInv, LedgerTypeOk
  <2>4. CountsBut(usage, granted, halfCounted) /\ CountsWithinBudget(granted)
    BY DEF LedgerInv, CountsAgree, GrantedWithinBudget
  <2>5. AtMost(usage.estimated_cost_usd, MaxCost)
    BY DEF LedgerInv, GrantedWithinBudget
  <2>6. CountsBut(Record(usage, c), granted \union {c}, halfCounted)
    BY <1>1, <2>3, <2>4, RecordCounts
  <2>7. /\ CountsWithinBudget(granted \union {c})
        /\ AtMost(Record(usage, c).estimated_cost_usd, MaxCost)
    BY <1>1, <2>2, <2>3, <2>4, <2>5, RoomForOne
  <2>8. IsFiniteSet(granted') /\ IsFiniteSet(halfCounted')
    BY <1>0, <1>1, <2>1, <2>3, GrantOne
  <2>9. usage' \in Usage
    BY <2>1, <2>3, RecordType
  <2>10. CountsAgree' /\ GrantedWithinBudget'
    <3>1. /\ halfCounted \subseteq Unencodable /\ granted \intersect Unencodable = {}
          /\ Store = "sqlite" => halfCounted = {}
      BY DEF LedgerInv, CountsAgree
    <3>2. c \notin Unencodable
      BY <1>9 DEF EvaluateAndReserve, FingerprintRaises, d
    <3> QED
      BY <1>0, <1>1, <2>1, <2>6, <2>7, <3>1, <3>2 DEF CountsAgree, GrantedWithinBudget
  <2> QED
    BY <1>0, <1>5, <1>6, <1>8, <2>1, <2>3, <2>8, <2>9, <2>10 DEF LedgerInv, LedgerTypeOk
<1>10. CASE ~ReservesUsage(d, approved)
  <2>1. usage' = usage /\ granted' = granted
    BY <1>10 DEF EvaluateAndReserve
  <2>2. /\ CountsAgree' /\ GrantedWithinBudget'
        /\ IsFiniteSet(granted') /\ IsFiniteSet(halfCounted')
    BY <1>0, <2>1 DEF LedgerInv, CountsAgree, GrantedWithinBudget
  <2> QED
    BY <1>0, <1>5, <1>6, <1>8, <2>1, <2>2 DEF LedgerInv, LedgerTypeOk
<1> QED
  BY <1>9, <1>10

\* What a failure leaves of the counters: what they were, or one call more in
\* three of them, of a store in memory.
LEMMA FailEffect ==
  ASSUME NEW c \in Call, NEW approved \in BOOLEAN, Fail(c, approved)
  PROVE  /\ MayAsk(c, approved)
         /\ granted' = granted
         /\ \E failure \in Failure : answer' = [answer EXCEPT ![c] = Failed(approved, failure)]
         /\ \/ usage' = usage /\ halfCounted' = halfCounted
            \/ /\ c \in Unencodable /\ Store # "sqlite"
               /\ answer' = [answer EXCEPT ![c] = Failed(approved, "UnicodeEncodeError")]
               /\ usage' = RecordPartly(usage, c)
               /\ halfCounted' = halfCounted \union {c}
               /\ ~BudgetSpent(usage, c)
<1>1. CASE FailStorage(c, approved)
  BY <1>1 DEF FailStorage, Failure
<1>2. CASE FailFingerprint(c, approved)
  <2>1. /\ MayAsk(c, approved) /\ granted' = granted
        /\ answer' = [answer EXCEPT ![c] = Failed(approved, "UnicodeEncodeError")]
        /\ "UnicodeEncodeError" \in Failure
    BY <1>2 DEF FailFingerprint, Failure
  <2>2. CASE Store = "memory" /\ ~BudgetAsksFingerprint(usage, c)
    <3>1. c \in Unencodable /\ ReservesUsage(Evaluate(usage, c), approved)
      BY <1>2, <2>2 DEF FailFingerprint, FingerprintRaises
    <3>2. ~BudgetSpent(usage, c)
      BY <3>1, ReservationHasRoom
    <3>3. usage' = RecordPartly(usage, c) /\ halfCounted' = halfCounted \union {c}
      BY <1>2, <2>2 DEF FailFingerprint
    <3> QED
      BY <2>1, <2>2, <3>1, <3>2, <3>3
  <2>3. CASE ~(Store = "memory" /\ ~BudgetAsksFingerprint(usage, c))
    BY <1>2, <2>1, <2>3 DEF FailFingerprint
  <2> QED
    BY <2>2, <2>3
<1> QED
  BY <1>1, <1>2 DEF Fail

LEMMA FailKeeps ==
  ASSUME LedgerInv, NEW c \in Call, NEW approved \in BOOLEAN, Fail(c, approved)
  PROVE  LedgerInv'
<1>1. c \notin granted /\ c \notin halfCounted
  BY AskersNotCounted, FailEffect
<1>2. granted' = granted
  BY FailEffect
<1>3. PICK failure \in Failure : answer' = [answer EXCEPT ![c] = Failed(approved, failure)]
  BY FailEffect
<1>4. Failed(approved, failure) \in Answer
  BY DEF Failed, Answer, Failure, NoDecision
<1>5. answer' \in [Call -> Answer]
  BY <1>3, <1>4 DEF LedgerInv, LedgerTypeOk
<1>6. /\ usage \in Usage /\ granted \in SUBSET Call /\ IsFiniteSet(granted)
      /\ halfCounted \in SUBSET Call /\ IsFiniteSet(halfCounted)
  BY DEF LedgerInv, LedgerTypeOk
<1>7. CountedIffMayRun'
  BY <1>1, <1>2, <1>3 DEF LedgerInv, LedgerTypeOk, CountedIffMayRun, Failed, NoDecision
<1>8. CASE usage' = usage /\ halfCounted' = halfCounted
  <2>1. AnswerShape'
    BY <1>1, <1>3, <1>8 DEF LedgerInv, LedgerTypeOk, AnswerShape, Failed
  <2>2. CountsAgree' /\ GrantedWithinBudget'
    BY <1>2, <1>8 DEF LedgerInv, CountsAgree, GrantedWithinBudget
  <2> QED
    BY <1>2, <1>5, <1>6, <1>7, <1>8, <2>1, <2>2 DEF LedgerInv, LedgerTypeOk
<1>9. CASE /\ c \in Unencodable /\ Store # "sqlite"
           /\ answer' = [answer EXCEPT ![c] = Failed(approved, "UnicodeEncodeError")]
           /\ usage' = RecordPartly(usage, c) /\ halfCounted' = halfCounted \union {c}
           /\ ~BudgetSpent(usage, c)
  <2>1. AnswerShape'
    BY <1>9 DEF LedgerInv, LedgerTypeOk, AnswerShape, Failed
  <2>2. CountsBut(usage', granted', halfCounted')
    <3>1. CountsBut(usage, granted, halfCounted)
      BY DEF LedgerInv, CountsAgree
    <3>2. CountsBut(RecordPartly(usage, c), granted, halfCounted \union {c})
      BY <1>1, <1>6, <3>1, RecordPartlyCounts
    <3> QED
      BY <1>2, <1>9, <3>2
  <2>3. CountsAgree'
    <3>1. halfCounted \subseteq Unencodable /\ granted \intersect Unencodable = {}
      BY DEF LedgerInv, CountsAgree
    <3> QED
      BY <1>1, <1>2, <1>9, <2>2, <3>1 DEF CountsAgree
  <2>4. GrantedWithinBudget'
    <3>1. AtMost(RecordPartly(usage, c).estimated_cost_usd, MaxCost)
      BY <1>6, <1>9, CallAssumption, BudgetAssumption
         DEF CostLimit, AtMost, BudgetSpent, CostExceeded, RecordPartly, Usage
    <3> QED
      BY <1>2, <1>9, <3>1 DEF LedgerInv, GrantedWithinBudget
  <2>5. usage' \in Usage /\ halfCounted' \in SUBSET Call /\ IsFiniteSet(halfCounted')
    BY <1>6, <1>9, RecordPartlyType, FS_AddElement
  <2> QED
    BY <1>2, <1>5, <1>6, <1>7, <2>1, <2>3, <2>4, <2>5 DEF LedgerInv, LedgerTypeOk
<1> QED
  BY <1>8, <1>9, FailEffect

LEMMA LedgerStep == LedgerInv /\ [LedgerNext]_ledgerVars => LedgerInv'
<1> SUFFICES ASSUME LedgerInv, [LedgerNext]_ledgerVars
             PROVE  LedgerInv'
  OBVIOUS
<1>1. CASE LedgerNext
  BY <1>1, ReserveKeeps, FailKeeps DEF LedgerNext
<1>2. CASE UNCHANGED ledgerVars
  BY <1>2 DEF ledgerVars, LedgerInv, LedgerTypeOk, AnswerShape, CountsAgree, CountedIffMayRun,
              GrantedWithinBudget
<1> QED
  BY <1>1, <1>2

LEMMA LedgerInvariance == LedgerSpec => []LedgerInv
BY LedgerStart, LedgerStep, PTL DEF LedgerSpec

\* The types of the ledger's state.
THEOREM LedgerTypeCorrect == LedgerSpec => []LedgerTypeOk
<1>1. LedgerInv => LedgerTypeOk
  BY DEF LedgerInv
<1> QED
  BY LedgerInvariance, <1>1, PTL

\* The counters always count the granted calls, each once, and besides only
\* what a store in memory kept of a count that an exception broke off.
THEOREM CountersCorrect == LedgerSpec => []CountsAgree
<1>1. LedgerInv => CountsAgree
  BY DEF LedgerInv
<1> QED
  BY LedgerInvariance, <1>1, PTL

\* No interleaving of any number of callers grants more than the budget.
THEOREM BudgetSafe == LedgerSpec => []GrantedWithinBudget
<1>1. LedgerInv => GrantedWithinBudget
  BY DEF LedgerInv
<1> QED
  BY LedgerInvariance, <1>1, PTL

\* A call is counted exactly when its answer lets it run.
THEOREM HeldUsesNothing == LedgerSpec => []CountedIffMayRun
<1>1. LedgerInv => CountedIffMayRun
  BY DEF LedgerInv
<1> QED
  BY LedgerInvariance, <1>1, PTL

\* A budget that has refused a call never has room for it again.
THEOREM SpentForGood == LedgerSpec => SpentStaysSpent
<1>1. ASSUME LedgerInv, [LedgerNext]_ledgerVars, NEW other \in Call, BudgetSpent(usage, other)
      PROVE  BudgetSpent(usage', other)
  <2>1. usage' = usage \/ \E c \in Call : usage' \in {Record(usage, c), RecordPartly(usage, c)}
    <3>1. CASE UNCHANGED ledgerVars
      BY <3>1 DEF ledgerVars
    <3>2. ASSUME NEW c \in Call, NEW approved \in BOOLEAN, EvaluateAndReserve(c, approved)
          PROVE  usage' = usage \/ usage' = Record(usage, c)
      BY <3>2 DEF EvaluateAndReserve
    <3>3. ASSUME NEW c \in Call, NEW approved \in BOOLEAN, Fail(c, approved)
          PROVE  usage' = usage \/ usage' = RecordPartly(usage, c)
      BY <3>3, FailEffect
    <3> QED
      BY <1>1, <3>1, <3>2, <3>3 DEF LedgerNext
  <2> QED
    BY <1>1, <2>1, RecordKeepsSpent DEF LedgerInv, LedgerTypeOk
<1>2. LedgerInv /\ [LedgerNext]_ledgerVars =>
        [\A c \in Call : BudgetSpent(usage, c) => BudgetSpent(usage', c)]_ledgerVars
  BY <1>1
<1> QED
  BY LedgerInvariance, <1>2, PTL DEF LedgerSpec, SpentStaysSpent

-----------------------------------------------------------------------------
(***************************************************************************)
(* The cost of the run.  The counter is compared with a sum over the set   *)
(* of granted calls, so the argument is the one of the counts with the     *)
(* algebra of sums in place of cardinalities.                              *)
(***************************************************************************)
LEMMA CostStep == LedgerInv /\ CostAgrees /\ [LedgerNext]_ledgerVars => CostAgrees'
<1> SUFFICES ASSUME LedgerInv, CostAgrees, [LedgerNext]_ledgerVars
             PROVE  CostAgrees'
  OBVIOUS
<1>0. /\ granted \in SUBSET Call /\ halfCounted \in SUBSET Call /\ usage \in Usage
      /\ IsFiniteSet(granted) /\ IsFiniteSet(halfCounted)
  BY DEF LedgerInv, LedgerTypeOk
<1>1. ASSUME NEW c \in Call, NEW approved \in BOOLEAN, MayAsk(c, approved),
             usage' \in {Record(usage, c), RecordPartly(usage, c)},
             granted' \union halfCounted' = (granted \union halfCounted) \union {c}
      PROVE  CostAgrees'
  <2> DEFINE counted == granted \union halfCounted
  <2>1. c \notin counted
    BY <1>1, AskersNotCounted
  <2>2. counted \in SUBSET Call /\ IsFiniteSet(counted)
    BY <1>0, FS_Union
  <2>3. usage.estimated_cost_usd = TotalCost(counted)
    BY DEF CostAgrees
  <2>4. usage'.estimated_cost_usd = usage.estimated_cost_usd + c.estimated_cost_usd
    BY <1>0, <1>1 DEF Record, RecordPartly, Usage
  <2>5. granted' \union halfCounted' = counted \union {c}
    BY <1>1
  <2> HIDE DEF counted
  <2>6. TotalCost(counted \union {c}) = TotalCost(counted) + c.estimated_cost_usd
    BY <2>1, <2>2, TotalCostOfOneMore
  <2> QED
    BY <2>3, <2>4, <2>5, <2>6 DEF CostAgrees
<1>2. CASE UNCHANGED <<usage, granted, halfCounted>>
  BY <1>2 DEF CostAgrees
<1>3. ASSUME NEW c \in Call, NEW approved \in BOOLEAN, EvaluateAndReserve(c, approved)
      PROVE  CostAgrees'
  <2>1. MayAsk(c, approved) /\ halfCounted' = halfCounted
    BY <1>3 DEF EvaluateAndReserve
  <2>2. \/ UNCHANGED <<usage, granted>>
        \/ usage' = Record(usage, c) /\ granted' = granted \union {c}
    BY <1>3 DEF EvaluateAndReserve
  <2> QED
    BY <1>1, <1>2, <2>1, <2>2
<1>4. ASSUME NEW c \in Call, NEW approved \in BOOLEAN, Fail(c, approved)
      PROVE  CostAgrees'
  <2>1. MayAsk(c, approved) /\ granted' = granted
    BY <1>4, FailEffect
  <2>2. \/ UNCHANGED <<usage, halfCounted>>
        \/ usage' = RecordPartly(usage, c) /\ halfCounted' = halfCounted \union {c}
    BY <1>4, FailEffect
  <2> QED
    BY <1>1, <1>2, <2>1, <2>2
<1> QED
  BY <1>2, <1>3, <1>4 DEF LedgerNext, ledgerVars

\* The counted cost is the cost of the granted calls and of those counted in
\* part, each charged once.
THEOREM CostCorrect == LedgerSpec => []CostAgrees
<1>1. LedgerInit => CostAgrees
  BY TotalCostOfNone DEF LedgerInit, CostAgrees, EmptyUsage
<1> QED
  BY LedgerInvariance, <1>1, CostStep, PTL DEF LedgerSpec

-----------------------------------------------------------------------------
(***************************************************************************)
(* The explanation.  It agrees with the decision at any usage whatever, so *)
(* no invariant is needed.                                                 *)
(***************************************************************************)
\* A shown check is triggered exactly when its limit refuses the call.
LEMMA TriggeredChecks ==
  ASSUME NEW u, NEW c
  PROVE  /\ 1 \in Triggered(u, c) <=> Exhausted(u.tool_calls, MaxCalls)
         /\ 2 \in Triggered(u, c) <=> Exhausted(u.calls_by_tool[c.name], MaxCallsPerTool)
         /\ 3 \in Triggered(u, c) <=>
              Exhausted(u.calls_by_fingerprint[FingerprintOf(c)], MaxIdenticalCalls)
         /\ 4 \in Triggered(u, c) <=> CostExceeded(u, c)
         /\ Triggered(u, c) \subseteq 1..4
<1>1. DOMAIN CheckName = 1..4
  BY DEF CheckName
<1>2. /\ Checks(u, c)[1] = CountCheck(u.tool_calls, MaxCalls)
      /\ Checks(u, c)[2] = CountCheck(u.calls_by_tool[c.name], MaxCallsPerTool)
      /\ Checks(u, c)[3] =
           CountCheck(u.calls_by_fingerprint[FingerprintOf(c)], MaxIdenticalCalls)
      /\ Checks(u, c)[4] = CostCheck(u, c)
  BY DEF Checks
<1>3. ASSUME NEW count, NEW limit
      PROVE  /\ CountCheck(count, limit).shown <=> limit # NoLimit
             /\ CountCheck(count, limit).triggered <=> Exhausted(count, limit)
  BY DEF CountCheck, Check, Exhausted
<1>4. /\ CostCheck(u, c).shown <=> MaxCost # NoLimit
      /\ CostCheck(u, c).triggered <=> CostExceeded(u, c)
  BY DEF CostCheck, Check, CostExceeded
<1>5. \A i : i \in Triggered(u, c) <=>
               i \in 1..4 /\ Checks(u, c)[i].shown /\ Checks(u, c)[i].triggered
  BY <1>1 DEF Triggered
<1>6. /\ 1 \in Triggered(u, c) <=> Exhausted(u.tool_calls, MaxCalls)
      /\ 2 \in Triggered(u, c) <=> Exhausted(u.calls_by_tool[c.name], MaxCallsPerTool)
      /\ 3 \in Triggered(u, c) <=>
           Exhausted(u.calls_by_fingerprint[FingerprintOf(c)], MaxIdenticalCalls)
  BY <1>2, <1>3, <1>5 DEF Exhausted
<1>7. 4 \in Triggered(u, c) <=> CostExceeded(u, c)
  BY <1>2, <1>4, <1>5 DEF CostExceeded
<1> QED
  BY <1>5, <1>6, <1>7

\* No check is triggered exactly when the budget has room for the call.
LEMMA NoneTriggered ==
  ASSUME NEW u, NEW c
  PROVE  Triggered(u, c) = {} <=> ~BudgetSpent(u, c)
<1>1. \A i \in 1..4 : i = 1 \/ i = 2 \/ i = 3 \/ i = 4
  OBVIOUS
<1> QED
  BY <1>1, TriggeredChecks DEF BudgetSpent

\* The first triggered check names the code.
LEMMA FirstTriggered ==
  ASSUME NEW u, NEW c, NEW i \in Triggered(u, c),
         \A j \in Triggered(u, c) : i <= j
  PROVE  CheckName[i] = BudgetCode(u, c)
<1>1. /\ CheckName[1] = "max_calls" /\ CheckName[2] = "max_calls_per_tool"
      /\ CheckName[3] = "max_identical_calls" /\ CheckName[4] = "max_cost_usd"
  BY DEF CheckName
<1>2. i \in 1..4
  BY TriggeredChecks
<1>3. \A j \in 1..4 : j < i => j \notin Triggered(u, c)
  BY <1>2
<1>4. CASE i = 1
  BY <1>1, <1>4, TriggeredChecks DEF BudgetCode
<1>5. CASE i = 2
  <2>1. 1 \notin Triggered(u, c)
    BY <1>3, <1>5
  <2> QED
    BY <1>1, <1>5, <2>1, TriggeredChecks DEF BudgetCode
<1>6. CASE i = 3
  <2>1. 1 \notin Triggered(u, c) /\ 2 \notin Triggered(u, c)
    BY <1>3, <1>6
  <2> QED
    BY <1>1, <1>6, <2>1, TriggeredChecks DEF BudgetCode
<1>7. CASE i = 4
  <2>1. 1 \notin Triggered(u, c) /\ 2 \notin Triggered(u, c) /\ 3 \notin Triggered(u, c)
    BY <1>3, <1>7
  <2> QED
    BY <1>1, <1>7, <2>1, TriggeredChecks DEF BudgetCode
<1> QED
  BY <1>2, <1>4, <1>5, <1>6, <1>7

\* At most one rule is the first that matches.
LEMMA OneFirstMatch ==
  ASSUME NEW c, NEW i, NEW j, IsFirstMatch(i, c), IsFirstMatch(j, c)
  PROVE  i = j
<1>1. DOMAIN Rules \subseteq Nat
  BY RulesAssumption
<1> QED
  BY <1>1 DEF IsFirstMatch

\* If some rule matches, there is a first one.
LEMMA FirstMatchExists ==
  ASSUME NEW c, NEW i \in DOMAIN Rules, RuleMatches(i, c)
  PROVE  \E j \in DOMAIN Rules : IsFirstMatch(j, c)
<1> DEFINE Matching == {j \in DOMAIN Rules : RuleMatches(j, c)}
<1>1. DOMAIN Rules \subseteq Nat
  BY RulesAssumption
<1>2. Matching \in SUBSET Nat /\ Matching # {}
  BY <1>1
<1>3. PICK j \in Matching : \A k \in Matching : j <= k
  <2> DEFINE Before == OpToRel(<, Nat)
  <2>1. \A k, n \in Nat : k < n => <<k, n>> \in Before
    BY DEF OpToRel
  <2>2. IsWellFoundedOn(Before, Nat)
    BY NatLessThanWellFounded
  <2> HIDE DEF Matching, Before
  <2>3. \E j \in Matching : \A k \in Matching : <<k, j>> \notin Before
    BY <1>2, <2>2, WFMin, Zenon
  <2>4. PICK j \in Matching : \A k \in Matching : <<k, j>> \notin Before
    BY <2>3
  <2>5. ASSUME NEW k \in Matching
        PROVE  j <= k
    <3>1. j \in Nat /\ k \in Nat /\ <<k, j>> \notin Before
      BY <1>2, <2>4
    <3>2. ~(k < j)
      BY <2>1, <3>1
    <3> QED
      BY <3>1, <3>2
  <2> QED
    BY <2>5
<1>4. \A k \in DOMAIN Rules : k < j => ~RuleMatches(k, c)
  BY <1>1, <1>3
<1> QED
  BY <1>3, <1>4 DEF IsFirstMatch

LEMMA ExplanationLemma == ExplanationAgrees
<1> SUFFICES ASSUME NEW c \in Call
             PROVE  /\ \A i \in Triggered(usage, c) :
                         (\A j \in Triggered(usage, c) : i <= j) =>
                           Evaluate(usage, c) = [kind |-> "block", code |-> CheckName[i]]
                    /\ \A i \in Selected(usage, c) :
                         /\ Evaluate(usage, c) = [kind |-> Rules[i].decision, code |-> "rule_match"]
                         /\ Matched(i, c) /\ \A j \in 1..(i - 1) : ~Matched(j, c)
                    /\ Triggered(usage, c) = {} /\ Selected(usage, c) = {} =>
                         /\ Evaluate(usage, c) = [kind |-> Default, code |-> "default"]
                         /\ \A i \in DOMAIN Rules : ~Matched(i, c)
  BY DEF ExplanationAgrees
<1>1. DOMAIN Rules = 1..Len(Rules) /\ Len(Rules) \in Nat
  BY RulesAssumption
<1>2. \A i : Matched(i, c) <=> RuleMatches(i, c)
  BY DEF Matched, ToolMatched, ArgumentsMatched, RuleMatches
<1>3. ASSUME NEW i \in Triggered(usage, c), \A j \in Triggered(usage, c) : i <= j
      PROVE  Evaluate(usage, c) = [kind |-> "block", code |-> CheckName[i]]
  <2>1. BudgetSpent(usage, c)
    BY <1>3, NoneTriggered
  <2> QED
    BY <1>3, <2>1, FirstTriggered DEF Evaluate
<1>4. ASSUME NEW i \in Selected(usage, c)
      PROVE  /\ Evaluate(usage, c) = [kind |-> Rules[i].decision, code |-> "rule_match"]
             /\ Matched(i, c) /\ \A j \in 1..(i - 1) : ~Matched(j, c)
  <2>1. ~BudgetSpent(usage, c) /\ i \in DOMAIN Rules /\ IsFirstMatch(i, c)
    BY DEF Selected
  <2>2. (CHOOSE k \in DOMAIN Rules : IsFirstMatch(k, c)) = i
    BY <2>1, OneFirstMatch
  <2>3. Evaluate(usage, c) = [kind |-> Rules[i].decision, code |-> "rule_match"]
    BY <2>1, <2>2 DEF Evaluate, RuleDecision
  <2>4. \A j \in 1..(i - 1) : ~RuleMatches(j, c)
    BY <1>1, <2>1 DEF IsFirstMatch
  <2> QED
    BY <1>2, <2>1, <2>3, <2>4 DEF IsFirstMatch
<1>5. ASSUME Triggered(usage, c) = {}, Selected(usage, c) = {}
      PROVE  /\ Evaluate(usage, c) = [kind |-> Default, code |-> "default"]
             /\ \A i \in DOMAIN Rules : ~Matched(i, c)
  <2>1. ~BudgetSpent(usage, c)
    BY <1>5, NoneTriggered
  <2>2. \A i \in DOMAIN Rules : ~IsFirstMatch(i, c)
    BY <1>5, <2>1 DEF Selected
  <2>3. \A i \in DOMAIN Rules : ~Matched(i, c)
    BY <1>2, <2>2, FirstMatchExists
  <2> QED
    BY <2>1, <2>2, <2>3 DEF Evaluate, RuleDecision
<1> QED
  BY <1>3, <1>4, <1>5

\* Whatever the policy and the usage of the run, the explanation of a call
\* leads to the decision that the gate would take (explain_call).
THEOREM ExplanationIsTrue == LedgerSpec => []ExplanationAgrees
<1>1. ExplanationAgrees
  BY ExplanationLemma
<1> QED
  BY <1>1, PTL

-----------------------------------------------------------------------------
(***************************************************************************)
(* The gate's inductive invariant, call by call.                           *)
(***************************************************************************)

\* Nothing but the operation stands between c and its execution.
Ready(c) ==
  /\ c \in granted
  /\ Says(c, "allowed") \/ Says(c, "approval_granted")
  /\ RuleDecision(c).kind # "block"
  /\ RuleDecision(c).kind = "require_approval"
       => verdict[c] = "approved" /\ Says(c, "approval_requested")

\* A decision that does not block is the rule's: budgets only ever block.
DecisionInv(c) ==
  /\ answer[c].decision.kind \in {"allow", "require_approval"}
       => RuleDecision(c).kind = answer[c].decision.kind
  /\ pc[c] = "record_decision" => /\ answer[c].decision \in Decision
                                  /\ ~answer[c].approved
  /\ pc[c] = "record_grant" => /\ answer[c].decision \in Decision
                               /\ answer[c].approved

ApprovalInv(c) ==
  /\ pc[c] \in {"approve", "reserve", "record_grant"} => Says(c, "approval_requested")
  /\ pc[c] \in {"reserve", "record_grant"} => verdict[c] = "approved"

RunInv(c) ==
  /\ pc[c] = "run" => Ready(c)
  /\ c \in started =>
       /\ Ready(c)
       /\ pc[c] \in {"running", "record_terminal", "returned", "raised",
                     "AuditWriteError+", "cancelled", "dead"}
  /\ pc[c] \in {"running", "record_terminal", "returned", "raised", "AuditWriteError+"}
       => c \in started
  /\ pc[c] \in {"record_terminal", "AuditWriteError+"} => result[c] # "none"
  /\ pc[c] \in {"returned", "raised"} => result[c] = pc[c]
  /\ pc[c] = "returned" => Says(c, "executed")
  /\ pc[c] = "raised" => Says(c, "failed")
  /\ pc[c] = "ToolCallBlocked" => Says(c, "blocked") \/ Says(c, "approval_denied")

CallInv(c) == DecisionInv(c) /\ ApprovalInv(c) /\ RunInv(c)

FInv ==
  /\ TypeOk
  /\ LedgerInv
  /\ \A c \in Call : CallInv(c)

\* The state of one call: CallInv speaks of nothing else.
SameCall(x) ==
  /\ pc'[x] = pc[x]
  /\ trail'[x] = trail[x]
  /\ verdict'[x] = verdict[x]
  /\ result'[x] = result[x]
  /\ answer'[x] = answer[x]
  /\ x \in started' <=> x \in started
  /\ x \in granted' <=> x \in granted

LEMMA SameCallKeeps ==
  ASSUME NEW x \in Call, CallInv(x), SameCall(x)
  PROVE  CallInv(x)'
BY DEF CallInv, DecisionInv, ApprovalInv, RunInv, Ready, Says, SameCall

LEMMA InitFInv == Init => FInv
<1> SUFFICES ASSUME Init
             PROVE  FInv
  OBVIOUS
<1>1. LedgerInv
  BY LedgerStart DEF Init
<1>2. TypeOk
  BY <1>1, ProcessAssumption
     DEF Init, TypeOk, LedgerInv, Audit!TrailInit, Step
<1>3. ASSUME NEW c \in Call
      PROVE  CallInv(c)
  BY DEF Init, LedgerInit, NoAnswer, NoDecision, CallInv, DecisionInv, ApprovalInv, RunInv
<1> QED
  BY <1>1, <1>2, <1>3 DEF FInv

-----------------------------------------------------------------------------
(***************************************************************************)
(* Writing a record.                                                       *)
(***************************************************************************)

\* A record adds its event to what the log says, and nothing else.
LEMMA SaysAppend ==
  ASSUME NEW s \in Seq(Event), NEW e \in Event
  PROVE  /\ Append(s, e) \in Seq(Event)
         /\ \A x : (\E i \in DOMAIN Append(s, e) : Append(s, e)[i] = x)
                     <=> (\E i \in DOMAIN s : s[i] = x) \/ x = e
<1>1. /\ Append(s, e) \in Seq(Event)
      /\ DOMAIN s = 1..Len(s) /\ Len(s) \in Nat
      /\ DOMAIN Append(s, e) = 1..(Len(s) + 1)
      /\ \A i \in 1..Len(s) : Append(s, e)[i] = s[i]
      /\ Append(s, e)[Len(s) + 1] = e
  OBVIOUS
<1>2. 1..(Len(s) + 1) = (1..Len(s)) \union {Len(s) + 1}
  BY <1>1
<1> QED
  BY <1>1, <1>2

\* Where a record that is not written leaves c.
FailsAs(c, failed) ==
  \/ pc'[c] = failed
  \/ c \in Unencodable /\ pc'[c] = "UnicodeEncodeError"

\* The two ends of _audit: written and gone on, or not written and failed.
LEMMA RecordCases ==
  ASSUME FInv, NEW c \in Call, NEW from, NEW event \in Event,
         NEW next \in Step \union Outcome, NEW failed \in Step \union Outcome,
         RecordThen(c, from, event, next, failed)
  PROVE  /\ TypeOk' /\ LedgerInv'
         /\ pc[c] = from
         /\ UNCHANGED <<usage, granted, halfCounted, answer, verdict, started, result>>
         /\ \A x \in Call \ {c} : SameCall(x)
         /\ \/ /\ pc'[c] = next
               /\ trail'[c] = Append(trail[c], event)
               /\ \A e : Says(c, e)' <=> Says(c, e) \/ e = event
            \/ /\ FailsAs(c, failed)
               /\ trail'[c] = trail[c]
               /\ \A e : Says(c, e)' <=> Says(c, e)
<1>1. /\ pc[c] = from
      /\ UNCHANGED <<usage, granted, halfCounted, answer, verdict, started, result>>
  BY DEF RecordThen, Goto, ledgerVars, gateVars
<1>2. LedgerInv'
  BY <1>1, LedgerStep DEF FInv, ledgerVars
<1>3. pc \in [Call -> Step \union Outcome] /\ trail \in [Call -> Seq(Event)]
      /\ torn \in [Process -> BOOLEAN] /\ Home[c] \in Process
  BY ProcessAssumption DEF FInv, TypeOk
<1>4. CASE Audit!Write(c, event) /\ Goto(c, from, next)
  <2>1. /\ trail' = [trail EXCEPT ![c] = Append(@, event)]
        /\ torn' = torn
        /\ pc' = [pc EXCEPT ![c] = next]
    BY <1>4 DEF Audit!Write, Goto
  <2>2. trail[c] \in Seq(Event) /\ trail'[c] = Append(trail[c], event)
    BY <1>3, <2>1
  <2>3. Append(trail[c], event) \in Seq(Event)
    BY <2>2, SaysAppend
  <2>4. \A e : Says(c, e)' <=> Says(c, e) \/ e = event
    BY <2>2, SaysAppend DEF Says
  <2>5. trail' \in [Call -> Seq(Event)] /\ pc' \in [Call -> Step \union Outcome]
    BY <1>3, <2>1, <2>3
  <2>6. TypeOk'
    BY <1>1, <1>2, <2>1, <2>5 DEF FInv, TypeOk, LedgerInv
  <2>7. pc'[c] = next /\ \A x \in Call \ {c} : SameCall(x)
    BY <1>1, <1>3, <2>1 DEF SameCall
  <2> QED
    BY <1>1, <1>2, <2>2, <2>4, <2>6, <2>7
<1>5. ASSUME Audit!Refuse(c) \/ Audit!Tear(c),
             NEW to \in Step \union Outcome, Goto(c, from, to)
      PROVE  /\ TypeOk' /\ pc'[c] = to
             /\ \A x \in Call \ {c} : SameCall(x)
             /\ trail'[c] = trail[c]
             /\ \A e : Says(c, e)' <=> Says(c, e)
  <2>1. /\ trail' = trail
        /\ torn' = torn \/ torn' = [torn EXCEPT ![Home[c]] = TRUE]
        /\ pc' = [pc EXCEPT ![c] = to]
    BY <1>5 DEF Audit!Refuse, Audit!Tear, Audit!trailVars, Goto
  <2>2. torn' \in [Process -> BOOLEAN] /\ pc' \in [Call -> Step \union Outcome]
    BY <1>3, <2>1
  <2>3. TypeOk'
    BY <1>1, <1>2, <2>1, <2>2 DEF FInv, TypeOk, LedgerInv
  <2>4. pc'[c] = to /\ \A x \in Call \ {c} : SameCall(x)
    BY <1>1, <1>3, <2>1 DEF SameCall
  <2>5. \A e : Says(c, e)' <=> Says(c, e)
    BY <2>1 DEF Says
  <2> QED
    BY <2>1, <2>3, <2>4, <2>5
<1>6. CASE (Audit!Refuse(c) \/ Audit!Tear(c)) /\ Goto(c, from, failed)
  BY <1>1, <1>2, <1>5, <1>6 DEF FailsAs
<1>7. CASE c \in Unencodable /\ Audit!Refuse(c) /\ Goto(c, from, "UnicodeEncodeError")
  BY <1>1, <1>2, <1>5, <1>7 DEF FailsAs, Outcome
<1> QED
  BY <1>4, <1>6, <1>7 DEF RecordThen

-----------------------------------------------------------------------------
(***************************************************************************)
(* The steps of one call.                                                  *)
(***************************************************************************)

LEMMA OneCallMoves ==
  ASSUME FInv, NEW c \in Call, TypeOk', LedgerInv', CallInv(c)',
         \A x \in Call \ {c} : SameCall(x)
  PROVE  FInv'
<1>1. ASSUME NEW x \in Call
      PROVE  CallInv(x)'
  BY SameCallKeeps DEF FInv
<1> QED
  BY <1>1 DEF FInv

\* A step that moves only the control of c.
LEMMA OnlyMoves ==
  ASSUME FInv, NEW c \in Call, NEW from, NEW to \in Step \union Outcome,
         Goto(c, from, to),
         UNCHANGED <<ledgerVars, trail, torn>>,
         verdict' \in [Call -> {"none", "approved", "denied"}],
         started' \in SUBSET Call,
         result' \in [Call -> {"none", "returned", "raised"}],
         \A x \in Call \ {c} : /\ verdict'[x] = verdict[x]
                               /\ x \in started' <=> x \in started
                               /\ result'[x] = result[x]
  PROVE  /\ TypeOk' /\ LedgerInv'
         /\ pc[c] = from /\ pc'[c] = to
         /\ \A x \in Call \ {c} : SameCall(x)
<1>1. LedgerInv'
  BY LedgerStep DEF FInv
<1>2. pc \in [Call -> Step \union Outcome] /\ pc' = [pc EXCEPT ![c] = to]
  BY DEF FInv, TypeOk, Goto
<1>3. pc' \in [Call -> Step \union Outcome]
  BY <1>2
<1>4. TypeOk'
  BY <1>1, <1>3 DEF FInv, TypeOk, LedgerInv
<1>5. \A x \in Call \ {c} : SameCall(x)
  BY <1>2 DEF SameCall, ledgerVars
<1> QED
  BY <1>1, <1>2, <1>4, <1>5 DEF Goto

\* A record that leaves c where CallInv holds of it.
LEMMA RecordKeeps ==
  ASSUME FInv, NEW c \in Call, NEW from, NEW event \in Event,
         NEW next \in Step \union Outcome, NEW failed \in Step \union Outcome,
         RecordThen(c, from, event, next, failed),
         /\ pc[c] = from
         /\ UNCHANGED <<usage, granted, halfCounted, answer, verdict, started, result>>
         /\ \/ /\ pc'[c] = next
               /\ \A e : Says(c, e)' <=> Says(c, e) \/ e = event
            \/ /\ FailsAs(c, failed)
               /\ \A e : Says(c, e)' <=> Says(c, e)
         => CallInv(c)'
  PROVE  FInv'
<1>1. /\ TypeOk' /\ LedgerInv'
      /\ pc[c] = from
      /\ UNCHANGED <<usage, granted, halfCounted, answer, verdict, started, result>>
      /\ \A x \in Call \ {c} : SameCall(x)
      /\ \/ /\ pc'[c] = next
            /\ trail'[c] = Append(trail[c], event)
            /\ \A e : Says(c, e)' <=> Says(c, e) \/ e = event
         \/ /\ FailsAs(c, failed)
            /\ trail'[c] = trail[c]
            /\ \A e : Says(c, e)' <=> Says(c, e)
  BY RecordCases
<1>2. \/ /\ pc'[c] = next
         /\ \A e : Says(c, e)' <=> Says(c, e) \/ e = event
      \/ /\ FailsAs(c, failed)
         /\ \A e : Says(c, e)' <=> Says(c, e)
  BY <1>1
<1>3. CallInv(c)'
  BY <1>1, <1>2
<1> QED
  BY <1>1, <1>3, OneCallMoves

LEMMA RecordDecisionKeeps ==
  ASSUME FInv, NEW c \in Call, RecordDecision(c)
  PROVE  FInv'
<1>1. CallInv(c)
  BY DEF FInv
<1>2. CASE /\ Kind(c) = "block"
           /\ RecordThen(c, "record_decision", "blocked", "ToolCallBlocked", "AuditWriteError")
  <2>1. /\ "blocked" \in Event
        /\ {"ToolCallBlocked", "AuditWriteError"} \subseteq Step \union Outcome
    BY DEF Event, Step, Outcome
  <2> SUFFICES ASSUME /\ pc[c] = "record_decision"
                      /\ UNCHANGED <<usage, granted, halfCounted, answer, verdict, started, result>>
                      /\ \/ /\ pc'[c] = "ToolCallBlocked"
                            /\ \A e : Says(c, e)' <=> Says(c, e) \/ e = "blocked"
                         \/ /\ FailsAs(c, "AuditWriteError")
                            /\ \A e : Says(c, e)' <=> Says(c, e)
               PROVE  CallInv(c)'
    BY <1>2, <2>1, RecordKeeps
  <2> QED
    BY <1>1 DEF FailsAs, CallInv, DecisionInv, ApprovalInv, RunInv
<1>3. CASE /\ Kind(c) = "require_approval"
           /\ RecordThen(c, "record_decision", "approval_requested", "approve", "AuditWriteError")
  <2>1. /\ "approval_requested" \in Event
        /\ {"approve", "AuditWriteError"} \subseteq Step \union Outcome
    BY DEF Event, Step, Outcome
  <2> SUFFICES ASSUME /\ pc[c] = "record_decision"
                      /\ UNCHANGED <<usage, granted, halfCounted, answer, verdict, started, result>>
                      /\ \/ /\ pc'[c] = "approve"
                            /\ \A e : Says(c, e)' <=> Says(c, e) \/ e = "approval_requested"
                         \/ /\ FailsAs(c, "AuditWriteError")
                            /\ \A e : Says(c, e)' <=> Says(c, e)
               PROVE  CallInv(c)'
    BY <1>3, <2>1, RecordKeeps
  <2> QED
    BY <1>1 DEF FailsAs, CallInv, DecisionInv, ApprovalInv, RunInv
<1>4. CASE /\ Kind(c) = "allow"
           /\ RecordThen(c, "record_decision", "allowed", "run", "AuditWriteError")
  <2>1. /\ "allowed" \in Event
        /\ {"run", "AuditWriteError"} \subseteq Step \union Outcome
    BY DEF Event, Step, Outcome
  <2> SUFFICES ASSUME /\ pc[c] = "record_decision"
                      /\ UNCHANGED <<usage, granted, halfCounted, answer, verdict, started, result>>
                      /\ \/ /\ pc'[c] = "run"
                            /\ \A e : Says(c, e)' <=> Says(c, e) \/ e = "allowed"
                         \/ /\ FailsAs(c, "AuditWriteError")
                            /\ \A e : Says(c, e)' <=> Says(c, e)
               PROVE  CallInv(c)'
    BY <1>4, <2>1, RecordKeeps
  <2>2. c \in granted
    BY <1>4 DEF FInv, LedgerInv, CountedIffMayRun, Kind
  <2> QED
    BY <1>1, <1>4, <2>2 DEF FailsAs, CallInv, DecisionInv, ApprovalInv, RunInv, Ready, Kind
<1> QED
  BY <1>2, <1>3, <1>4 DEF RecordDecision

\* A step of c alone that ends it, its operation not started.
LEMMA EndKeeps ==
  ASSUME FInv, NEW c \in Call, NEW from \in {"approve", "record_denial"},
         NEW to \in Outcome \ {"returned", "raised", "ToolCallBlocked", "AuditWriteError+"},
         Goto(c, from, to),
         UNCHANGED <<ledgerVars, trail, torn, gateVars>>
  PROVE  FInv'
<1>1. /\ TypeOk' /\ LedgerInv'
      /\ pc[c] = from /\ pc'[c] = to
      /\ \A x \in Call \ {c} : SameCall(x)
  BY OnlyMoves DEF gateVars, FInv, TypeOk
<1>2. CallInv(c)'
  BY <1>1
     DEF gateVars, ledgerVars, FInv, CallInv, DecisionInv, ApprovalInv, RunInv, Ready, Says, Outcome
<1> QED
  BY <1>1, <1>2, OneCallMoves

LEMMA RecordDenialKeeps ==
  ASSUME FInv, NEW c \in Call, RecordDenial(c)
  PROVE  FInv'
<1>1. CallInv(c)
  BY DEF FInv
<1>2. CASE RecordThen(c, "record_denial", "approval_denied", "ToolCallBlocked",
                       "AuditWriteError")
  <2>1. /\ "approval_denied" \in Event
        /\ {"ToolCallBlocked", "AuditWriteError"} \subseteq Step \union Outcome
    BY DEF Event, Step, Outcome
  <2> SUFFICES ASSUME /\ pc[c] = "record_denial"
                      /\ UNCHANGED <<usage, granted, halfCounted, answer, verdict, started, result>>
                      /\ \/ /\ pc'[c] = "ToolCallBlocked"
                            /\ \A e : Says(c, e)' <=> Says(c, e) \/ e = "approval_denied"
                         \/ /\ FailsAs(c, "AuditWriteError")
                            /\ \A e : Says(c, e)' <=> Says(c, e)
               PROVE  CallInv(c)'
    BY <1>2, <2>1, RecordKeeps
  <2> QED
    BY <1>1 DEF FailsAs, CallInv, DecisionInv, ApprovalInv, RunInv
<1>3. CASE UsageUnreadable(c, "record_denial", "StorageError")
  BY <1>3, EndKeeps DEF UsageUnreadable, Outcome
<1> QED
  BY <1>2, <1>3 DEF RecordDenial

LEMMA RecordGrantKeeps ==
  ASSUME FInv, NEW c \in Call, RecordGrant(c)
  PROVE  FInv'
<1>1. CallInv(c)
  BY DEF FInv
<1>2. CASE /\ Kind(c) = "block"
           /\ RecordThen(c, "record_grant", "blocked", "ToolCallBlocked",
                       "AuditWriteError")
  <2>1. /\ "blocked" \in Event
        /\ {"ToolCallBlocked", "AuditWriteError"} \subseteq Step \union Outcome
    BY DEF Event, Step, Outcome
  <2> SUFFICES ASSUME /\ pc[c] = "record_grant"
                      /\ UNCHANGED <<usage, granted, halfCounted, answer, verdict, started, result>>
                      /\ \/ /\ pc'[c] = "ToolCallBlocked"
                            /\ \A e : Says(c, e)' <=> Says(c, e) \/ e = "blocked"
                         \/ /\ FailsAs(c, "AuditWriteError")
                            /\ \A e : Says(c, e)' <=> Says(c, e)
               PROVE  CallInv(c)'
    BY <1>2, <2>1, RecordKeeps
  <2> QED
    BY <1>1 DEF FailsAs, CallInv, DecisionInv, ApprovalInv, RunInv
<1>3. CASE /\ Kind(c) # "block"
           /\ RecordThen(c, "record_grant", "approval_granted", "run",
                       "AuditWriteError")
  <2>1. /\ "approval_granted" \in Event
        /\ {"run", "AuditWriteError"} \subseteq Step \union Outcome
    BY DEF Event, Step, Outcome
  <2> SUFFICES ASSUME /\ pc[c] = "record_grant"
                      /\ UNCHANGED <<usage, granted, halfCounted, answer, verdict, started, result>>
                      /\ \/ /\ pc'[c] = "run"
                            /\ \A e : Says(c, e)' <=> Says(c, e) \/ e = "approval_granted"
                         \/ /\ FailsAs(c, "AuditWriteError")
                            /\ \A e : Says(c, e)' <=> Says(c, e)
               PROVE  CallInv(c)'
    BY <1>3, <2>1, RecordKeeps
  <2>2. Kind(c) \in {"allow", "require_approval"} /\ answer[c].approved
    BY <1>1, <1>3 DEF CallInv, DecisionInv, Kind, Decision, DecisionKind
  <2>3. c \in granted
    BY <2>2 DEF FInv, LedgerInv, CountedIffMayRun, Kind
  <2> QED
    BY <1>1, <2>2, <2>3 DEF FailsAs, CallInv, DecisionInv, ApprovalInv, RunInv, Ready, Kind
<1> QED
  BY <1>2, <1>3 DEF RecordGrant

LEMMA RecordTerminalKeeps ==
  ASSUME FInv, NEW c \in Call, RecordTerminal(c)
  PROVE  FInv'
<1> DEFINE event == IF result[c] = "returned" THEN "executed" ELSE "failed"
<1>1. CallInv(c) /\ result[c] \in {"none", "returned", "raised"}
  BY DEF FInv, TypeOk
<1>2. CASE RecordThen(c, "record_terminal", event, result[c], "AuditWriteError+")
  <2>1. pc[c] = "record_terminal"
    BY <1>2 DEF RecordThen, Goto
  <2>2. result[c] \in {"returned", "raised"} /\ c \in started
    BY <1>1, <2>1 DEF CallInv, RunInv
  <2>4. c \notin Unencodable
    BY <1>1, <2>2 DEF FInv, LedgerInv, CountsAgree, CallInv, RunInv, Ready
  <2>3. event \in Event /\ {result[c], "AuditWriteError+"} \subseteq Step \union Outcome
    BY <2>2 DEF Event, Outcome
  <2> HIDE DEF event
  <2> SUFFICES ASSUME /\ pc[c] = "record_terminal"
                      /\ UNCHANGED <<usage, granted, halfCounted, answer, verdict, started, result>>
                      /\ \/ /\ pc'[c] = result[c]
                            /\ \A e : Says(c, e)' <=> Says(c, e) \/ e = event
                         \/ /\ FailsAs(c, "AuditWriteError+")
                            /\ \A e : Says(c, e)' <=> Says(c, e)
               PROVE  CallInv(c)'
    BY <1>2, <2>3, RecordKeeps
  <2> QED
    BY <1>1, <2>2, <2>4 DEF FailsAs, CallInv, DecisionInv, ApprovalInv, RunInv, Ready, event
<1>3. CASE UsageUnreadable(c, "record_terminal", "AuditWriteError+")
  <2>1. /\ TypeOk' /\ LedgerInv'
        /\ pc[c] = "record_terminal" /\ pc'[c] = "AuditWriteError+"
        /\ \A x \in Call \ {c} : SameCall(x)
    BY <1>3, OnlyMoves DEF UsageUnreadable, gateVars, FInv, TypeOk, Outcome
  <2>2. CallInv(c)'
    BY <1>1, <1>3, <2>1
       DEF UsageUnreadable, gateVars, ledgerVars, CallInv, DecisionInv, ApprovalInv, RunInv,
           Ready, Says
  <2> QED
    BY <2>1, <2>2, OneCallMoves
<1> QED
  BY <1>2, <1>3 DEF RecordTerminal

\* What the store's answer leaves of a call that asked.
LEMMA AskCases ==
  ASSUME FInv, NEW c \in Call, NEW approved \in BOOLEAN, NEW from,
         NEW next \in Step, Ask(c, approved, from, next)
  PROVE  /\ TypeOk' /\ LedgerInv'
         /\ MayAsk(c, approved)
         /\ pc[c] = from
         /\ UNCHANGED <<trail, verdict, started, result>>
         /\ \A x \in Call \ {c} : SameCall(x)
         /\ \/ /\ pc'[c] = next
               /\ answer'[c] = Decided(approved, Evaluate(usage, c))
            \/ /\ pc'[c] \in Failure
               /\ answer'[c].decision = NoDecision
<1>1. pc \in [Call -> Step \union Outcome] /\ answer \in [Call -> Answer]
  BY DEF FInv, TypeOk, LedgerTypeOk
<1>2. UNCHANGED <<trail, torn, verdict, started, result>>
  BY DEF Ask, gateVars
<1>3. CASE EvaluateAndReserve(c, approved) /\ Goto(c, from, next)
  <2>1. LedgerInv'
    BY <1>3, ReserveKeeps DEF FInv
  <2>2. /\ answer' = [answer EXCEPT ![c] = Decided(approved, Evaluate(usage, c))]
        /\ granted' = granted \/ granted' = granted \union {c}
        /\ MayAsk(c, approved)
        /\ pc[c] = from /\ pc' = [pc EXCEPT ![c] = next]
    BY <1>3 DEF EvaluateAndReserve, Goto
  <2>3. pc' \in [Call -> Step \union Outcome]
    BY <1>1, <2>2
  <2>4. TypeOk'
    BY <1>2, <2>1, <2>3 DEF FInv, TypeOk, LedgerInv
  <2>5. \A x \in Call \ {c} : SameCall(x)
    BY <1>1, <1>2, <2>2 DEF SameCall
  <2> QED
    BY <1>1, <1>2, <2>1, <2>2, <2>4, <2>5
<1>4. CASE Fail(c, approved) /\ Goto(c, from, answer'[c].status)
  <2>1. LedgerInv'
    BY <1>4, FailKeeps DEF FInv
  <2>2. PICK failure \in Failure : answer' = [answer EXCEPT ![c] = Failed(approved, failure)]
    BY <1>4, FailEffect
  <2>3. answer'[c] = Failed(approved, failure)
    BY <1>1, <2>2
  <2>4. /\ granted' = granted
        /\ MayAsk(c, approved)
        /\ pc[c] = from /\ pc' = [pc EXCEPT ![c] = failure]
    BY <1>4, <2>3, FailEffect DEF Goto, Failed
  <2>5. pc' \in [Call -> Step \union Outcome]
    BY <1>1, <2>4 DEF Failure, Outcome
  <2>6. TypeOk'
    BY <1>2, <2>1, <2>5 DEF FInv, TypeOk, LedgerInv
  <2>7. \A x \in Call \ {c} : SameCall(x)
    BY <1>1, <1>2, <2>2, <2>4 DEF SameCall
  <2> QED
    BY <1>1, <1>2, <2>1, <2>3, <2>4, <2>6, <2>7 DEF Failed
<1> QED
  BY <1>2, <1>3, <1>4 DEF Ask

\* A decision that lets a call go on is its rule's: budgets only block.
LEMMA RuleDecides ==
  ASSUME NEW c \in Call, NEW u, NEW approved \in BOOLEAN,
         NEW d, d = Decided(approved, Evaluate(u, c))
  PROVE  /\ d.decision \in Decision
         /\ d.approved = approved
         /\ d.decision.kind \in {"allow", "require_approval"}
              => RuleDecision(c).kind = d.decision.kind
BY EvaluateType DEF Decided, Evaluate

LEMMA AuthorizeKeeps ==
  ASSUME FInv, NEW c \in Call, Authorize(c)
  PROVE  FInv'
<1>1. CallInv(c)
  BY DEF FInv
<1>2. /\ TypeOk' /\ LedgerInv'
      /\ pc[c] = "authorize"
      /\ UNCHANGED <<trail, verdict, started, result>>
      /\ \A x \in Call \ {c} : SameCall(x)
      /\ \/ /\ pc'[c] = "record_decision"
            /\ answer'[c] = Decided(FALSE, Evaluate(usage, c))
         \/ /\ pc'[c] \in Failure
            /\ answer'[c].decision = NoDecision
  BY AskCases DEF Authorize, Step
<1>3. c \notin started
  BY <1>1, <1>2 DEF CallInv, RunInv
<1>4. ASSUME pc'[c] = "record_decision",
             answer'[c] = Decided(FALSE, Evaluate(usage, c))
      PROVE  CallInv(c)'
  BY <1>2, <1>3, <1>4, RuleDecides
     DEF CallInv, DecisionInv, ApprovalInv, RunInv
<1>5. ASSUME pc'[c] \in Failure, answer'[c].decision = NoDecision
      PROVE  CallInv(c)'
  BY <1>2, <1>3, <1>5
     DEF CallInv, DecisionInv, ApprovalInv, RunInv, Failure, NoDecision
<1>6. CallInv(c)'
  BY <1>2, <1>4, <1>5
<1> QED
  BY <1>2, <1>6, OneCallMoves

LEMMA ReserveApprovedKeeps ==
  ASSUME FInv, NEW c \in Call, ReserveApproved(c)
  PROVE  FInv'
<1>1. CallInv(c)
  BY DEF FInv
<1>2. /\ TypeOk' /\ LedgerInv'
      /\ pc[c] = "reserve"
      /\ UNCHANGED <<trail, verdict, started, result>>
      /\ \A x \in Call \ {c} : SameCall(x)
      /\ \/ /\ pc'[c] = "record_grant"
            /\ answer'[c] = Decided(TRUE, Evaluate(usage, c))
         \/ /\ pc'[c] \in Failure
            /\ answer'[c].decision = NoDecision
  BY AskCases DEF ReserveApproved, Step
<1>3. /\ c \notin started /\ verdict[c] = "approved"
      /\ Says(c, "approval_requested")' /\ Says(c, "approval_requested")
  BY <1>1, <1>2 DEF CallInv, RunInv, ApprovalInv, Says
<1>4. ASSUME pc'[c] = "record_grant",
             answer'[c] = Decided(TRUE, Evaluate(usage, c))
      PROVE  CallInv(c)'
  BY <1>2, <1>3, <1>4, RuleDecides
     DEF CallInv, DecisionInv, ApprovalInv, RunInv
<1>5. ASSUME pc'[c] \in Failure, answer'[c].decision = NoDecision
      PROVE  CallInv(c)'
  BY <1>2, <1>3, <1>5
     DEF CallInv, DecisionInv, ApprovalInv, RunInv, Failure, NoDecision
<1>6. CallInv(c)'
  BY <1>2, <1>4, <1>5
<1> QED
  BY <1>2, <1>6, OneCallMoves

LEMMA ApproverAnswersKeeps ==
  ASSUME FInv, NEW c \in Call, ApproverAnswers(c)
  PROVE  FInv'
<1>1. CallInv(c) /\ verdict \in [Call -> {"none", "approved", "denied"}]
  BY DEF FInv, TypeOk
<1>2. PICK v \in {"approved", "denied"} :
        /\ verdict' = [verdict EXCEPT ![c] = v]
        /\ Goto(c, "approve", IF v = "approved" THEN "reserve" ELSE "record_denial")
  BY DEF ApproverAnswers
<1> DEFINE to == IF v = "approved" THEN "reserve" ELSE "record_denial"
<1>3. UNCHANGED <<usage, granted, halfCounted, answer, trail, torn, started, result>>
  BY DEF ApproverAnswers, ledgerVars
<1>4. /\ TypeOk' /\ LedgerInv'
      /\ pc[c] = "approve" /\ pc'[c] = to
      /\ \A x \in Call \ {c} : SameCall(x)
  <2>1. to \in Step
    BY DEF Step
  <2> HIDE DEF to
  <2>2. /\ verdict' \in [Call -> {"none", "approved", "denied"}]
        /\ \A x \in Call \ {c} : verdict'[x] = verdict[x]
    BY <1>1, <1>2
  <2> QED
    BY <1>2, <1>3, <2>1, <2>2, OnlyMoves DEF to, ledgerVars, FInv, TypeOk
<1>5. verdict'[c] = v
  BY <1>1, <1>2
<1>6. CallInv(c)'
  BY <1>1, <1>3, <1>4, <1>5 DEF CallInv, DecisionInv, ApprovalInv, RunInv, Ready, Says
<1> QED
  BY <1>4, <1>6, OneCallMoves

LEMMA StartOperationKeeps ==
  ASSUME FInv, NEW c \in Call, StartOperation(c)
  PROVE  FInv'
<1>1. CallInv(c)
  BY DEF FInv
<1>2. UNCHANGED <<usage, granted, halfCounted, answer, trail, torn, verdict, result>>
  BY DEF StartOperation, ledgerVars
<1>3. started' = started \union {c} /\ Goto(c, "run", "running")
  BY DEF StartOperation
<1>4. /\ TypeOk' /\ LedgerInv'
      /\ pc[c] = "run" /\ pc'[c] = "running"
      /\ \A x \in Call \ {c} : SameCall(x)
  BY <1>2, <1>3, OnlyMoves DEF ledgerVars, FInv, TypeOk, Step
<1>5. CallInv(c)'
  BY <1>1, <1>2, <1>3, <1>4 DEF CallInv, DecisionInv, ApprovalInv, RunInv, Ready, Says
<1> QED
  BY <1>4, <1>5, OneCallMoves

LEMMA FinishOperationKeeps ==
  ASSUME FInv, NEW c \in Call, FinishOperation(c)
  PROVE  FInv'
<1>1. CallInv(c) /\ result \in [Call -> {"none", "returned", "raised"}]
  BY DEF FInv, TypeOk
<1>2. UNCHANGED <<usage, granted, halfCounted, answer, trail, torn, verdict, started>>
  BY DEF FinishOperation, ledgerVars
<1>3. PICK r \in {"returned", "raised"} : result' = [result EXCEPT ![c] = r]
  BY DEF FinishOperation
<1>4. /\ TypeOk' /\ LedgerInv'
      /\ pc[c] = "running" /\ pc'[c] = "record_terminal"
      /\ \A x \in Call \ {c} : SameCall(x)
  BY <1>1, <1>2, <1>3, OnlyMoves DEF FinishOperation, ledgerVars, FInv, TypeOk, Step
<1>5. result'[c] = r
  BY <1>1, <1>3
<1>6. CallInv(c)'
  BY <1>1, <1>2, <1>4, <1>5 DEF CallInv, DecisionInv, ApprovalInv, RunInv, Ready, Says
<1> QED
  BY <1>4, <1>6, OneCallMoves

LEMMA CancelKeeps ==
  ASSUME FInv, NEW c \in Call, Cancel(c)
  PROVE  FInv'
<1>1. CallInv(c)
  BY DEF FInv
<1>2. UNCHANGED <<ledgerVars, trail, torn, gateVars>>
  BY DEF Cancel
<1>3. /\ TypeOk' /\ LedgerInv'
      /\ pc[c] \in {"approve", "running"} /\ pc'[c] = "cancelled"
      /\ \A x \in Call \ {c} : SameCall(x)
  BY <1>2, OnlyMoves DEF Cancel, gateVars, FInv, TypeOk, Outcome
<1>4. CallInv(c)'
  BY <1>1, <1>2, <1>3
     DEF gateVars, ledgerVars, CallInv, DecisionInv, ApprovalInv, RunInv, Ready, Says
<1> QED
  BY <1>3, <1>4, OneCallMoves

-----------------------------------------------------------------------------
(***************************************************************************)
(* The death of a process, and every step.                                 *)
(***************************************************************************)

LEMMA CrashKeeps ==
  ASSUME FInv, NEW p \in Process, Crash(p)
  PROVE  FInv'
<1> DEFINE inside == {c \in Call :
             /\ Home[c] = p
             /\ pc[c] \in IF Store = "memory" THEN Step ELSE Step \ {"authorize"}}
<1>1. /\ pc \in [Call -> Step \union Outcome]
      /\ torn \in [Process -> BOOLEAN]
      /\ \A c \in Call : CallInv(c) /\ Home[c] \in Process
  BY ProcessAssumption DEF FInv, TypeOk
<1>2. /\ pc' = [c \in Call |-> IF c \in inside THEN "dead" ELSE pc[c]]
      /\ UNCHANGED <<usage, granted, halfCounted, answer, trail, verdict, started, result>>
      /\ torn' = torn \/ \E c \in inside : torn' = [torn EXCEPT ![Home[c]] = TRUE]
  BY DEF Crash, Audit!Tear, ledgerVars, gateVars
<1>3. LedgerInv'
  BY <1>2, LedgerStep DEF FInv, ledgerVars
<1>4. torn' \in [Process -> BOOLEAN] /\ pc' \in [Call -> Step \union Outcome]
  BY <1>1, <1>2 DEF Outcome
<1>5. TypeOk'
  BY <1>2, <1>3, <1>4 DEF FInv, TypeOk, LedgerInv
<1>6. ASSUME NEW c \in Call
      PROVE  CallInv(c)'
  <2>1. CASE c \in inside
    <3>1. pc'[c] = "dead"
      BY <1>2, <2>1
    <3> QED
      BY <1>1, <1>2, <3>1 DEF CallInv, DecisionInv, ApprovalInv, RunInv, Ready, Says
  <2>2. CASE c \notin inside
    <3>1. SameCall(c)
      BY <1>1, <1>2, <2>2 DEF SameCall
    <3> QED
      BY <1>1, <3>1, SameCallKeeps
  <2> QED
    BY <2>1, <2>2
<1> QED
  BY <1>3, <1>5, <1>6 DEF FInv

LEMMA StepKeeps == FInv /\ [Next]_vars => FInv'
<1> SUFFICES ASSUME FInv, [Next]_vars
             PROVE  FInv'
  OBVIOUS
<1>1. ASSUME NEW c \in Call, Gate(c) \/ ApproverAnswers(c) \/ ApproverRaises(c)
                               \/ FinishOperation(c) \/ Cancel(c)
      PROVE  FInv'
  <2>1. ASSUME NoApprover(c) \/ ApproverRaises(c)
        PROVE  FInv'
    BY <2>1, EndKeeps DEF NoApprover, ApproverRaises, Outcome
  <2> QED
    BY <1>1, <2>1, AuthorizeKeeps, RecordDecisionKeeps, ApproverAnswersKeeps, RecordDenialKeeps,
       ReserveApprovedKeeps, RecordGrantKeeps, StartOperationKeeps, FinishOperationKeeps,
       RecordTerminalKeeps, CancelKeeps
       DEF Gate
<1>2. ASSUME UNCHANGED vars
      PROVE  FInv'
  <2>1. LedgerInv'
    BY <1>2, LedgerStep DEF FInv, vars
  <2>2. UNCHANGED <<usage, granted, halfCounted, answer, pc, trail, torn, verdict, started, result>>
    BY <1>2 DEF vars, ledgerVars, gateVars
  <2>3. TypeOk'
    BY <2>1, <2>2 DEF FInv, TypeOk, LedgerInv
  <2>4. \A c \in Call : CallInv(c)'
    BY <2>2, SameCallKeeps DEF FInv, SameCall
  <2> QED
    BY <2>1, <2>3, <2>4 DEF FInv
<1> QED
  BY <1>1, <1>2, CrashKeeps DEF Next

LEMMA Invariance == Spec => []FInv
BY InitFInv, StepKeeps, PTL DEF Spec

-----------------------------------------------------------------------------
(***************************************************************************)
(* The theorems.                                                           *)
(***************************************************************************)

\* Fewer calls fit in whatever more calls fit in.
LEMMA FewerFit ==
  ASSUME NEW S \in SUBSET Call, IsFiniteSet(S), NEW T \in SUBSET S,
         CountsWithinBudget(S)
  PROVE  CountsWithinBudget(T)
<1>1. ASSUME NEW P \in SUBSET S, NEW Q \in SUBSET P,
             NEW limit \in Nat \union {NoLimit}, AtMost(Cardinality(P), limit)
      PROVE  AtMost(Cardinality(Q), limit)
  <2>1. IsFiniteSet(P)
    BY FS_Subset
  <2>2. IsFiniteSet(Q) /\ Cardinality(Q) <= Cardinality(P)
    BY <2>1, FS_Subset
  <2>3. Cardinality(P) \in Nat /\ Cardinality(Q) \in Nat
    BY <2>1, <2>2, FS_CardinalityType
  <2> QED
    BY <1>1, <2>2, <2>3 DEF AtMost
<1>2. {MaxCalls, MaxCallsPerTool, MaxIdenticalCalls} \subseteq Nat \union {NoLimit}
  BY BudgetAssumption DEF CountLimit
<1>3. AtMost(Cardinality(T), MaxCalls)
  BY <1>1, <1>2 DEF CountsWithinBudget
<1>4. ASSUME NEW t \in Tool
      PROVE  AtMost(Cardinality(OfTool(T, t)), MaxCallsPerTool)
  <2>1. OfTool(S, t) \in SUBSET S /\ OfTool(T, t) \in SUBSET OfTool(S, t)
    BY DEF OfTool
  <2>2. AtMost(Cardinality(OfTool(S, t)), MaxCallsPerTool)
    BY DEF CountsWithinBudget
  <2> QED
    BY <1>1, <1>2, <2>1, <2>2
<1>5. ASSUME NEW f \in Fingerprint
      PROVE  AtMost(Cardinality(OfFingerprint(T, f)), MaxIdenticalCalls)
  <2>1. OfFingerprint(S, f) \in SUBSET S /\ OfFingerprint(T, f) \in SUBSET OfFingerprint(S, f)
    BY DEF OfFingerprint
  <2>2. AtMost(Cardinality(OfFingerprint(S, f)), MaxIdenticalCalls)
    BY DEF CountsWithinBudget
  <2> QED
    BY <1>1, <1>2, <2>1, <2>2
<1> QED
  BY <1>3, <1>4, <1>5 DEF CountsWithinBudget

\* Every variable of the gate keeps its type.
THEOREM GateTypeCorrect == Spec => []TypeOk
<1>1. FInv => TypeOk
  BY DEF FInv
<1> QED
  BY Invariance, <1>1, PTL

\* Whatever the processes, crashes, cancellations and store failures, the
\* operations that are started stay within the counts of the budget.
THEOREM RunsStayWithinBudget == Spec => []RunsWithinBudget
<1>1. FInv => RunsWithinBudget
  <2> SUFFICES ASSUME FInv
               PROVE  RunsWithinBudget
    OBVIOUS
  <2>1. started \subseteq granted
    BY DEF FInv, TypeOk, CallInv, RunInv, Ready
  <2>2. /\ granted \in SUBSET Call /\ IsFiniteSet(granted)
        /\ CountsWithinBudget(granted)
    BY DEF FInv, LedgerInv, LedgerTypeOk, GrantedWithinBudget
  <2>3. CountsWithinBudget(started)
    BY <2>1, <2>2, FewerFit
  <2> QED
    BY <2>1, <2>3 DEF RunsWithinBudget
<1> QED
  BY Invariance, <1>1, PTL

\* No operation is started before its admission is whole in the audit log.
THEOREM AdmissionRecordedFirst == Spec => []NoUnrecordedRun
<1>1. FInv => NoUnrecordedRun
  BY DEF FInv, TypeOk, CallInv, RunInv, Ready, NoUnrecordedRun
<1> QED
  BY Invariance, <1>1, PTL

\* No blocked operation is started, and none that asks for approval without
\* the approver's yes to that call.
THEOREM ApprovalIsHonoured == Spec => []ApprovalHonoured
<1>1. FInv => ApprovalHonoured
  BY DEF FInv, TypeOk, CallInv, RunInv, Ready, ApprovalHonoured
<1> QED
  BY Invariance, <1>1, PTL

\* The caller is never told that something ran that did not, nor the reverse.
THEOREM OutcomesAreTrue == Spec => []OutcomeIsTrue
<1>1. FInv => OutcomeIsTrue
  BY DEF FInv, TypeOk, CallInv, RunInv, OutcomeIsTrue
<1> QED
  BY Invariance, <1>1, PTL

\* An incomplete audit record stops the process it belongs to: nothing more
\* is written, and nothing starts but what was already recorded.
THEOREM TornLogFreezes == Spec => TornFreezes
<1> DEFINE Frozen(c) ==
      torn[Home[c]] =>
        /\ torn'[Home[c]] /\ trail'[c] = trail[c]
        /\ c \in started' \ started => Says(c, "allowed") \/ Says(c, "approval_granted")
<1>1. ASSUME FInv, [Next]_vars, NEW c \in Call
      PROVE  Frozen(c)
  <2>1. /\ Home \in [Call -> Process]
        /\ trail \in [Call -> Seq(Event)]
        /\ torn \in [Process -> BOOLEAN]
    BY <1>1, ProcessAssumption DEF FInv, TypeOk
  <2>2. \/ UNCHANGED <<trail, torn>>
        \/ \E x \in Call : \/ Audit!Tear(x)
                           \/ \E event : Audit!Write(x, event)
    BY <1>1 DEF Next, Gate, Authorize, ReserveApproved, Ask, RecordDecision, NoApprover,
         ApproverAnswers, ApproverRaises, RecordDenial, RecordGrant, StartOperation,
         FinishOperation, RecordTerminal, RecordThen, UsageUnreadable, Cancel, Crash,
         Audit!Refuse, Audit!trailVars, vars
  <2>3. torn[Home[c]] => torn'[Home[c]] /\ trail'[c] = trail[c]
    BY <2>1, <2>2 DEF Audit!Tear, Audit!Write
  <2>4. started' = started \/ \E x \in Call : StartOperation(x)
    BY <1>1 DEF Next, Gate, Authorize, ReserveApproved, Ask, RecordDecision, NoApprover,
         ApproverAnswers, ApproverRaises, RecordDenial, RecordGrant,
         FinishOperation, RecordTerminal, RecordThen, UsageUnreadable, Cancel, Crash,
         gateVars, vars
  <2>5. c \in started' \ started => Says(c, "allowed") \/ Says(c, "approval_granted")
    BY <1>1, <2>4 DEF StartOperation, Goto, FInv, TypeOk, CallInv, RunInv, Ready
  <2> QED
    BY <2>3, <2>5
<1>2. FInv /\ [Next]_vars => [\A c \in Call : Frozen(c)]_vars
  BY <1>1
<1> QED
  BY Invariance, <1>2, PTL DEF Spec, TornFreezes

\* What the gate does with the store is what the store's protocol allows.
THEOREM GateFollowsLedger == Spec => LedgerSpec
<1>1. Init => LedgerInit
  BY DEF Init
<1>2. [Next]_vars => [LedgerNext]_ledgerVars
  BY DEF Next, Gate, Authorize, ReserveApproved, Ask, RecordDecision, NoApprover,
     ApproverAnswers, ApproverRaises, RecordDenial, RecordGrant, StartOperation,
     FinishOperation, RecordTerminal, RecordThen, UsageUnreadable, Cancel, Crash,
     LedgerNext, ledgerVars, vars
<1> QED
  BY <1>1, <1>2, PTL DEF Spec, LedgerSpec

\* What the gate writes into the logs, over all calls and crashes, is what an
\* audit log promises its writers (_audit, _audit_terminal).
THEOREM GateFollowsTrail == Spec => Audit!TrailSpec
<1>1. Init => Audit!TrailInit
  BY DEF Init
<1>2. [Next]_vars => [Audit!TrailNext]_(Audit!trailVars)
  <2> SUFFICES ASSUME [Next]_vars
               PROVE  [Audit!TrailNext]_(Audit!trailVars)
    OBVIOUS
  <2>1. ASSUME NEW c \in Call, NEW from, NEW event \in Event, NEW next, NEW failed,
               RecordThen(c, from, event, next, failed)
        PROVE  [Audit!TrailNext]_(Audit!trailVars)
    BY <2>1 DEF RecordThen, Audit!Refuse, Audit!TrailNext
  <2>2. ASSUME NEW c \in Call, RecordDecision(c) \/ RecordDenial(c) \/ RecordGrant(c) \/ RecordTerminal(c)
        PROVE  [Audit!TrailNext]_(Audit!trailVars)
    <3>1. /\ {"blocked", "approval_requested", "allowed", "approval_denied"} \subseteq Event
          /\ {"approval_granted", "executed", "failed"} \subseteq Event
      BY DEF Event
    <3> HIDE DEF Event
    <3>2. CASE \E from, next, failed : \E event \in Event : RecordThen(c, from, event, next, failed)
      BY <2>1, <3>2
    <3>3. CASE \E from, failed : UsageUnreadable(c, from, failed)
      BY <3>3 DEF UsageUnreadable, Audit!trailVars
    <3> QED
      BY <2>2, <3>1, <3>2, <3>3 DEF RecordDecision, RecordDenial, RecordGrant, RecordTerminal
  <2>3. CASE \E p \in Process : Crash(p)
    BY <2>3 DEF Crash, Audit!TrailNext, Audit!trailVars
  <2>4. CASE UNCHANGED <<trail, torn>>
    BY <2>4 DEF Audit!trailVars
  <2> QED
    BY <2>2, <2>3, <2>4 DEF Next, Gate, Authorize, ReserveApproved, Ask, NoApprover,
       ApproverAnswers, ApproverRaises, StartOperation, FinishOperation, Cancel, vars
<1> QED
  BY <1>1, <1>2, PTL DEF Spec, Audit!TrailSpec
-----------------------------------------------------------------------------
(***************************************************************************)
(* The evidence: what the log says of a call at each place, and that every *)
(* record is true.  FInv knows that records precede what they admit; this  *)
(* second invariant knows that nothing else was recorded.                  *)
(***************************************************************************)

\* What a log can say of a call that has been admitted.
Admission == {<<"allowed">>, <<"approval_requested", "approval_granted">>}

\* What a log can say of a call, complete or not.
Beginning == {<<>>, <<"approval_requested">>} \union Admission \union Story

\* What the log says of c while it is inside the gate.
PlaceInv(c) ==
  /\ pc[c] \in {"authorize", "record_decision"} => trail[c] = <<>>
  /\ pc[c] \in {"approve", "reserve", "record_denial", "record_grant"}
       => trail[c] = <<"approval_requested">>
  /\ pc[c] \in {"run", "running", "record_terminal"} => trail[c] \in Admission
  /\ pc[c] = "record_denial" => verdict[c] = "denied"
  /\ pc[c] \in {"record_denial", "record_grant"} => c \notin started

TruthInv(c) ==
  /\ Says(c, "executed") => result[c] = "returned"
  /\ Says(c, "failed") => result[c] = "raised"
  /\ Says(c, "approval_granted") => verdict[c] = "approved" /\ c \in granted
  /\ Says(c, "approval_denied") => verdict[c] = "denied"
  /\ Says(c, "blocked") => c \notin granted \union started

CallEvidence(c) == trail[c] \in Beginning /\ PlaceInv(c) /\ TruthInv(c)

EInv == \A c \in Call : CallEvidence(c)

LEMMA SameCallEvidence ==
  ASSUME NEW x \in Call, CallEvidence(x), SameCall(x)
  PROVE  CallEvidence(x)'
BY DEF CallEvidence, PlaceInv, TruthInv, Says, SameCall

\* What the short logs say.
LEMMA ShortLogs ==
  ASSUME NEW c \in Call
  PROVE  /\ trail[c] = <<>> => \A e : ~Says(c, e)
         /\ trail[c] = <<"approval_requested">>
              => \A e : Says(c, e) => e = "approval_requested"
         /\ trail[c] \in Admission
              => \A e : Says(c, e) => e \in {"allowed", "approval_requested", "approval_granted"}
BY DEF Says, Admission

LEMMA Appends ==
  ASSUME NEW e \in Event, NEW f \in Event, NEW g \in Event
  PROVE  /\ Append(<<>>, e) = <<e>>
         /\ Append(<<e>>, f) = <<e, f>>
         /\ Append(<<e, f>>, g) = <<e, f, g>>
<1>1. ASSUME NEW s \in Seq(Event), NEW t \in Seq(Event), NEW x \in Event,
             Len(t) = Len(s) + 1, t[Len(t)] = x, \A i \in 1..Len(s) : t[i] = s[i]
      PROVE  Append(s, x) = t
  <2>1. Append(s, x) \in Seq(Event) /\ Len(Append(s, x)) = Len(t)
    BY <1>1
  <2>2. ASSUME NEW i \in 1..Len(t)
        PROVE  Append(s, x)[i] = t[i]
    BY <1>1, <2>2
  <2> QED
    BY <2>1, <2>2, SeqEqual
<1>2. Append(<<>>, e) = <<e>>
  <2>1. <<>> \in Seq(Event) /\ <<e>> \in Seq(Event) /\ Len(<<>>) = 0 /\ Len(<<e>>) = 1
        /\ <<e>>[1] = e
    OBVIOUS
  <2> QED
    BY <1>1, <2>1
<1>3. Append(<<e>>, f) = <<e, f>>
  <2> DEFINE s == <<e>>
             t == <<e, f>>
  <2>1. s \in Seq(Event) /\ t \in Seq(Event) /\ Len(s) = 1 /\ Len(t) = 2
        /\ s[1] = e /\ t[1] = e /\ t[2] = f
    OBVIOUS
  <2> HIDE DEF s, t
  <2>2. Len(t) = Len(s) + 1 /\ t[Len(t)] = f /\ \A i \in 1..Len(s) : t[i] = s[i]
    BY <2>1
  <2>3. Append(s, f) = t
    BY <1>1, <2>1, <2>2
  <2> QED
    BY <2>3 DEF s, t
<1>4. Append(<<e, f>>, g) = <<e, f, g>>
  <2> DEFINE s == <<e, f>>
             t == <<e, f, g>>
  <2>1. s \in Seq(Event) /\ t \in Seq(Event) /\ Len(s) = 2 /\ Len(t) = 3
        /\ s[1] = e /\ s[2] = f /\ t[1] = e /\ t[2] = f /\ t[3] = g
    OBVIOUS
  <2> HIDE DEF s, t
  <2>2. Len(t) = Len(s) + 1 /\ t[Len(t)] = g /\ \A i \in 1..Len(s) : t[i] = s[i]
    BY <2>1
  <2>3. Append(s, g) = t
    BY <1>1, <2>1, <2>2
  <2> QED
    BY <2>3 DEF s, t
<1> QED
  BY <1>2, <1>3, <1>4

\* Every beginning begins one of the stories.
LEMMA BeginningOfStory ==
  ASSUME NEW s \in Beginning
  PROVE  \E story \in Story : /\ Len(s) <= Len(story)
                              /\ \A i \in DOMAIN s : s[i] = story[i]
<1>1. CASE s \in Story
  <2>1. Len(s) \in Nat
    BY <1>1 DEF Story
  <2> QED
    BY <1>1, <2>1
<1>2. CASE s = <<>>
  <2>1. <<"blocked">> \in Story
    BY DEF Story
  <2> QED
    BY <1>2, <2>1
<1>3. CASE s = <<"approval_requested">>
  <2>1. <<"approval_requested", "blocked">> \in Story
    BY DEF Story
  <2> QED
    BY <1>3, <2>1
<1>4. CASE s = <<"allowed">>
  <2>1. <<"allowed", "executed">> \in Story
    BY DEF Story
  <2> QED
    BY <1>4, <2>1
<1>5. CASE s = <<"approval_requested", "approval_granted">>
  <2>1. <<"approval_requested", "approval_granted", "executed">> \in Story
    BY DEF Story
  <2> QED
    BY <1>5, <2>1
<1> QED
  BY <1>1, <1>2, <1>3, <1>4, <1>5 DEF Beginning, Admission

\* The call that moves is the only one whose evidence can change.
LEMMA OneCallTells ==
  ASSUME EInv, NEW c \in Call, CallEvidence(c)', \A x \in Call \ {c} : SameCall(x)
  PROVE  EInv'
BY SameCallEvidence DEF EInv

\* A record leaves c where its log is a beginning, and true.
LEMMA RecordTells ==
  ASSUME FInv, EInv, NEW c \in Call, NEW from, NEW event \in Event,
         NEW next \in Step \union Outcome, NEW failed \in Step \union Outcome,
         RecordThen(c, from, event, next, failed),
         /\ pc[c] = from
         /\ UNCHANGED <<granted, verdict, started, result>>
         /\ \/ /\ pc'[c] = next
               /\ trail'[c] = Append(trail[c], event)
               /\ \A e : Says(c, e)' <=> Says(c, e) \/ e = event
            \/ /\ FailsAs(c, failed)
               /\ trail'[c] = trail[c]
               /\ \A e : Says(c, e)' <=> Says(c, e)
         => CallEvidence(c)'
  PROVE  EInv'
BY RecordCases, OneCallTells

LEMMA RecordDecisionTells ==
  ASSUME FInv, EInv, NEW c \in Call, RecordDecision(c)
  PROVE  EInv'
<1>1. CallInv(c) /\ CallEvidence(c) /\ pc[c] = "record_decision"
  BY DEF FInv, EInv, RecordDecision, RecordThen, Goto
<1>2. trail[c] = <<>> /\ \A e : ~Says(c, e)
  BY <1>1, ShortLogs DEF CallEvidence, PlaceInv
<1>3. c \notin started
  BY <1>1 DEF CallInv, RunInv
<1>4. CASE /\ Kind(c) = "block"
           /\ RecordThen(c, "record_decision", "blocked", "ToolCallBlocked", "AuditWriteError")
  <2>1. /\ "blocked" \in Event
        /\ {"ToolCallBlocked", "AuditWriteError"} \subseteq Step \union Outcome
    BY DEF Event, Step, Outcome
  <2>2. c \notin granted
    BY <1>4 DEF FInv, LedgerInv, CountedIffMayRun, Kind
  <2>3. Append(trail[c], "blocked") \in Beginning /\ trail[c] \in Beginning
    BY <1>2, Appends DEF Event, Beginning, Story
  <2> SUFFICES ASSUME UNCHANGED <<granted, verdict, started, result>>,
                      \/ /\ pc'[c] = "ToolCallBlocked"
                         /\ trail'[c] = Append(trail[c], "blocked")
                         /\ \A e : Says(c, e)' <=> Says(c, e) \/ e = "blocked"
                      \/ /\ FailsAs(c, "AuditWriteError")
                         /\ trail'[c] = trail[c]
                         /\ \A e : Says(c, e)' <=> Says(c, e)
               PROVE  CallEvidence(c)'
    BY <1>4, <2>1, RecordTells
  <2> QED
    BY <1>2, <1>3, <2>2, <2>3 DEF FailsAs, CallEvidence, PlaceInv, TruthInv
<1>5. CASE /\ Kind(c) = "require_approval"
           /\ RecordThen(c, "record_decision", "approval_requested", "approve", "AuditWriteError")
  <2>1. /\ "approval_requested" \in Event
        /\ {"approve", "AuditWriteError"} \subseteq Step \union Outcome
    BY DEF Event, Step, Outcome
  <2>2. Append(trail[c], "approval_requested") = <<"approval_requested">>
    BY <1>2, Appends
  <2>3. <<"approval_requested">> \in Beginning /\ trail[c] \in Beginning
    BY <1>2 DEF Beginning
  <2> SUFFICES ASSUME UNCHANGED <<granted, verdict, started, result>>,
                      \/ /\ pc'[c] = "approve"
                         /\ trail'[c] = Append(trail[c], "approval_requested")
                         /\ \A e : Says(c, e)' <=> Says(c, e) \/ e = "approval_requested"
                      \/ /\ FailsAs(c, "AuditWriteError")
                         /\ trail'[c] = trail[c]
                         /\ \A e : Says(c, e)' <=> Says(c, e)
               PROVE  CallEvidence(c)'
    BY <1>5, <2>1, RecordTells
  <2> QED
    BY <1>2, <2>2, <2>3 DEF FailsAs, CallEvidence, PlaceInv, TruthInv
<1>6. CASE /\ Kind(c) = "allow"
           /\ RecordThen(c, "record_decision", "allowed", "run", "AuditWriteError")
  <2>1. /\ "allowed" \in Event
        /\ {"run", "AuditWriteError"} \subseteq Step \union Outcome
    BY DEF Event, Step, Outcome
  <2>2. Append(trail[c], "allowed") \in Admission
    BY <1>2, Appends DEF Event, Admission
  <2>3. Admission \subseteq Beginning /\ trail[c] \in Beginning
    BY <1>2 DEF Beginning
  <2> SUFFICES ASSUME UNCHANGED <<granted, verdict, started, result>>,
                      \/ /\ pc'[c] = "run"
                         /\ trail'[c] = Append(trail[c], "allowed")
                         /\ \A e : Says(c, e)' <=> Says(c, e) \/ e = "allowed"
                      \/ /\ FailsAs(c, "AuditWriteError")
                         /\ trail'[c] = trail[c]
                         /\ \A e : Says(c, e)' <=> Says(c, e)
               PROVE  CallEvidence(c)'
    BY <1>6, <2>1, RecordTells
  <2> QED
    BY <1>2, <2>2, <2>3 DEF FailsAs, CallEvidence, PlaceInv, TruthInv
<1> QED
  BY <1>4, <1>5, <1>6 DEF RecordDecision

\* A step that moves c without a record, and changes nothing else of it.
LEMMA MoveTells ==
  ASSUME FInv, EInv, NEW c \in Call, NEW from, NEW to \in Outcome,
         Goto(c, from, to), UNCHANGED <<ledgerVars, trail, torn, gateVars>>
  PROVE  EInv'
<1>1. pc'[c] = to /\ \A x \in Call \ {c} : SameCall(x)
  BY OnlyMoves DEF gateVars, FInv, TypeOk
<1>2. UNCHANGED <<granted, trail, verdict, started, result>>
  BY DEF ledgerVars, gateVars
<1>3. CallEvidence(c)'
  BY <1>1, <1>2 DEF EInv, CallEvidence, PlaceInv, TruthInv, Says, Outcome
<1> QED
  BY <1>1, <1>3, OneCallTells

LEMMA RecordDenialTells ==
  ASSUME FInv, EInv, NEW c \in Call, RecordDenial(c)
  PROVE  EInv'
<1>1. CASE RecordThen(c, "record_denial", "approval_denied", "ToolCallBlocked",
                      "AuditWriteError")
  <2>1. CallEvidence(c) /\ pc[c] = "record_denial"
    BY <1>1 DEF EInv, RecordThen, Goto
  <2>2. /\ trail[c] = <<"approval_requested">> /\ verdict[c] = "denied"
        /\ \A e : Says(c, e) => e = "approval_requested"
    BY <2>1, ShortLogs DEF CallEvidence, PlaceInv
  <2>3. /\ "approval_denied" \in Event
        /\ {"ToolCallBlocked", "AuditWriteError"} \subseteq Step \union Outcome
    BY DEF Event, Step, Outcome
  <2>4. Append(trail[c], "approval_denied") \in Beginning /\ trail[c] \in Beginning
    BY <2>2, Appends DEF Event, Beginning, Story
  <2> SUFFICES ASSUME UNCHANGED <<granted, verdict, started, result>>,
                      \/ /\ pc'[c] = "ToolCallBlocked"
                         /\ trail'[c] = Append(trail[c], "approval_denied")
                         /\ \A e : Says(c, e)' <=> Says(c, e) \/ e = "approval_denied"
                      \/ /\ FailsAs(c, "AuditWriteError")
                         /\ trail'[c] = trail[c]
                         /\ \A e : Says(c, e)' <=> Says(c, e)
               PROVE  CallEvidence(c)'
    BY <1>1, <2>3, RecordTells
  <2> QED
    BY <2>2, <2>4 DEF FailsAs, CallEvidence, PlaceInv, TruthInv
<1>2. CASE UsageUnreadable(c, "record_denial", "StorageError")
  BY <1>2, MoveTells DEF UsageUnreadable, Outcome
<1> QED
  BY <1>1, <1>2 DEF RecordDenial

LEMMA RecordGrantTells ==
  ASSUME FInv, EInv, NEW c \in Call, RecordGrant(c)
  PROVE  EInv'
<1>1. CallInv(c) /\ CallEvidence(c) /\ pc[c] = "record_grant"
  BY DEF FInv, EInv, RecordGrant, RecordThen, Goto
<1>2. /\ trail[c] = <<"approval_requested">> /\ verdict[c] = "approved"
      /\ answer[c].decision \in Decision /\ answer[c].approved
      /\ c \notin started
      /\ \A e : Says(c, e) => e = "approval_requested"
  BY <1>1, ShortLogs DEF CallEvidence, PlaceInv, CallInv, ApprovalInv, DecisionInv
<1>3. CASE /\ Kind(c) = "block"
           /\ RecordThen(c, "record_grant", "blocked", "ToolCallBlocked", "AuditWriteError")
  <2>1. /\ "blocked" \in Event
        /\ {"ToolCallBlocked", "AuditWriteError"} \subseteq Step \union Outcome
    BY DEF Event, Step, Outcome
  <2>2. c \notin granted
    BY <1>3 DEF FInv, LedgerInv, CountedIffMayRun, Kind
  <2>3. Append(trail[c], "blocked") \in Beginning /\ trail[c] \in Beginning
    BY <1>2, Appends DEF Event, Beginning, Story
  <2> SUFFICES ASSUME UNCHANGED <<granted, verdict, started, result>>,
                      \/ /\ pc'[c] = "ToolCallBlocked"
                         /\ trail'[c] = Append(trail[c], "blocked")
                         /\ \A e : Says(c, e)' <=> Says(c, e) \/ e = "blocked"
                      \/ /\ FailsAs(c, "AuditWriteError")
                         /\ trail'[c] = trail[c]
                         /\ \A e : Says(c, e)' <=> Says(c, e)
               PROVE  CallEvidence(c)'
    BY <1>3, <2>1, RecordTells
  <2> QED
    BY <1>2, <2>2, <2>3 DEF FailsAs, CallEvidence, PlaceInv, TruthInv
<1>4. CASE /\ Kind(c) # "block"
           /\ RecordThen(c, "record_grant", "approval_granted", "run", "AuditWriteError")
  <2>1. /\ "approval_granted" \in Event
        /\ {"run", "AuditWriteError"} \subseteq Step \union Outcome
    BY DEF Event, Step, Outcome
  <2>2. c \in granted
    BY <1>2, <1>4 DEF FInv, LedgerInv, CountedIffMayRun, Kind, Decision, DecisionKind
  <2>3. Append(trail[c], "approval_granted") \in Admission
    BY <1>2, Appends DEF Event, Admission
  <2>4. Admission \subseteq Beginning /\ trail[c] \in Beginning
    BY <1>2 DEF Beginning
  <2> SUFFICES ASSUME UNCHANGED <<granted, verdict, started, result>>,
                      \/ /\ pc'[c] = "run"
                         /\ trail'[c] = Append(trail[c], "approval_granted")
                         /\ \A e : Says(c, e)' <=> Says(c, e) \/ e = "approval_granted"
                      \/ /\ FailsAs(c, "AuditWriteError")
                         /\ trail'[c] = trail[c]
                         /\ \A e : Says(c, e)' <=> Says(c, e)
               PROVE  CallEvidence(c)'
    BY <1>4, <2>1, RecordTells
  <2> QED
    BY <1>2, <2>2, <2>3, <2>4 DEF FailsAs, CallEvidence, PlaceInv, TruthInv
<1> QED
  BY <1>3, <1>4 DEF RecordGrant

LEMMA RecordTerminalTells ==
  ASSUME FInv, EInv, NEW c \in Call, RecordTerminal(c)
  PROVE  EInv'
<1> DEFINE event == IF result[c] = "returned" THEN "executed" ELSE "failed"
<1>1. CASE RecordThen(c, "record_terminal", event, result[c], "AuditWriteError+")
  <2>1. /\ CallInv(c) /\ CallEvidence(c) /\ pc[c] = "record_terminal"
        /\ result[c] \in {"none", "returned", "raised"}
    BY <1>1 DEF FInv, TypeOk, EInv, RecordThen, Goto
  <2>6. c \notin Unencodable
    BY <2>1 DEF FInv, LedgerInv, CountsAgree, CallInv, RunInv, Ready
  <2>2. /\ result[c] \in {"returned", "raised"} /\ trail[c] \in Admission
        /\ \A e : Says(c, e) => e \in {"allowed", "approval_requested", "approval_granted"}
    BY <2>1, ShortLogs DEF CallInv, RunInv, CallEvidence, PlaceInv
  <2>3. event \in Event /\ {result[c], "AuditWriteError+"} \subseteq Step \union Outcome
    BY <2>2 DEF Event, Outcome
  <2>4. event \in {"executed", "failed"}
    OBVIOUS
  <2>5. Append(trail[c], event) \in Beginning /\ trail[c] \in Beginning
    <3> HIDE DEF event
    <3>1. CASE trail[c] = <<"allowed">>
      BY <2>4, <3>1, Appends DEF Event, Beginning, Story, Admission
    <3>2. CASE trail[c] = <<"approval_requested", "approval_granted">>
      BY <2>4, <3>2, Appends DEF Event, Beginning, Story, Admission
    <3> QED
      BY <2>2, <3>1, <3>2 DEF Admission
  <2> HIDE DEF event
  <2> SUFFICES ASSUME UNCHANGED <<granted, verdict, started, result>>,
                      \/ /\ pc'[c] = result[c]
                         /\ trail'[c] = Append(trail[c], event)
                         /\ \A e : Says(c, e)' <=> Says(c, e) \/ e = event
                      \/ /\ FailsAs(c, "AuditWriteError+")
                         /\ trail'[c] = trail[c]
                         /\ \A e : Says(c, e)' <=> Says(c, e)
               PROVE  CallEvidence(c)'
    BY <1>1, <2>3, RecordTells
  <2> QED
    BY <2>1, <2>2, <2>4, <2>5, <2>6 DEF FailsAs, CallEvidence, PlaceInv, TruthInv, event
<1>2. CASE UsageUnreadable(c, "record_terminal", "AuditWriteError+")
  BY <1>2, MoveTells DEF UsageUnreadable, Outcome
<1> QED
  BY <1>1, <1>2 DEF RecordTerminal

\* A call that asks the store has no record yet that its answer could belie.
LEMMA AskTells ==
  ASSUME FInv, EInv, NEW c \in Call, Authorize(c) \/ ReserveApproved(c)
  PROVE  EInv'
<1>1. CallInv(c) /\ CallEvidence(c)
  BY DEF FInv, EInv
<1>2. /\ UNCHANGED <<trail, verdict, started, result>>
      /\ \A x \in Call \ {c} : SameCall(x)
      /\ \/ pc[c] = "authorize" /\ pc'[c] \in {"record_decision"} \union Failure
         \/ pc[c] = "reserve" /\ pc'[c] \in {"record_grant"} \union Failure
  BY AskCases DEF Authorize, ReserveApproved, Step
<1>3. /\ \A e : Says(c, e) => e = "approval_requested"
      /\ c \notin started
  BY <1>1, <1>2, ShortLogs DEF CallEvidence, PlaceInv, CallInv, RunInv
<1>4. \A e : Says(c, e)' <=> Says(c, e)
  BY <1>2 DEF Says
<1>5. TruthInv(c)'
  BY <1>3, <1>4 DEF TruthInv
<1>6. (trail[c] \in Beginning)' /\ PlaceInv(c)'
  BY <1>1, <1>2, <1>3 DEF CallEvidence, PlaceInv, Failure
<1> QED
  BY <1>2, <1>5, <1>6, OneCallTells DEF CallEvidence

LEMMA ApproverAnswersTells ==
  ASSUME FInv, EInv, NEW c \in Call, ApproverAnswers(c)
  PROVE  EInv'
<1>1. /\ CallInv(c) /\ CallEvidence(c)
      /\ pc \in [Call -> Step \union Outcome]
      /\ verdict \in [Call -> {"none", "approved", "denied"}]
  BY DEF FInv, TypeOk, EInv
<1>2. PICK v \in {"approved", "denied"} :
        /\ verdict' = [verdict EXCEPT ![c] = v]
        /\ Goto(c, "approve", IF v = "approved" THEN "reserve" ELSE "record_denial")
  BY DEF ApproverAnswers
<1>3. UNCHANGED <<granted, answer, trail, started, result>>
  BY DEF ApproverAnswers, ledgerVars
<1>4. /\ pc[c] = "approve" /\ verdict'[c] = v
      /\ pc'[c] = IF v = "approved" THEN "reserve" ELSE "record_denial"
      /\ \A x \in Call \ {c} : SameCall(x)
  BY <1>1, <1>2, <1>3 DEF Goto, SameCall
<1>5. /\ trail[c] = <<"approval_requested">> /\ c \notin started
      /\ \A e : Says(c, e) => e = "approval_requested"
  BY <1>1, <1>4, ShortLogs DEF CallEvidence, PlaceInv, CallInv, RunInv
<1>6. \A e : Says(c, e)' <=> Says(c, e)
  BY <1>3 DEF Says
<1>7. TruthInv(c)'
  BY <1>5, <1>6 DEF TruthInv
<1>8. (trail[c] \in Beginning)' /\ PlaceInv(c)'
  BY <1>1, <1>2, <1>3, <1>4, <1>5 DEF CallEvidence, PlaceInv
<1> QED
  BY <1>4, <1>7, <1>8, OneCallTells DEF CallEvidence

LEMMA OperationTells ==
  ASSUME FInv, EInv, NEW c \in Call, StartOperation(c) \/ FinishOperation(c)
  PROVE  EInv'
<1>1. /\ CallInv(c) /\ CallEvidence(c)
      /\ pc \in [Call -> Step \union Outcome]
      /\ started \in SUBSET Call
      /\ result \in [Call -> {"none", "returned", "raised"}]
  BY DEF FInv, TypeOk, EInv
<1>2. /\ UNCHANGED <<granted, answer, trail, verdict>>
      /\ \/ /\ Goto(c, "run", "running") /\ started' = started \union {c} /\ result' = result
         \/ /\ Goto(c, "running", "record_terminal") /\ started' = started
            /\ \E r \in {"returned", "raised"} : result' = [result EXCEPT ![c] = r]
  BY DEF StartOperation, FinishOperation, ledgerVars
<1>3. /\ pc[c] \in {"run", "running"} /\ pc'[c] \in {"running", "record_terminal"}
      /\ \A x \in Call \ {c} : SameCall(x)
  BY <1>1, <1>2 DEF Goto, SameCall
<1>4. /\ trail[c] \in Admission
      /\ \A e : Says(c, e) => e \in {"allowed", "approval_requested", "approval_granted"}
  BY <1>1, <1>3, ShortLogs DEF CallEvidence, PlaceInv
<1>5. \A e : Says(c, e)' <=> Says(c, e)
  BY <1>2 DEF Says
<1>6. TruthInv(c)'
  BY <1>1, <1>2, <1>4, <1>5 DEF TruthInv, CallEvidence
<1>7. (trail[c] \in Beginning)' /\ PlaceInv(c)'
  BY <1>1, <1>2, <1>3, <1>4 DEF CallEvidence, PlaceInv
<1> QED
  BY <1>3, <1>6, <1>7, OneCallTells DEF CallEvidence

LEMMA CrashTells ==
  ASSUME FInv, EInv, NEW p \in Process, Crash(p)
  PROVE  EInv'
<1> SUFFICES ASSUME NEW c \in Call
             PROVE  CallEvidence(c)'
  BY DEF EInv
<1>1. /\ UNCHANGED <<granted, trail, verdict, started, result>>
      /\ pc'[c] \in {pc[c], "dead"}
  BY DEF Crash, Audit!Tear, ledgerVars, gateVars
<1> QED
  BY <1>1 DEF EInv, CallEvidence, PlaceInv, TruthInv, Says

LEMMA StepTells == FInv /\ EInv /\ [Next]_vars => EInv'
<1> SUFFICES ASSUME FInv, EInv, [Next]_vars
             PROVE  EInv'
  OBVIOUS
<1>1. ASSUME NEW c \in Call, NoApprover(c) \/ ApproverRaises(c) \/ Cancel(c)
      PROVE  EInv'
  BY <1>1, MoveTells DEF NoApprover, ApproverRaises, Cancel, Outcome
<1>2. ASSUME NEW c \in Call, Gate(c) \/ ApproverAnswers(c) \/ ApproverRaises(c)
                               \/ FinishOperation(c) \/ Cancel(c)
      PROVE  EInv'
  BY <1>1, <1>2, AskTells, RecordDecisionTells, ApproverAnswersTells, RecordDenialTells,
     RecordGrantTells, OperationTells, RecordTerminalTells
     DEF Gate
<1>3. ASSUME UNCHANGED vars
      PROVE  EInv'
  BY <1>3 DEF vars, ledgerVars, gateVars, EInv, CallEvidence, PlaceInv, TruthInv, Says
<1> QED
  BY <1>2, <1>3, CrashTells DEF Next

\* The log of a call is the beginning of one of the stories of Story, and no
\* record of it is false: what is executed, failed, granted, denied or
\* blocked according to the log is so in fact.
THEOREM EvidenceNeverLies == Spec => []EvidenceIsTrue
<1>1. Init => EInv
  <2> SUFFICES ASSUME Init, NEW c \in Call
               PROVE  CallEvidence(c)
    BY DEF EInv
  <2>1. pc[c] = "authorize" /\ trail[c] = <<>>
    BY DEF Init, Audit!TrailInit
  <2>2. \A e : ~Says(c, e)
    BY <2>1, ShortLogs
  <2> QED
    BY <2>1, <2>2 DEF CallEvidence, PlaceInv, TruthInv, Beginning
<1>2. EInv => EvidenceIsTrue
  BY BeginningOfStory DEF EInv, CallEvidence, TruthInv, EvidenceIsTrue
<1> QED
  BY Invariance, StepTells, <1>1, <1>2, PTL DEF Spec

-----------------------------------------------------------------------------
(***************************************************************************)
(* The money.  What the ledger says of every behaviour it says of this     *)
(* one; the operations started are some of the calls it granted.           *)
(***************************************************************************)

\* The operations started, over all processes, cancellations and crashes, do
\* not cost more than the budget.
THEOREM RunsStayWithinCost == Spec => []RunCostWithinBudget
<1>1. LedgerInv /\ CostAgrees /\ RunsWithinBudget => RunCostWithinBudget
  <2> SUFFICES ASSUME LedgerInv, CostAgrees, RunsWithinBudget, MaxCost # NoLimit
               PROVE  TotalCost(started) <= MaxCost
    BY DEF RunCostWithinBudget, AtMost
  <2> DEFINE counted == granted \union halfCounted
  <2>1. counted \in SUBSET Call /\ IsFiniteSet(counted) /\ started \in SUBSET counted
    BY FS_Union DEF LedgerInv, LedgerTypeOk, RunsWithinBudget
  <2>3. TotalCost(counted) <= MaxCost /\ MaxCost \in Nat
    BY BudgetAssumption DEF LedgerInv, GrantedWithinBudget, CostAgrees, AtMost, CostLimit
  <2> HIDE DEF counted
  <2>2. /\ TotalCost(started) <= TotalCost(counted)
        /\ TotalCost(started) \in Nat /\ TotalCost(counted) \in Nat
    BY <2>1, TotalCostMonotone
  <2> QED
    BY <2>2, <2>3
<1> QED
  BY GateFollowsLedger, LedgerInvariance, CostCorrect, RunsStayWithinBudget, <1>1, PTL
=============================================================================
