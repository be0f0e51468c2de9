------------------------------- MODULE Ledger -------------------------------
(***************************************************************************)
(* What every state store promises its callers, and what MemoryStateStore  *)
(* does under its lock: a call is evaluated against the usage of the run   *)
(* and, if the decision reserves, counted, in one indivisible step.        *)
(*                                                                         *)
(* The stores differ when that step fails.  SQLiteStateStore rolls back.   *)
(* MemoryStateStore changes its counters in place, cannot fail but by a    *)
(* fingerprint that raises, and keeps what was counted until then.         *)
(*                                                                         *)
(* granted and halfCounted are history variables: the calls counted so     *)
(* far, and those whose count was left half done.  The counters of usage   *)
(* are all the program keeps of them.                                      *)
(*                                                                         *)
(* A call asks as Firewall makes it ask: once when it arrives, and once    *)
(* more, approved, if it was held for approval.                            *)
(***************************************************************************)
EXTENDS Policy

CONSTANT Store   \* which of the two stores the run is kept in

ASSUME StoreAssumption == Store \in {"memory", "sqlite"}

VARIABLES
  usage,        \* the run's counters
  granted,      \* the calls that have been counted
  halfCounted,  \* the calls that raised an exception and three counters
  answer        \* what the store last told each call

ledgerVars == <<usage, granted, halfCounted, answer>>

Failure == {"StorageError", "sqlite3.Error", "UnicodeEncodeError"}

NoDecision == [kind |-> "none", code |-> "none"]

\* What a call holds of the store: nothing yet, a decision, or an exception.
Answer == [status : {"none", "decided"} \union Failure,
           approved : BOOLEAN,
           decision : Decision \union {NoDecision}]

NoAnswer == [status |-> "none", approved |-> FALSE, decision |-> NoDecision]

Decided(approved, decision) ==
  [status |-> "decided", approved |-> approved, decision |-> decision]

Failed(approved, failure) ==
  [status |-> failure, approved |-> approved, decision |-> NoDecision]

LedgerTypeOk ==
  /\ usage \in Usage
  /\ granted \in SUBSET Call
  /\ halfCounted \in SUBSET Call
  /\ answer \in [Call -> Answer]

Held(c) == /\ ~answer[c].approved
           /\ answer[c].decision.kind = "require_approval"

\* The caller's protocol: Firewall._authorize and Firewall._finish_approval.
MayAsk(c, approved) == IF approved THEN Held(c) ELSE answer[c].status = "none"

LedgerInit ==
  /\ usage = EmptyUsage
  /\ granted = {}
  /\ halfCounted = {}
  /\ answer = [c \in Call |-> NoAnswer]

\* Evaluate under the lock; count the call if the decision reserves usage.
EvaluateAndReserve(c, approved) ==
  LET decision == Evaluate(usage, c) IN
  /\ MayAsk(c, approved)
  /\ ~FingerprintRaises(usage, c, approved)
  /\ IF ReservesUsage(decision, approved)
     THEN usage' = Record(usage, c) /\ granted' = granted \union {c}
     ELSE UNCHANGED <<usage, granted>>
  /\ answer' = [answer EXCEPT ![c] = Decided(approved, decision)]
  /\ UNCHANGED halfCounted

\* The fingerprint raises UnicodeEncodeError.  If it was the budget's check
\* that asked for it, nothing is counted yet; if it was Usage.record, three
\* counters are, and only SQLite takes them back.
FailFingerprint(c, approved) ==
  /\ MayAsk(c, approved)
  /\ FingerprintRaises(usage, c, approved)
  /\ IF Store = "memory" /\ ~BudgetAsksFingerprint(usage, c)
     THEN usage' = RecordPartly(usage, c) /\ halfCounted' = halfCounted \union {c}
     ELSE UNCHANGED <<usage, halfCounted>>
  /\ answer' = [answer EXCEPT ![c] = Failed(approved, "UnicodeEncodeError")]
  /\ UNCHANGED granted

\* The database could not answer: nothing is counted.
FailStorage(c, approved) ==
  /\ Store = "sqlite"
  /\ MayAsk(c, approved)
  /\ \E failure \in {"StorageError", "sqlite3.Error"} :
       answer' = [answer EXCEPT ![c] = Failed(approved, failure)]
  /\ UNCHANGED <<usage, granted, halfCounted>>

Fail(c, approved) == FailFingerprint(c, approved) \/ FailStorage(c, approved)

LedgerNext ==
  \E c \in Call, approved \in BOOLEAN :
    EvaluateAndReserve(c, approved) \/ Fail(c, approved)

LedgerSpec == LedgerInit /\ [][LedgerNext]_ledgerVars

-----------------------------------------------------------------------------
\* The counters of the run and of every tool count the granted calls, each
\* once, and the half-counted ones; those of the fingerprints count the
\* granted calls alone (Usage.record raises three counters before it asks for
\* the fingerprint).  A call without a fingerprint is never granted, and only
\* such a call, only in memory, is ever half-counted: no counter is below the
\* granted calls, and in SQLite all of them are exact.
CountsAgree ==
  /\ CountsBut(usage, granted, halfCounted)
  /\ halfCounted \subseteq Unencodable /\ granted \intersect Unencodable = {}
  /\ Store = "sqlite" => halfCounted = {}

\* The estimated cost of the run is the cost of the granted calls, each
\* charged once, however often it was evaluated, and of the half-counted
\* ones, which the memory store goes on charging though they never ran.
CostAgrees == usage.estimated_cost_usd = TotalCost(granted \union halfCounted)

\* No interleaving of callers reserves more than the budget of the policy
\* (policy.py budget_decision, checked and counted under one lock).
GrantedWithinBudget ==
  /\ CountsWithinBudget(granted)
  /\ AtMost(usage.estimated_cost_usd, MaxCost)

\* A call is counted exactly when its last answer says it may run: an ALLOW,
\* or an approved call that was not blocked.  A held, blocked or failed call
\* is not among the granted ones.
CountedIffMayRun ==
  \A c \in Call :
    c \in granted <=> \/ answer[c].decision.kind = "allow"
                      \/ /\ answer[c].decision.kind = "require_approval"
                         /\ answer[c].approved

\* A budget that refuses a call refuses it ever after: approval and retry
\* cannot find room where there was none.
SpentStaysSpent ==
  [][\A c \in Call : BudgetSpent(usage, c) => BudgetSpent(usage', c)]_ledgerVars
=============================================================================
