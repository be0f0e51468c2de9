------------------------------- MODULE Policy -------------------------------
(***************************************************************************)
(* The decision function of agent_firewall: what policy.py and models.py   *)
(* compute, without any state.  A policy is a budget, an ordered list of   *)
(* rules and a default decision; evaluating a call against a usage record  *)
(* checks the budget first, then the first rule that matches, then the     *)
(* default.                                                                *)
(*                                                                         *)
(* Abstractions.  A rule's tool glob is the set of tool names it matches   *)
(* and its argument patterns are the set of argument objects they match:   *)
(* globbing and the typed matchers are data.  A fingerprint (SHA-256 of    *)
(* the canonical JSON of name and depth-bounded arguments) is the pair it  *)
(* hashes; of the calls in Unencodable there is none, because the JSON has *)
(* no UTF-8 form (a lone surrogate, which json.loads lets through), and    *)
(* whoever asks for it gets UnicodeEncodeError.  Money is counted in whole *)
(* units; the rounding of the Decimal context is not modelled.             *)
(***************************************************************************)
EXTENDS Naturals, Sequences, FiniteSets, Functions

CONSTANTS
  Call,        \* the tool calls of the run, each created once (uuid4 id)
  Unencodable, \* those whose fingerprint raises UnicodeEncodeError
  Tool,        \* tool names
  Arguments,   \* argument objects
  Bounded,     \* what bounded() leaves of an argument object
  Rules,       \* the policy's rules, in order
  Default,     \* the policy's default decision
  MaxCalls, MaxCallsPerTool, MaxIdenticalCalls, MaxCost,   \* the budget
  NoLimit      \* the value of a budget field that is absent

DecisionKind == {"allow", "block", "require_approval"}

Code == {"max_calls", "max_calls_per_tool", "max_identical_calls",
         "max_cost_usd", "rule_match", "default"}

Decision == [kind : DecisionKind, code : Code]

Fingerprint == [tool : Tool, arguments : Arguments]

Usage == [tool_calls : Nat,
          estimated_cost_usd : Nat,
          calls_by_tool : [Tool -> Nat],
          calls_by_fingerprint : [Fingerprint -> Nat]]

\* Policy.from_dict: each count limit is a positive integer or absent, the
\* cost limit is any nonnegative amount or absent.
CountLimit == (Nat \ {0}) \union {NoLimit}

CostLimit == Nat \union {NoLimit}

Rule == [tool : SUBSET Tool, arguments : SUBSET Arguments, decision : DecisionKind]

\* ToolCall: the fields evaluation reads.  money() admits no negative cost.
ASSUME CallAssumption ==
  \A c \in Call : /\ c.name \in Tool
                  /\ c.arguments \in Arguments
                  /\ c.estimated_cost_usd \in Nat

ASSUME UnencodableAssumption == Unencodable \subseteq Call

ASSUME BoundedAssumption == Bounded \in [Arguments -> Arguments]

ASSUME BudgetAssumption ==
  /\ NoLimit \notin Nat
  /\ {MaxCalls, MaxCallsPerTool, MaxIdenticalCalls} \subseteq CountLimit
  /\ MaxCost \in CostLimit

ASSUME RulesAssumption ==
  /\ Rules \in Seq(Rule)
  /\ Default \in DecisionKind

-----------------------------------------------------------------------------
FingerprintOf(c) == [tool |-> c.name, arguments |-> Bounded[c.arguments]]

EmptyUsage == [tool_calls |-> 0,
               estimated_cost_usd |-> 0,
               calls_by_tool |-> [t \in Tool |-> 0],
               calls_by_fingerprint |-> [f \in Fingerprint |-> 0]]

\* Mutant: the counter of the tool is forgotten.
RecordNoTool(u, c) ==
  [u EXCEPT !.tool_calls = @ + 1,
            !.estimated_cost_usd = @ + c.estimated_cost_usd,
            !.calls_by_fingerprint[FingerprintOf(c)] = @ + 1]

\* Mutant: the cost of the call replaces the cost of the run.
RecordLastCost(u, c) ==
  [u EXCEPT !.tool_calls = @ + 1,
            !.estimated_cost_usd = c.estimated_cost_usd,
            !.calls_by_tool[c.name] = @ + 1,
            !.calls_by_fingerprint[FingerprintOf(c)] = @ + 1]

\* Mutant: only the fingerprint of the last call is kept.
RecordLastFingerprint(u, c) ==
  [u EXCEPT !.tool_calls = @ + 1,
            !.estimated_cost_usd = @ + c.estimated_cost_usd,
            !.calls_by_tool[c.name] = @ + 1,
            !.calls_by_fingerprint =
                [f \in Fingerprint |-> IF f = FingerprintOf(c) THEN @[f] + 1 ELSE 0]]

\* Usage.record: one call more, in each of the four counters.
Record(u, c) ==
  [u EXCEPT !.tool_calls = @ + 1,
            !.estimated_cost_usd = @ + c.estimated_cost_usd,
            !.calls_by_tool[c.name] = @ + 1,
            !.calls_by_fingerprint[FingerprintOf(c)] = @ + 1]

\* What Usage.record has done when the fingerprint raises: the first three
\* counters are raised, the fourth is not.
RecordPartly(u, c) ==
  [u EXCEPT !.tool_calls = @ + 1,
            !.estimated_cost_usd = @ + c.estimated_cost_usd,
            !.calls_by_tool[c.name] = @ + 1]

\* Mutant: off by one.
ExhaustedLate(count, limit) == limit # NoLimit /\ count > limit

Exhausted(count, limit) == limit # NoLimit /\ count >= limit

\* Mutant: the cost of the call itself is left out.
CostExceededBefore(u, c) == MaxCost # NoLimit /\ u.estimated_cost_usd > MaxCost

CostExceeded(u, c) ==
  MaxCost # NoLimit /\ u.estimated_cost_usd + c.estimated_cost_usd > MaxCost

\* The budget codes that refuse c at usage u, of which budget_decision
\* reports the first in this order.
BudgetSpent(u, c) ==
  \/ Exhausted(u.tool_calls, MaxCalls)
  \/ Exhausted(u.calls_by_tool[c.name], MaxCallsPerTool)
  \/ Exhausted(u.calls_by_fingerprint[FingerprintOf(c)], MaxIdenticalCalls)
  \/ CostExceeded(u, c)

BudgetCode(u, c) ==
  IF Exhausted(u.tool_calls, MaxCalls) THEN "max_calls"
  ELSE IF Exhausted(u.calls_by_tool[c.name], MaxCallsPerTool)
       THEN "max_calls_per_tool"
  ELSE IF Exhausted(u.calls_by_fingerprint[FingerprintOf(c)], MaxIdenticalCalls)
       THEN "max_identical_calls"
  ELSE "max_cost_usd"

\* rule_matches: both the tool pattern and every argument pattern.
RuleMatches(i, c) == c.name \in Rules[i].tool /\ c.arguments \in Rules[i].arguments

IsFirstMatch(i, c) ==
  /\ i \in DOMAIN Rules
  /\ RuleMatches(i, c)
  /\ \A j \in DOMAIN Rules : j < i => ~RuleMatches(j, c)

\* The part of Policy.evaluate that does not look at the usage.
RuleDecision(c) ==
  IF \E i \in DOMAIN Rules : IsFirstMatch(i, c)
  THEN [kind |-> Rules[CHOOSE i \in DOMAIN Rules : IsFirstMatch(i, c)].decision,
        code |-> "rule_match"]
  ELSE [kind |-> Default, code |-> "default"]

\* budget_decision asks for the fingerprint only under a limit on identical
\* calls, and not if one of the two limits before it is exhausted.
BudgetAsksFingerprint(u, c) ==
  /\ MaxIdenticalCalls # NoLimit
  /\ ~Exhausted(u.tool_calls, MaxCalls)
  /\ ~Exhausted(u.calls_by_tool[c.name], MaxCallsPerTool)

\* Policy.evaluate, where no fingerprint it asks for raises.
Evaluate(u, c) ==
  IF BudgetSpent(u, c) THEN [kind |-> "block", code |-> BudgetCode(u, c)]
                       ELSE RuleDecision(c)

\* Decision.reserves_usage.
ReservesUsage(d, approved) ==
  \/ d.kind = "allow"
  \/ approved /\ d.kind # "block"

\* Evaluating c at usage u and, if the decision reserves, recording it comes
\* to a fingerprint that raises.
FingerprintRaises(u, c, approved) ==
  /\ c \in Unencodable
  /\ BudgetAsksFingerprint(u, c) \/ ReservesUsage(Evaluate(u, c), approved)

-----------------------------------------------------------------------------
(***************************************************************************)
(* What a set of granted calls should have cost: the reference the         *)
(* counters are compared with.                                             *)
(***************************************************************************)
OfTool(S, t) == {c \in S : c.name = t}

OfFingerprint(S, f) == {c \in S : FingerprintOf(c) = f}

TotalCost(S) == SumFunctionOnSet([c \in Call |-> c.estimated_cost_usd], S)

AtMost(count, limit) == limit = NoLimit \/ count <= limit

\* The calls of S fit in the budget, whatever the counters say.
CountsWithinBudget(S) ==
  /\ AtMost(Cardinality(S), MaxCalls)
  /\ \A t \in Tool : AtMost(Cardinality(OfTool(S, t)), MaxCallsPerTool)
  /\ \A f \in Fingerprint :
       AtMost(Cardinality(OfFingerprint(S, f)), MaxIdenticalCalls)

\* The usage record u counts exactly the calls of S, and those of H in its
\* counters of the run and of the tools alone.
CountsBut(u, S, H) ==
  /\ u.tool_calls = Cardinality(S \union H)
  /\ \A t \in Tool : u.calls_by_tool[t] = Cardinality(OfTool(S \union H, t))
  /\ \A f \in Fingerprint :
       u.calls_by_fingerprint[f] = Cardinality(OfFingerprint(S, f))

\* The usage record u counts exactly the calls of S.
Counts(u, S) == CountsBut(u, S, {})
=============================================================================
