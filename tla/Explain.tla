------------------------------ MODULE Explain -------------------------------
(***************************************************************************)
(* explain_call (explain.py): why a call gets its decision at a usage of   *)
(* the run.  It recomputes every check of the budget and every match of a  *)
(* rule beside Policy.evaluate, and shows them together.                   *)
(***************************************************************************)
EXTENDS Ledger

\* A check is shown only for a limit that the policy has.
Check(limit, triggered) == [shown |-> limit # NoLimit, triggered |-> triggered]

\* Mutant: the cost that just fits is shown as exhausted.
CostCheckStrict(u, c) ==
  Check(MaxCost, MaxCost # NoLimit /\ u.estimated_cost_usd + c.estimated_cost_usd >= MaxCost)

CostCheck(u, c) ==
  Check(MaxCost, MaxCost # NoLimit /\ u.estimated_cost_usd + c.estimated_cost_usd > MaxCost)

CountCheck(count, limit) == Check(limit, limit # NoLimit /\ count >= limit)

CheckName == <<"max_calls", "max_calls_per_tool", "max_identical_calls", "max_cost_usd">>

\* _explain_budget, in its order.
Checks(u, c) ==
  <<CountCheck(u.tool_calls, MaxCalls),
    CountCheck(u.calls_by_tool[c.name], MaxCallsPerTool),
    CountCheck(u.calls_by_fingerprint[FingerprintOf(c)], MaxIdenticalCalls),
    CostCheck(u, c)>>

Triggered(u, c) ==
  LET checks == Checks(u, c) IN {i \in DOMAIN CheckName : checks[i].shown /\ checks[i].triggered}

\* _explain_budget asks for the fingerprint under every limit on identical
\* calls, also where budget_decision did not come to it; if that raises,
\* there is no explanation.
Explained(c) == MaxIdenticalCalls = NoLimit \/ c \notin Unencodable

\* decision.rule_index = index: the rules marked as the one that decided.
Selected(u, c) == IF BudgetSpent(u, c) THEN {} ELSE {i \in DOMAIN Rules : IsFirstMatch(i, c)}

\* What is shown for each rule: whether its tool and its arguments match.
ToolMatched(i, c) == c.name \in Rules[i].tool

ArgumentsMatched(i, c) == c.arguments \in Rules[i].arguments

Matched(i, c) == ToolMatched(i, c) /\ ArgumentsMatched(i, c)

-----------------------------------------------------------------------------
\* At every usage the run reaches, an explanation leads to the decision that
\* the gate would take: the checks shown as triggered are none unless the
\* budget blocks, and the first of them names the code; otherwise the rule
\* marked is the first of those shown as matched and has the decision, or no
\* rule is marked or matched and the default has.
ExplanationAgrees ==
  \A c \in Call : Explained(c) =>
    LET decision == Evaluate(usage, c)
        triggered == Triggered(usage, c)
        selected == Selected(usage, c)
    IN
    /\ \A i \in triggered :
         (\A j \in triggered : i <= j) =>
           decision = [kind |-> "block", code |-> CheckName[i]]
    /\ \A i \in selected :
         /\ decision = [kind |-> Rules[i].decision, code |-> "rule_match"]
         /\ Matched(i, c) /\ \A j \in 1..(i - 1) : ~Matched(j, c)
    /\ triggered = {} /\ selected = {} =>
         /\ decision = [kind |-> Default, code |-> "default"]
         /\ \A i \in DOMAIN Rules : ~Matched(i, c)
=============================================================================
