----------------------------- MODULE MCFirewall -----------------------------
(***************************************************************************)
(* Two processes on one database.  The first has two held reads and an     *)
(* allowed one, the second an allowed send.  Arguments "deep" differ from  *)
(* "a" only below the depth bound, so the two held reads are identical to  *)
(* the budget.  Every field of the budget refuses some order of the calls, *)
(* and is the first to refuse in some.                                     *)
(*                                                                         *)
(* The run in memory has one process with two firewalls, one of them       *)
(* without an approver, no limit on identical calls, and of the calls two, *)
(* an allowed and a held one, with an argument that has no UTF-8 form.     *)
(***************************************************************************)
EXTENDS Firewall, Explain

CONSTANTS p1, p2

MCCall ==
  {[id |-> 1, name |-> "read", arguments |-> "b", estimated_cost_usd |-> 0],
   [id |-> 2, name |-> "read", arguments |-> "a", estimated_cost_usd |-> 0],
   [id |-> 3, name |-> "read", arguments |-> "deep", estimated_cost_usd |-> 1],
   [id |-> 4, name |-> "send", arguments |-> "a", estimated_cost_usd |-> 1]}

MCHome == [c \in MCCall |-> IF c.id = 4 THEN p2 ELSE p1]

MCMemoryCalls ==
  {[id |-> 1, name |-> "read", arguments |-> "a", estimated_cost_usd |-> 1],
   [id |-> 2, name |-> "read", arguments |-> "deep", estimated_cost_usd |-> 0],
   [id |-> 3, name |-> "send", arguments |-> "surrogate", estimated_cost_usd |-> 1],
   [id |-> 4, name |-> "read", arguments |-> "surrogate", estimated_cost_usd |-> 1]}

MCSurrogates == {c \in MCMemoryCalls : c.arguments = "surrogate"}

MCOneHome == [c \in MCMemoryCalls |-> p1]

MCApprover == {c \in MCMemoryCalls : c.id # 2}

MCBounded == [a \in {"a", "b", "deep", "surrogate"} |-> IF a = "deep" THEN "a" ELSE a]

MCRules ==
  <<[tool |-> {"read"}, arguments |-> {"a", "deep", "surrogate"}, decision |-> "require_approval"],
    [tool |-> {"read", "send"}, arguments |-> {"a", "b", "surrogate"}, decision |-> "allow"]>>
=============================================================================
