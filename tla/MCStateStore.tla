---------------------------- MODULE MCStateStore ----------------------------
(***************************************************************************)
(* Three calls in parallel with a reader: an allowed read and a held send, *)
(* which fill the budget of the run between them, and an allowed read      *)
(* whose argument has no UTF-8 form: blocked by the limit on reads once    *)
(* the other one is counted, and before that raising an exception in the   *)
(* check of identical calls.                                               *)
(***************************************************************************)
EXTENDS StateStore

MCCall ==
  {[id |-> 1, name |-> "read", arguments |-> "a", estimated_cost_usd |-> 1],
   [id |-> 2, name |-> "send", arguments |-> "a", estimated_cost_usd |-> 2],
   [id |-> 3, name |-> "read", arguments |-> "surrogate", estimated_cost_usd |-> 1]}

MCSurrogates == {c \in MCCall : c.arguments = "surrogate"}

MCBounded == [a \in {"a", "surrogate"} |-> a]

MCRules ==
  <<[tool |-> {"read"}, arguments |-> {"a", "surrogate"}, decision |-> "allow"],
    [tool |-> {"send"}, arguments |-> {"a"}, decision |-> "require_approval"]>>
=============================================================================
