------------------------------ MODULE Exchange ------------------------------
(***************************************************************************)
(* What the proxy promises its client about one message, whatever the      *)
(* wrapped server and the clock do: at most one answer, a result only from *)
(* the server's work on this very message, and a refusal only if the       *)
(* server has not seen the message and never will.                         *)
(***************************************************************************)
EXTENDS Sequences

CONSTANT Message

VARIABLES
  executed,  \* the messages the server has read
  answers    \* what the client was told about each message

exchangeVars == <<executed, answers>>

\* Answers that say that the message had no effect.
Refusal == {"invalid", "duplicate", "policy_error", "not_executed"}

AnswerKind == Refusal \union {"result", "timeout", "unavailable", "audit_failed"}

Refused(m) == answers[m] # <<>> /\ Head(answers[m]).kind \in Refusal

ExchangeInit ==
  /\ executed = {}
  /\ answers = [m \in Message |-> <<>>]

Execute(m) ==
  /\ ~Refused(m)
  /\ executed' = executed \union {m}
  /\ UNCHANGED answers

Answer(m, kind) ==
  /\ answers[m] = <<>>
  /\ kind \in Refusal => m \notin executed
  /\ kind = "result" => m \in executed
  /\ answers' = [answers EXCEPT ![m] = <<[kind |-> kind, of |-> m]>>]
  /\ UNCHANGED executed

ExchangeNext ==
  \E m \in Message : Execute(m) \/ \E kind \in AnswerKind : Answer(m, kind)

ExchangeSpec == ExchangeInit /\ [][ExchangeNext]_exchangeVars
=============================================================================
