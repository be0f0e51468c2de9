--------------------------- MODULE ApprovalVerdict ---------------------------
(***************************************************************************)
(* What the approval queue promises the gate and its operators: each call  *)
(* that is posted gets at most one verdict, which never changes, and the   *)
(* waiting call is told that verdict or an error, never another one.       *)
(***************************************************************************)
CONSTANT Call

VARIABLES
  row,     \* the durable record of each call
  answer   \* what the waiting call was told

verdictVars == <<row, answer>>

Verdict == {"approved", "denied"}

VerdictInit ==
  /\ row = [c \in Call |-> "absent"]
  /\ answer = [c \in Call |-> "none"]

Post(c) ==
  /\ row[c] = "absent"
  /\ row' = [row EXCEPT ![c] = "pending"]
  /\ UNCHANGED answer

Settle(c, verdict) ==
  /\ row[c] = "pending"
  /\ row' = [row EXCEPT ![c] = verdict]
  /\ UNCHANGED answer

Tell(c) ==
  /\ answer[c] = "none"
  /\ row[c] \in Verdict
  /\ answer' = [answer EXCEPT ![c] = row[c]]
  /\ UNCHANGED row

VerdictNext ==
  \E c \in Call : Post(c) \/ Tell(c) \/ \E verdict \in Verdict : Settle(c, verdict)

VerdictSpec == VerdictInit /\ [][VerdictNext]_verdictVars
=============================================================================
