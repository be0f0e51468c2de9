----------------------------- MODULE MCAuditLog -----------------------------
(***************************************************************************)
(* Threads of one process, or of two that share the audit path.            *)
(***************************************************************************)
EXTENDS AuditLog

CONSTANTS w1, w2, w3, p1, p2

OneProcess == [w \in {w1, w2, w3} |-> p1]

TwoProcesses == [w \in {w1, w2} |-> IF w = w1 THEN p1 ELSE p2]
=============================================================================
