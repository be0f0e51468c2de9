----------------------------- MODULE MCDashboard -----------------------------
(***************************************************************************)
(* Two held calls and two requests of operators, which decide (and agree,  *)
(* contradict or repeat each other) or read the summary, before, at and    *)
(* after the deadlines.                                                    *)
(***************************************************************************)
EXTENDS Dashboard
=============================================================================
