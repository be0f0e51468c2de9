----------------------------- MODULE MCMcpProxy -----------------------------
(***************************************************************************)
(* A tool call, a request and a malformed message under the same id and a  *)
(* notification share a server that may fail at any moment.  Neither the   *)
(* call, the request nor their responses need be Unicode text.             *)
(***************************************************************************)
EXTENDS McpProxy

CONSTANTS call, again, bad, note, other

MCMessage == {call, again, bad, note}

\* A smaller instance, in which the ids differ.
MCFewMessages == {call, other}

MCCalls == Message \intersect {call}

MCGarbled == Message \intersect {call, again}

MCMalformed == Message \intersect {bad}

MCClientId ==
  [m \in Message |-> IF m = note THEN NoId ELSE IF m = other THEN 2 ELSE 1]
=============================================================================
