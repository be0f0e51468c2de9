------------------------------ MODULE Firewall ------------------------------
(***************************************************************************)
(* The enforcement gate (firewall.py): the life of a tool call from its    *)
(* arrival to its outcome, for any number of calls in any number of        *)
(* processes that share one state store.  Each process writes its own      *)
(* audit log.                                                              *)
(*                                                                         *)
(* The store is the Ledger, which both state stores implement; an audit    *)
(* log is the AuditTrail, which JsonlAuditLog implements for one process.  *)
(* Each of their operations is one step here, and other calls, failures    *)
(* and the death of the process can come between any two.                  *)
(***************************************************************************)
EXTENDS Ledger

CONSTANTS
  Process,      \* processes that embed the firewall
  Home,         \* the process of each call
  HasApprover   \* the calls whose firewall has an approver

ASSUME ProcessAssumption ==
  /\ Home \in [Call -> Process]
  /\ HasApprover \in SUBSET Call
  /\ Store = "memory" => \A c, d \in Call : Home[c] = Home[d]

VARIABLES
  pc,       \* where each call is, and in the end how it ended
  trail,    \* what the audit log says of each call
  torn,     \* the logs that end in an incomplete record
  verdict,  \* history: what the approver answered for each call
  started,  \* history: the calls whose operation was started
  result    \* history: how each operation ended

gateVars == <<verdict, started, result>>
vars == <<ledgerVars, pc, trail, torn, gateVars>>

Event == {"blocked", "allowed", "approval_requested", "approval_denied",
          "approval_granted", "executed", "failed"}

\* record_*: the audit record that is written next.
Step == {"authorize", "record_decision", "approve", "record_denial", "reserve",
         "record_grant", "run", "running", "record_terminal"}

\* What the caller of the firewall sees in the end; "AuditWriteError+" has
\* after_execution set, "approver" is an exception of the approver's.
Outcome == {"returned", "raised", "ToolCallBlocked", "ApprovalRequired",
            "StorageError", "sqlite3.Error", "UnicodeEncodeError",
            "AuditWriteError", "AuditWriteError+", "approver", "cancelled",
            "dead"}

Audit == INSTANCE AuditTrail WITH Author <- Call, Log <- Process, LogOf <- Home

TypeOk ==
  /\ LedgerTypeOk
  /\ pc \in [Call -> Step \union Outcome]
  /\ trail \in [Call -> Seq(Event)]
  /\ torn \in [Process -> BOOLEAN]
  /\ verdict \in [Call -> {"none", "approved", "denied"}]
  /\ started \in SUBSET Call
  /\ result \in [Call -> {"none", "returned", "raised"}]

Init ==
  /\ LedgerInit
  /\ Audit!TrailInit
  /\ pc = [c \in Call |-> "authorize"]
  /\ verdict = [c \in Call |-> "none"]
  /\ started = {}
  /\ result = [c \in Call |-> "none"]

-----------------------------------------------------------------------------
Goto(c, from, to) == pc[c] = from /\ pc' = [pc EXCEPT ![c] = to]

Kind(c) == answer[c].decision.kind

\* Mutant: the audit log is best effort, the call goes on without it.
RecordBestEffort(c, from, event, next, failed) ==
  /\ Audit!Write(c, event) \/ Audit!Refuse(c) \/ Audit!Tear(c)
  /\ Goto(c, from, next)
  /\ UNCHANGED <<ledgerVars, gateVars>>

\* _audit: the record is written and the call goes on, or it is not and
\* AuditWriteError ends the call; under audit_arguments: hash, so does a
\* fingerprint that raises, before the log is opened.
RecordThen(c, from, event, next, failed) ==
  /\ \/ Audit!Write(c, event) /\ Goto(c, from, next)
     \/ Audit!Refuse(c) /\ Goto(c, from, failed)
     \/ Audit!Tear(c) /\ Goto(c, from, failed)
     \/ /\ c \in Unencodable
        /\ Audit!Refuse(c)
        /\ Goto(c, from, "UnicodeEncodeError")
  /\ UNCHANGED <<ledgerVars, gateVars>>

\* The usage that goes into a record without one cannot be read from the
\* database.
UsageUnreadable(c, from, failed) ==
  /\ Store = "sqlite"
  /\ Goto(c, from, failed)
  /\ UNCHANGED <<ledgerVars, trail, torn, gateVars>>

\* state_store.evaluate_and_reserve: it answers, or its exception ends the call.
Ask(c, approved, from, next) ==
  /\ \/ EvaluateAndReserve(c, approved) /\ Goto(c, from, next)
     \/ Fail(c, approved) /\ Goto(c, from, answer'[c].status)
  /\ UNCHANGED <<trail, torn, gateVars>>

-----------------------------------------------------------------------------
(***************************************************************************)
(* _authorize                                                              *)
(***************************************************************************)
Authorize(c) == Ask(c, FALSE, "authorize", "record_decision")

RecordDecision(c) ==
  \/ /\ Kind(c) = "block"
     /\ RecordThen(c, "record_decision", "blocked", "ToolCallBlocked", "AuditWriteError")
  \/ /\ Kind(c) = "require_approval"
     /\ RecordThen(c, "record_decision", "approval_requested", "approve", "AuditWriteError")
  \/ /\ Kind(c) = "allow"
     /\ RecordThen(c, "record_decision", "allowed", "run", "AuditWriteError")

(***************************************************************************)
(* _approve_sync, _approve_async and _finish_approval                      *)
(***************************************************************************)
\* Mutant: without an approver the call waits for one.
NoApproverWaits(c) ==
  /\ c \notin HasApprover
  /\ pc[c] = "approve"
  /\ UNCHANGED vars

NoApprover(c) ==
  /\ c \notin HasApprover
  /\ Goto(c, "approve", "ApprovalRequired")
  /\ UNCHANGED <<ledgerVars, trail, torn, gateVars>>

ApproverAnswers(c) ==
  /\ c \in HasApprover
  /\ \E v \in {"approved", "denied"} :
       /\ verdict' = [verdict EXCEPT ![c] = v]
       /\ Goto(c, "approve", IF v = "approved" THEN "reserve" ELSE "record_denial")
  /\ UNCHANGED <<ledgerVars, trail, torn, started, result>>

\* Mutant: an approver that fails has not said no.
ApproverFailsOpen(c) ==
  /\ c \in HasApprover
  /\ Goto(c, "approve", "reserve")
  /\ UNCHANGED <<ledgerVars, trail, torn, gateVars>>

\* The approver raises, or cannot be used from a synchronous call.
ApproverRaises(c) ==
  /\ c \in HasApprover
  /\ Goto(c, "approve", "approver")
  /\ UNCHANGED <<ledgerVars, trail, torn, gateVars>>

RecordDenial(c) ==
  \/ RecordThen(c, "record_denial", "approval_denied", "ToolCallBlocked", "AuditWriteError")
  \/ UsageUnreadable(c, "record_denial", "StorageError")

\* Mutant: the decision of before the approval still stands.
ReserveNothing(c) ==
  /\ Goto(c, "reserve", "record_grant")
  /\ UNCHANGED <<ledgerVars, trail, torn, gateVars>>

\* The budget may have been spent while the approver was thinking.
ReserveApproved(c) == Ask(c, TRUE, "reserve", "record_grant")

RecordGrant(c) ==
  \/ /\ Kind(c) = "block"
     /\ RecordThen(c, "record_grant", "blocked", "ToolCallBlocked", "AuditWriteError")
  \/ /\ Kind(c) # "block"
     /\ RecordThen(c, "record_grant", "approval_granted", "run", "AuditWriteError")

(***************************************************************************)
(* _execute_sync and _execute_async                                        *)
(***************************************************************************)
StartOperation(c) ==
  /\ Goto(c, "run", "running")
  /\ started' = started \union {c}
  /\ UNCHANGED <<ledgerVars, trail, torn, verdict, result>>

FinishOperation(c) ==
  /\ Goto(c, "running", "record_terminal")
  /\ \E r \in {"returned", "raised"} : result' = [result EXCEPT ![c] = r]
  /\ UNCHANGED <<ledgerVars, trail, torn, verdict, started>>

\* Mutant: after_execution is not set.
RecordTerminalUnmarked(c) ==
  \/ RecordThen(c, "record_terminal", IF result[c] = "returned" THEN "executed" ELSE "failed",
                result[c], "AuditWriteError")
  \/ UsageUnreadable(c, "record_terminal", "AuditWriteError")

\* Mutant: a finally clause that records every call as executed.
RecordTerminalExecuted(c) ==
  \/ RecordThen(c, "record_terminal", "executed", result[c], "AuditWriteError+")
  \/ UsageUnreadable(c, "record_terminal", "AuditWriteError+")

\* _audit_terminal
RecordTerminal(c) ==
  \/ RecordThen(c, "record_terminal", IF result[c] = "returned" THEN "executed" ELSE "failed",
                result[c], "AuditWriteError+")
  \/ UsageUnreadable(c, "record_terminal", "AuditWriteError+")

-----------------------------------------------------------------------------
\* Cancellation is not an Exception: it passes every handler of the gate.
Cancel(c) ==
  /\ pc[c] \in {"approve", "running"}
  /\ Goto(c, pc[c], "cancelled")
  /\ UNCHANGED <<ledgerVars, trail, torn, gateVars>>

\* The process of p dies with the calls that are in it.  A call that was
\* writing a record leaves none of it, a part, or all of it.  A database
\* outlives the process and serves the calls that come after; a store in
\* memory dies with it, and what comes after is another run.
Crash(p) ==
  LET inside == {c \in Call :
                   /\ Home[c] = p
                   /\ pc[c] \in IF Store = "memory" THEN Step ELSE Step \ {"authorize"}} IN
  /\ inside # {}
  /\ pc' = [c \in Call |-> IF c \in inside THEN "dead" ELSE pc[c]]
  /\ \/ UNCHANGED <<trail, torn>>
     \/ \E c \in inside : /\ pc[c] \in {"record_decision", "record_denial",
                                       "record_grant", "record_terminal"}
                          /\ Audit!Tear(c)
  /\ UNCHANGED <<ledgerVars, gateVars>>

\* The steps the firewall itself takes, once the approver or the operation
\* has handed control back.
Gate(c) ==
  \/ Authorize(c) \/ RecordDecision(c) \/ NoApprover(c) \/ RecordDenial(c)
  \/ ReserveApproved(c) \/ RecordGrant(c) \/ StartOperation(c) \/ RecordTerminal(c)

Next ==
  \/ \E c \in Call : \/ Gate(c) \/ ApproverAnswers(c) \/ ApproverRaises(c)
                     \/ FinishOperation(c) \/ Cancel(c)
  \/ \E p \in Process : Crash(p)

Spec == Init /\ [][Next]_vars

\* Every thread the gate runs in is scheduled, and approvers answer: the
\* approval queue denies by itself at its deadline.
Fairness ==
  \A c \in Call : /\ WF_vars(Gate(c))
                  /\ WF_vars(ApproverAnswers(c) \/ ApproverRaises(c))

FairSpec == Spec /\ Fairness

-----------------------------------------------------------------------------
Says(c, event) == \E i \in DOMAIN trail[c] : trail[c][i] = event

\* The operations that were started, in all processes and over all crashes,
\* stay within the budget: what a crash or a refused approval consumed is
\* not given back, and nothing runs on a decision that has become stale.
RunsWithinBudget == started \subseteq granted /\ CountsWithinBudget(started)

\* The same for the estimated cost.
RunCostWithinBudget == AtMost(TotalCost(started), MaxCost)

\* No operation starts before the record that lets it run is whole in the log.
NoUnrecordedRun ==
  \A c \in started : Says(c, "allowed") \/ Says(c, "approval_granted")

\* An operation whose rule asks for approval starts only after the approver
\* said yes to this very call; one whose rule blocks never starts.
ApprovalHonoured ==
  \A c \in started :
    /\ RuleDecision(c).kind # "block"
    /\ RuleDecision(c).kind = "require_approval"
         => verdict[c] = "approved" /\ Says(c, "approval_requested")

\* What the caller is told is what happened: an outcome that claims execution
\* comes from a finished operation, one that denies it from a call that never
\* started, and an ordinary outcome is backed by its last record.
OutcomeIsTrue ==
  \A c \in Call :
    /\ pc[c] \in {"returned", "raised"} => result[c] = pc[c]
    /\ pc[c] = "AuditWriteError+" => c \in started /\ result[c] # "none"
    /\ pc[c] \in {"ToolCallBlocked", "ApprovalRequired", "StorageError",
                  "sqlite3.Error", "UnicodeEncodeError", "AuditWriteError", "approver"}
         => c \notin started
    /\ pc[c] = "returned" => Says(c, "executed")
    /\ pc[c] = "raised" => Says(c, "failed")
    /\ pc[c] = "ToolCallBlocked" => Says(c, "blocked") \/ Says(c, "approval_denied")

\* The complete stories an audit log can tell of a call.
Story ==
  {<<"blocked">>,
   <<"allowed", "executed">>,
   <<"allowed", "failed">>,
   <<"approval_requested", "blocked">>,
   <<"approval_requested", "approval_denied">>,
   <<"approval_requested", "approval_granted", "executed">>,
   <<"approval_requested", "approval_granted", "failed">>}

\* What the log says of a call is the beginning of one of these stories, and
\* true: no record runs ahead of what it reports.
EvidenceIsTrue ==
  \A c \in Call :
    /\ \E story \in Story :
         /\ Len(trail[c]) <= Len(story)
         /\ \A i \in DOMAIN trail[c] : trail[c][i] = story[i]
    /\ Says(c, "executed") => result[c] = "returned"
    /\ Says(c, "failed") => result[c] = "raised"
    /\ Says(c, "approval_granted") => verdict[c] = "approved" /\ c \in granted
    /\ Says(c, "approval_denied") => verdict[c] = "denied"
    /\ Says(c, "blocked") => c \notin granted \union started

\* Once a log ends in an incomplete record it is preserved, and no call of
\* its process starts an operation, except those already recorded.
TornFreezes ==
  [][\A c \in Call : torn[Home[c]] =>
       /\ torn'[Home[c]] /\ trail'[c] = trail[c]
       /\ c \in started' \ started
            => Says(c, "allowed") \/ Says(c, "approval_granted")]_vars

\* A call that has entered the gate does not stay there: it ends, or its
\* operation has control.
EveryCallLeavesTheGate ==
  \A c \in Call :
    pc[c] = "record_decision" ~> pc[c] \in Outcome \union {"running"}
=============================================================================
