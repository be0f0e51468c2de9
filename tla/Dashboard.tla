------------------------------ MODULE Dashboard ------------------------------
(***************************************************************************)
(* The HTTP handlers of the dashboard (dashboard.py) on top of the         *)
(* approval queue.  Each Operator makes one POST that decides a held call; *)
(* a Viewer may ask for the summary first, any number of times, which      *)
(* reads the pending rows twice.                                           *)
(*                                                                         *)
(* A response is ok (200), a conflict (409), refused (another 4xx) or none *)
(* at all, closed.  The age window of pending() and the timeout of the     *)
(* waiting calls are set by different processes, so a row may be inside or *)
(* outside the window at any time.                                         *)
(***************************************************************************)
EXTENDS ApprovalQueue, FiniteSets

CONSTANT Viewer   \* the operators that also ask for the summary

ASSUME ViewerAssumption ==
  /\ Viewer \subseteq Operator
  /\ IsFiniteSet(Call)

VARIABLES
  http,  \* each request: none, open, decided (it changed a row) or the response
  page   \* what each request for the summary has read

dashboardVars == <<http, page>>
allVars == <<vars, dashboardVars>>

\* The rows that were pending at the first read, and those inside the window.
NoPage == [held |-> {}, visible |-> {}]

DashboardInit ==
  /\ Init
  /\ http = [o \in Operator |-> "none"]
  /\ page = [o \in Viewer |-> NoPage]

Responds(o, response) == http' = [http EXCEPT ![o] = response] /\ UNCHANGED page

-----------------------------------------------------------------------------
(***************************************************************************)
(* do_POST                                                                 *)
(***************************************************************************)
\* The host (421), origin (403), path (404), token (403), content type (415)
\* and size (400) are checked before the queue is touched, and so is the
\* decision in the body (400).
Post(o) ==
  /\ http[o] = "none"
  /\ \/ OperatorPosts(o) /\ Responds(o, "open")
     \/ Responds(o, "refused") /\ UNCHANGED vars

\* ApprovalNotFound (404) and ApprovalConflict (409) are answered.
PostSelects(o) ==
  /\ Select(o)
  /\ CASE dpc'[o] = "done" -> Responds(o, "conflict")
       [] dpc'[o] = "failed" -> Responds(o, "refused")
       [] OTHER -> UNCHANGED dashboardVars

PostUpdates(o) ==
  Update(o) /\ Responds(o, IF row' # row THEN "decided" ELSE "open")

\* Mutant: every error of decide() is answered with 400.
PostFailsRefused(o) ==
  (BeginFails(o) \/ DecideFails(o) \/ RereadFails(o)) /\ Responds(o, "refused")

\* An error of SQLite is not caught: the connection is closed.
PostFails(o) ==
  (BeginFails(o) \/ DecideFails(o) \/ RereadFails(o)) /\ Responds(o, "closed")

PostDecides(o) ==
  \/ Begin(o) /\ UNCHANGED dashboardVars
  \/ PostSelects(o) \/ PostUpdates(o) \/ PostFails(o)
  \/ Reread(o) /\ Responds(o, "ok")

-----------------------------------------------------------------------------
(***************************************************************************)
(* summary, for GET /api/summary                                           *)
(***************************************************************************)
Pending == {c \in Call : row[c] = "pending"}

Reading(o) == http[o] = "open" /\ dpc[o] = "out"

\* The rows inside the window are counted.
ReadVisible(o) ==
  /\ http[o] = "none"
  /\ http' = [http EXCEPT ![o] = "open"]
  /\ \E visible \in SUBSET Pending :
       page' = [page EXCEPT ![o] = [held |-> Pending, visible |-> visible]]
  /\ UNCHANGED vars

\* Mutant: both lists have the window.
HiddenInWindow(o) == 0

\* By how many a second list of all pending rows is longer than the first.
Hidden(o) ==
  LET total == Cardinality(Pending)
      visible == Cardinality(page[o].visible) IN
  IF total > visible THEN total - visible ELSE 0

\* The second read, or the failure of one; the page can ask again or decide.
EndSummary(o) ==
  /\ Reading(o)
  /\ http' = [http EXCEPT ![o] = "none"]
  /\ page' = [page EXCEPT ![o] = NoPage]
  /\ UNCHANGED vars

-----------------------------------------------------------------------------
WaitStep(c) == (Wait(c) \/ Decide(c)) /\ UNCHANGED dashboardVars

CallStep(c) == (Stamp(c) \/ Crash(c)) /\ UNCHANGED dashboardVars

TimePasses == Tick /\ UNCHANGED dashboardVars

DashboardNext ==
  \/ \E c \in Call : WaitStep(c) \/ CallStep(c)
  \/ \E o \in Operator : Post(o) \/ PostDecides(o)
  \/ \E o \in Viewer : ReadVisible(o) \/ EndSummary(o)
  \/ TimePasses

\* The fairness of the queue; nobody waits for an operator or for a page.
DashboardSpec ==
  /\ DashboardInit /\ [][DashboardNext]_allVars
  /\ WF_allVars(TimePasses)
  /\ \A c \in Call : WF_allVars(WaitStep(c))

-----------------------------------------------------------------------------
\* What a response says of the row and of the request it answers.
StatusStep ==
  \A o \in Operator : http'[o] # http[o] /\ job'[o] # NoJob =>
    LET verdict == row'[job'[o].call] IN
    /\ http'[o] = "ok" => verdict = job'[o].status
    /\ http'[o] = "conflict" => verdict \in Verdict \ {job'[o].status}
    /\ http'[o] \in {"conflict", "refused"} => http[o] # "decided"

\* The response to a POST tells the operator the truth about the row: 200 that
\* the call has this verdict, 409 that it has the other one, and any refusal
\* that this request changed nothing.  A request that is closed without a
\* response may have decided.
StatusIsTrue == [][StatusStep]_allVars

\* The number of hidden calls that a summary gives counts each held call that
\* the window keeps out of sight, less at most one for every visible call that
\* was decided between the two reads, plus at most one for every call posted
\* between them.  A summary during which nothing is decided leaves out no call
\* that is still waiting.
HiddenIsCounted ==
  \A o \in Viewer : Reading(o) =>
    LET hidden == (page[o].held \ page[o].visible) \intersect Pending
        decided == {c \in page[o].visible : row[c] \in Verdict}
        posted == Pending \ page[o].held IN
    /\ Cardinality(hidden) <= Hidden(o) + Cardinality(decided)
    /\ Hidden(o) <= Cardinality(hidden) + Cardinality(posted)
=============================================================================
