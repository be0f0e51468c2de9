---------------------------- MODULE ApprovalQueue ----------------------------
(***************************************************************************)
(* SQLiteApprovalQueue (approvals.py) and the operators that decide        *)
(* through the dashboard (dashboard.py).  A held call posts a row, polls   *)
(* it until its deadline, then denies itself; operators approve or deny    *)
(* any row at any time, whether or not anyone still waits for it.  All of  *)
(* them share a database, each statement is a step, and a statement may    *)
(* fail or the waiting process die.                                        *)
(*                                                                         *)
(* Time is what time.monotonic measures here, how long a waiter has left,  *)
(* and stops at its deadline.  A step may take any time.                   *)
(***************************************************************************)
EXTENDS Naturals

CONSTANTS
  Call,      \* held calls, each with its waiter
  Operator,  \* requests to POST /api/approvals/<call>
  Timeout,   \* timeout_seconds of the queue that waits
  Nobody     \* the write lock is free

ASSUME QueueAssumption ==
  /\ Timeout \in Nat \ {0}
  /\ Nobody \notin Call \union Operator
  /\ Call \intersect Operator = {}

VARIABLES
  row,     \* status in the table of each call
  left,    \* time to the waiter's deadline
  pc,      \* where each waiter is in wait()
  answer,  \* what wait() returned
  lock,    \* who holds the write lock in decide(), or Nobody
  dpc,     \* where each decider is in decide()
  job,     \* what it was called with
  told     \* history: the decisions confirmed to an operator

waitVars == <<left, pc, answer>>
decideVars == <<lock, dpc, job, told>>
vars == <<row, waitVars, decideVars>>

Verdict == {"approved", "denied"}

Decider == Call \union Operator

Waiting == {"insert", "readback", "deadline", "loop", "poll", "sleep", "deny", "final"}

DecidePc == {"out", "begin", "select", "update", "reread"}

Job == [call : Call, status : Verdict]

NoJob == [call |-> Nobody, status |-> "none"]

\* self.decide(call.id, "denied")
AutoDenial(c) == [call |-> c, status |-> "denied"]

TypeOk ==
  /\ row \in [Call -> {"absent", "pending"} \union Verdict]
  /\ left \in [Call -> 0..Timeout]
  /\ pc \in [Call -> Waiting \union {"idle", "returned", "raised", "dead"}]
  /\ answer \in [Call -> {"none"} \union Verdict]
  /\ lock \in Decider \union {Nobody}
  /\ dpc \in [Decider -> DecidePc \union {"done", "failed"}]
  /\ job \in [Decider -> Job \union {NoJob}]
  /\ told \in SUBSET Job

Init ==
  /\ row = [c \in Call |-> "absent"]
  /\ left = [c \in Call |-> Timeout]
  /\ pc = [c \in Call |-> "idle"]
  /\ answer = [c \in Call |-> "none"]
  /\ lock = Nobody
  /\ dpc = [d \in Decider |-> "out"]
  /\ job = [d \in Decider |-> NoJob]
  /\ told = {}

-----------------------------------------------------------------------------
(***************************************************************************)
(* wait                                                                    *)
(***************************************************************************)
Goto(c, from, to) == pc[c] = from /\ pc' = [pc EXCEPT ![c] = to]

\* request() takes requested_at before it has the database.
Stamp(c) ==
  /\ Goto(c, "idle", "insert")
  /\ UNCHANGED <<row, left, answer, decideVars>>

\* INSERT OR IGNORE, committed.
Insert(c) ==
  /\ lock = Nobody
  /\ Goto(c, "insert", "readback")
  /\ row' = [row EXCEPT ![c] = IF @ = "absent" THEN "pending" ELSE @]
  /\ UNCHANGED <<left, answer, decideVars>>

ReadBack(c) ==
  /\ Goto(c, "readback", "deadline")
  /\ UNCHANGED <<row, left, answer, decideVars>>

SetDeadline(c) ==
  /\ Goto(c, "deadline", "loop")
  /\ left' = [left EXCEPT ![c] = Timeout]
  /\ UNCHANGED <<row, answer, decideVars>>

\* Mutant: the last interval is not waited for.
CheckDeadlineEarly(c) ==
  /\ Goto(c, "loop", IF left[c] > 1 THEN "poll" ELSE "deny")
  /\ UNCHANGED <<row, left, answer, decideVars>>

CheckDeadline(c) ==
  /\ Goto(c, "loop", IF left[c] > 0 THEN "poll" ELSE "deny")
  /\ UNCHANGED <<row, left, answer, decideVars>>

Return(c) ==
  /\ pc' = [pc EXCEPT ![c] = "returned"]
  /\ answer' = [answer EXCEPT ![c] = IF row[c] = "approved" THEN "approved" ELSE "denied"]

Poll(c) ==
  /\ pc[c] = "poll"
  /\ \/ row[c] # "pending" /\ Return(c)
     \/ row[c] = "pending" /\ Goto(c, "poll", "sleep") /\ UNCHANGED answer
  /\ UNCHANGED <<row, left, decideVars>>

\* Mutant: every poll starts a new deadline.
SleepRestarts(c) ==
  /\ Goto(c, "sleep", "deadline")
  /\ UNCHANGED <<row, left, answer, decideVars>>

Sleep(c) ==
  /\ Goto(c, "sleep", "loop")
  /\ UNCHANGED <<row, left, answer, decideVars>>

\* Mutant: past the deadline the answer is no, without a last look.
FinalNo(c) ==
  /\ pc[c] = "final"
  /\ pc' = [pc EXCEPT ![c] = "returned"]
  /\ answer' = [answer EXCEPT ![c] = "denied"]
  /\ UNCHANGED <<row, left, decideVars>>

\* The last look, after the denial or its ApprovalConflict.
FinalGet(c) ==
  /\ pc[c] = "final"
  /\ Return(c)
  /\ UNCHANGED <<row, left, decideVars>>

\* Mutant: a failure is reported as a denial.
WaitFailsDenied(c) ==
  /\ pc[c] \in {"insert", "readback", "poll", "final"}
  /\ pc' = [pc EXCEPT ![c] = "returned"]
  /\ answer' = [answer EXCEPT ![c] = "denied"]
  /\ UNCHANGED <<row, left, decideVars>>

\* A statement of request() or get() fails.
WaitFails(c) ==
  /\ pc[c] \in {"insert", "readback", "poll", "final"}
  /\ Goto(c, pc[c], "raised")
  /\ UNCHANGED <<row, left, answer, decideVars>>

-----------------------------------------------------------------------------
(***************************************************************************)
(* decide, called by a waiter past its deadline and by operators           *)
(***************************************************************************)
\* decide() ends for d: a waiter goes on, except when an exception other
\* than ApprovalConflict reaches it.
DecideEnds(d, how) ==
  /\ dpc' = [dpc EXCEPT ![d] = how]
  /\ pc' = IF d \in Call
           THEN [pc EXCEPT ![d] = IF how = "done" THEN "final" ELSE "raised"]
           ELSE pc

DecideCalled(d, j) ==
  /\ dpc[d] = "out"
  /\ dpc' = [dpc EXCEPT ![d] = "begin"]
  /\ job' = [job EXCEPT ![d] = j]
  /\ UNCHANGED <<row, waitVars, lock, told>>

AutoDeny(c) == pc[c] = "deny" /\ DecideCalled(c, AutoDenial(c))

OperatorPosts(o) == \E j \in Job : DecideCalled(o, j)

\* BEGIN IMMEDIATE: take the write lock, or give up after busy_timeout.
Begin(d) ==
  /\ dpc[d] = "begin"
  /\ lock = Nobody
  /\ lock' = d
  /\ dpc' = [dpc EXCEPT ![d] = "select"]
  /\ UNCHANGED <<row, waitVars, job, told>>

BeginFails(d) ==
  /\ dpc[d] = "begin"
  /\ DecideEnds(d, "failed")
  /\ UNCHANGED <<row, left, answer, lock, job, told>>

\* Not found and conflict roll back; a repeated decision commits nothing.
Select(d) ==
  LET status == row[job[d].call] IN
  /\ dpc[d] = "select"
  /\ \/ /\ status = "pending"
        /\ dpc' = [dpc EXCEPT ![d] = "update"]
        /\ UNCHANGED <<pc, lock>>
     \/ /\ status = job[d].status
        /\ dpc' = [dpc EXCEPT ![d] = "reread"]
        /\ lock' = Nobody
        /\ UNCHANGED pc
     \/ /\ status \in Verdict \ {job[d].status}
        /\ DecideEnds(d, "done")
        /\ lock' = Nobody
     \/ /\ status = "absent"
        /\ DecideEnds(d, "failed")
        /\ lock' = Nobody
  /\ UNCHANGED <<row, left, answer, job, told>>

\* UPDATE ... WHERE status = 'pending' and COMMIT.
Update(d) ==
  /\ dpc[d] = "update"
  /\ row' = [row EXCEPT ![job[d].call] = IF @ = "pending" THEN job[d].status ELSE @]
  /\ lock' = Nobody
  /\ dpc' = [dpc EXCEPT ![d] = "reread"]
  /\ UNCHANGED <<waitVars, job, told>>

\* A statement of the transaction fails: rollback.
DecideFails(d) ==
  /\ dpc[d] \in {"select", "update"}
  /\ lock' = Nobody
  /\ DecideEnds(d, "failed")
  /\ UNCHANGED <<row, left, answer, job, told>>

\* return self.get(call_id), after the commit; the dashboard answers 200 with
\* the record it gets.
Reread(d) ==
  /\ dpc[d] = "reread"
  /\ DecideEnds(d, "done")
  /\ told' = IF d \in Operator
             THEN told \union {[call |-> job[d].call, status |-> row[job[d].call]]}
             ELSE told
  /\ UNCHANGED <<row, left, answer, lock, job>>

RereadFails(d) ==
  /\ dpc[d] = "reread"
  /\ DecideEnds(d, "failed")
  /\ UNCHANGED <<row, left, answer, lock, job, told>>

-----------------------------------------------------------------------------
\* The process of a waiter dies; SQLite drops its lock.
Crash(c) ==
  /\ pc[c] \in Waiting
  /\ pc' = [pc EXCEPT ![c] = "dead"]
  /\ dpc' = [dpc EXCEPT ![c] = IF @ \in {"out", "done"} THEN @ ELSE "failed"]
  /\ lock' = IF lock = c THEN Nobody ELSE lock
  /\ UNCHANGED <<row, left, answer, job, told>>

Timed(c) == pc[c] \notin {"idle", "insert", "readback", "deadline"}

\* One unit of time passes for every waiter.
Tick ==
  /\ left' = [c \in Call |-> IF Timed(c) /\ left[c] > 0 THEN left[c] - 1 ELSE left[c]]
  /\ UNCHANGED <<row, pc, answer, decideVars>>

Decide(d) ==
  Begin(d) \/ BeginFails(d) \/ Select(d) \/ Update(d) \/ DecideFails(d)
           \/ Reread(d) \/ RereadFails(d)

Wait(c) ==
  \/ Insert(c) \/ ReadBack(c) \/ SetDeadline(c) \/ CheckDeadline(c)
  \/ Poll(c) \/ Sleep(c) \/ FinalGet(c) \/ WaitFails(c) \/ AutoDeny(c)

Next ==
  \/ \E c \in Call : Stamp(c) \/ Wait(c) \/ Crash(c)
  \/ \E o \in Operator : OperatorPosts(o)
  \/ \E d \in Decider : Decide(d)
  \/ Tick

Spec == Init /\ [][Next]_vars

\* Time passes, threads that can run are run; a waiter needs no operator.
FairSpec ==
  /\ Spec
  /\ WF_vars(Tick)
  /\ \A c \in Call : WF_vars(Wait(c) \/ Decide(c))

-----------------------------------------------------------------------------
V == INSTANCE ApprovalVerdict

\* The queue implements the one-shot verdict: no race of operators, of the
\* automatic denial, of failures and crashes changes a verdict or makes a
\* waiter report another one than the table holds.
ImplementsVerdict == V!VerdictSpec

\* What an operator was told (HTTP 200) is what happens: the table says so
\* and so does the wait, even when the deadline passed at the same moment.
\* An approval that nobody confirmed to an operator may still count, a denial
\* that was confirmed cannot be overtaken.
ToldIsHonoured ==
  \A j \in told :
    /\ row[j.call] = j.status
    /\ answer[j.call] \in {"none", j.status}

\* Silence denies: only an operator's approval makes a wait return true, and
\* before its deadline a call is denied only by an operator.
SilenceDenies ==
  \A c \in Call :
    /\ row[c] = "approved" =>
         \E o \in Operator : job[o] = [call |-> c, status |-> "approved"]
    /\ row[c] = "denied" =>
         \/ left[c] = 0
         \/ \E o \in Operator : job[o] = [call |-> c, status |-> "denied"]

\* A wait ends whether or not anyone decides, and with no lock in its hands.
EveryWaitEnds ==
  \A c \in Call :
    pc[c] = "insert" ~> pc[c] \in {"returned", "raised", "dead"} /\ lock # c
=============================================================================
