----------------------------- MODULE StateStore -----------------------------
(***************************************************************************)
(* SQLiteStateStore: the counters in three tables of a database that       *)
(* several threads and processes share.  evaluate_and_reserve is a         *)
(* sequence of statements inside BEGIN IMMEDIATE ... COMMIT; usage() reads *)
(* the three tables in three statements outside any transaction.  Every    *)
(* statement is a step, so that other callers, a failure or the death of   *)
(* the process can come between any two.                                   *)
(*                                                                         *)
(* What SQLite guarantees is modelled from how state.py uses it: one       *)
(* holder of the write lock at a time, a transaction seen by its own       *)
(* connection and by the others only after COMMIT, and rolled back when    *)
(* its connection closes or dies before.                                   *)
(***************************************************************************)
EXTENDS Policy

CONSTANTS
  Reader,   \* threads that call usage()
  Nobody    \* the write lock is free

ASSUME NobodyAssumption == Nobody \notin Call

VARIABLES
  db,        \* the committed tables
  tx,        \* the tables as the open write transaction sees them
  lock,      \* the call whose connection holds the write lock, or Nobody
  pc,        \* where each call is in evaluate_and_reserve
  approved,  \* the parameter of each call's current invocation
  loaded,    \* the local usage object of each open transaction
  decision,  \* the decision taken in the open transaction
  answer,    \* what the store last told each call
  granted,   \* history: the calls counted by a committed transaction
  rpc,       \* where each reader is in usage()
  snapshot,  \* what each reader has collected
  since      \* history: the committed tables when the reader began

callVars == <<pc, approved, loaded, decision, answer>>
readerVars == <<rpc, snapshot, since>>
storeVars == <<db, tx, lock, granted>>
vars == <<storeVars, callVars, readerVars>>

\* SQLite takes back what a failed transaction counted.
L == INSTANCE Ledger WITH usage <- db, Store <- "sqlite", halfCounted <- {}

Statement == {"load", "run_usage", "tool_usage", "fingerprint_usage", "commit"}

CallPc == {"idle", "connect", "begin", "dead"} \union Statement

ReaderPc == {"idle", "run_usage", "tool_usage", "fingerprint_usage", "failed"}

TypeOk ==
  /\ db \in Usage
  /\ tx \in Usage
  /\ lock \in Call \union {Nobody}
  /\ pc \in [Call -> CallPc]
  /\ approved \in [Call -> BOOLEAN]
  /\ loaded \in [Call -> Usage]
  /\ decision \in [Call -> Decision \union {L!NoDecision}]
  /\ answer \in [Call -> L!Answer]
  /\ granted \in SUBSET Call
  /\ rpc \in [Reader -> ReaderPc]
  /\ snapshot \in [Reader -> Usage]
  /\ since \in [Reader -> Usage]

Init ==
  /\ db = EmptyUsage
  /\ tx = EmptyUsage
  /\ lock = Nobody
  /\ pc = [c \in Call |-> "idle"]
  /\ approved = [c \in Call |-> FALSE]
  /\ loaded = [c \in Call |-> EmptyUsage]
  /\ decision = [c \in Call |-> L!NoDecision]
  /\ answer = [c \in Call |-> L!NoAnswer]
  /\ granted = {}
  /\ rpc = [r \in Reader |-> "idle"]
  /\ snapshot = [r \in Reader |-> EmptyUsage]
  /\ since = [r \in Reader |-> EmptyUsage]

-----------------------------------------------------------------------------
(***************************************************************************)
(* evaluate_and_reserve                                                    *)
(***************************************************************************)
Goto(c, from, to) == pc[c] = from /\ pc' = [pc EXCEPT ![c] = to]

Ask(c, a) ==
  /\ L!MayAsk(c, a)
  /\ Goto(c, "idle", "connect")
  /\ approved' = [approved EXCEPT ![c] = a]
  /\ UNCHANGED <<storeVars, loaded, decision, answer, readerVars>>

Connect(c) ==
  /\ Goto(c, "connect", "begin")
  /\ UNCHANGED <<storeVars, approved, loaded, decision, answer, readerVars>>

\* connection = self._connect() stands before the try: its exception reaches
\* the caller as it is.
ConnectFails(c) ==
  /\ Goto(c, "connect", "idle")
  /\ answer' = [answer EXCEPT ![c] = L!Failed(approved[c], "sqlite3.Error")]
  /\ UNCHANGED <<storeVars, approved, loaded, decision, readerVars>>

\* Mutant: BEGIN DEFERRED, the lock is not taken before the tables are read.
BeginDeferred(c) ==
  /\ Goto(c, "begin", "load")
  /\ lock' = c
  /\ tx' = db
  /\ UNCHANGED <<db, granted, approved, loaded, decision, answer, readerVars>>

\* BEGIN IMMEDIATE: take the write lock, or wait for it.
Begin(c) ==
  /\ lock = Nobody
  /\ Goto(c, "begin", "load")
  /\ lock' = c
  /\ tx' = db
  /\ UNCHANGED <<db, granted, approved, loaded, decision, answer, readerVars>>

\* busy_timeout passed with the lock in other hands.
BusyTimeout(c) ==
  /\ lock # Nobody
  /\ Goto(c, "begin", "idle")
  /\ answer' = [answer EXCEPT ![c] = L!Failed(approved[c], "StorageError")]
  /\ UNCHANGED <<storeVars, approved, loaded, decision, readerVars>>

\* _load_usage, policy.evaluate and usage.record: the tables stay as they are
\* while this connection holds the lock.
Load(c) ==
  LET d == Evaluate(tx, c) IN
  /\ ~FingerprintRaises(tx, c, approved[c])
  /\ Goto(c, "load", IF ReservesUsage(d, approved[c]) THEN "run_usage" ELSE "commit")
  /\ loaded' = [loaded EXCEPT ![c] = tx]
  /\ decision' = [decision EXCEPT ![c] = d]
  /\ UNCHANGED <<storeVars, approved, answer, readerVars>>

\* _record: the run's row is set to the values computed from the loaded
\* usage, the other two rows are incremented in place.
RecordRun(c) ==
  /\ Goto(c, "run_usage", "tool_usage")
  /\ LET u == Record(loaded[c], c) IN
     tx' = [tx EXCEPT !.tool_calls = u.tool_calls,
                      !.estimated_cost_usd = u.estimated_cost_usd]
  /\ UNCHANGED <<db, lock, granted, approved, loaded, decision, answer, readerVars>>

RecordTool(c) ==
  /\ Goto(c, "tool_usage", "fingerprint_usage")
  /\ tx' = [tx EXCEPT !.calls_by_tool[c.name] = @ + 1]
  /\ UNCHANGED <<db, lock, granted, approved, loaded, decision, answer, readerVars>>

RecordFingerprint(c) ==
  /\ Goto(c, "fingerprint_usage", "commit")
  /\ tx' = [tx EXCEPT !.calls_by_fingerprint[FingerprintOf(c)] = @ + 1]
  /\ UNCHANGED <<db, lock, granted, approved, loaded, decision, answer, readerVars>>

Commit(c) ==
  /\ Goto(c, "commit", "idle")
  /\ db' = tx
  /\ lock' = Nobody
  /\ granted' = IF ReservesUsage(decision[c], approved[c])
                THEN granted \union {c} ELSE granted
  /\ answer' = [answer EXCEPT ![c] = L!Decided(approved[c], decision[c])]
  /\ loaded' = [loaded EXCEPT ![c] = EmptyUsage]
  /\ decision' = [decision EXCEPT ![c] = L!NoDecision]
  /\ UNCHANGED <<tx, approved, readerVars>>

\* Mutant: the connection stays open, and the lock with it.
RollbackForgotten(c) ==
  /\ pc[c] \in Statement
  /\ Goto(c, pc[c], "idle")
  /\ answer' = [answer EXCEPT ![c] = L!Failed(approved[c], "StorageError")]
  /\ loaded' = [loaded EXCEPT ![c] = EmptyUsage]
  /\ decision' = [decision EXCEPT ![c] = L!NoDecision]
  /\ UNCHANGED <<db, tx, lock, granted, approved, readerVars>>

\* Any statement of the transaction fails (I/O error, full disk, damaged row,
\* COMMIT blocked by readers): rollback and StorageError.
Rollback(c) ==
  /\ pc[c] \in Statement
  /\ Goto(c, pc[c], "idle")
  /\ lock' = Nobody
  /\ answer' = [answer EXCEPT ![c] = L!Failed(approved[c], "StorageError")]
  /\ loaded' = [loaded EXCEPT ![c] = EmptyUsage]
  /\ decision' = [decision EXCEPT ![c] = L!NoDecision]
  /\ UNCHANGED <<db, tx, granted, approved, readerVars>>

\* policy.evaluate, or usage.record before the first statement of _record,
\* comes to a fingerprint that raises: rollback, and the exception goes on.
FingerprintFails(c) ==
  /\ FingerprintRaises(tx, c, approved[c])
  /\ Goto(c, "load", "idle")
  /\ lock' = Nobody
  /\ answer' = [answer EXCEPT ![c] = L!Failed(approved[c], "UnicodeEncodeError")]
  /\ UNCHANGED <<db, tx, granted, approved, loaded, decision, readerVars>>

\* The process dies; SQLite drops its lock and its uncommitted changes.
Crash(c) ==
  /\ pc[c] \notin {"idle", "dead"}
  /\ Goto(c, pc[c], "dead")
  /\ lock' = IF lock = c THEN Nobody ELSE lock
  /\ loaded' = [loaded EXCEPT ![c] = EmptyUsage]
  /\ decision' = [decision EXCEPT ![c] = L!NoDecision]
  /\ UNCHANGED <<db, tx, granted, approved, answer, readerVars>>

-----------------------------------------------------------------------------
(***************************************************************************)
(* usage(): three SELECTs, each its own read transaction.                  *)
(***************************************************************************)
ReadBegins(r) ==
  /\ rpc[r] = "idle"
  /\ rpc' = [rpc EXCEPT ![r] = "run_usage"]
  /\ since' = [since EXCEPT ![r] = db]
  /\ UNCHANGED <<storeVars, callVars, snapshot>>

ReadRun(r) ==
  /\ rpc[r] = "run_usage"
  /\ rpc' = [rpc EXCEPT ![r] = "tool_usage"]
  /\ snapshot' = [snapshot EXCEPT ![r].tool_calls = db.tool_calls,
                                  ![r].estimated_cost_usd = db.estimated_cost_usd]
  /\ UNCHANGED <<storeVars, callVars, since>>

ReadTools(r) ==
  /\ rpc[r] = "tool_usage"
  /\ rpc' = [rpc EXCEPT ![r] = "fingerprint_usage"]
  /\ snapshot' = [snapshot EXCEPT ![r].calls_by_tool = db.calls_by_tool]
  /\ UNCHANGED <<storeVars, callVars, since>>

\* Mutant: the fingerprints of the previous read are returned.
ReadFingerprintsStale(r) ==
  /\ rpc[r] = "fingerprint_usage"
  /\ rpc' = [rpc EXCEPT ![r] = "idle"]
  /\ UNCHANGED <<storeVars, callVars, snapshot, since>>

ReadFingerprints(r) ==
  /\ rpc[r] = "fingerprint_usage"
  /\ rpc' = [rpc EXCEPT ![r] = "idle"]
  /\ snapshot' = [snapshot EXCEPT ![r].calls_by_fingerprint = db.calls_by_fingerprint]
  /\ UNCHANGED <<storeVars, callVars, since>>

\* sqlite3.Error or a damaged row: StorageError to the caller.
ReadFails(r) ==
  /\ rpc[r] \notin {"idle", "failed"}
  /\ rpc' = [rpc EXCEPT ![r] = "failed"]
  /\ UNCHANGED <<storeVars, callVars, snapshot, since>>

-----------------------------------------------------------------------------
Progress(c) ==
  \/ Connect(c) \/ ConnectFails(c) \/ Begin(c) \/ BusyTimeout(c) \/ Load(c)
  \/ RecordRun(c) \/ RecordTool(c) \/ RecordFingerprint(c)
  \/ Commit(c) \/ Rollback(c) \/ FingerprintFails(c)

Read(r) ==
  \/ ReadBegins(r) \/ ReadRun(r) \/ ReadTools(r) \/ ReadFingerprints(r)
  \/ ReadFails(r)

Next ==
  \/ \E c \in Call : Progress(c) \/ Crash(c) \/ \E a \in BOOLEAN : Ask(c, a)
  \/ \E r \in Reader : Read(r)

Spec == Init /\ [][Next]_vars

\* The scheduler runs every thread that can run; a call blocked in BEGIN
\* IMMEDIATE goes on when the lock is free or its busy timeout passes.
FairSpec == Spec /\ \A c \in Call : WF_vars(Progress(c))

-----------------------------------------------------------------------------
\* The database implements the ledger: however the statements of several
\* callers interleave, fail or are cut off by a crash, the committed tables
\* change as if evaluate_and_reserve were one step, taken at COMMIT, and a
\* call that failed or died was never counted.
ImplementsLedger == L!LedgerSpec

\* After any crash, rollback or interleaving the three tables agree on the
\* calls that were granted, and the grants are within the budget.
CommittedWithinBudget ==
  /\ Counts(db, granted)
  /\ CountsWithinBudget(granted)
  /\ AtMost(db.estimated_cost_usd, MaxCost)

\* The rows of a counter table: the keys that have been counted.
Rows(f) == {k \in DOMAIN f : f[k] > 0}

Sum(f) == SumFunctionOnSet(f, Rows(f))

\* What usage() returns is not one state of the tables, but it is never
\* further off than this: the totals lie between those when the read
\* began and now, and a total read earlier is not above one read later.
SnapshotOrdered ==
  \A r \in Reader : rpc[r] = "idle" =>
    LET s == snapshot[r] IN
    /\ since[r].tool_calls <= s.tool_calls
    /\ s.tool_calls <= Sum(s.calls_by_tool)
    /\ Sum(s.calls_by_tool) <= Sum(s.calls_by_fingerprint)
    /\ Sum(s.calls_by_fingerprint) <= db.tool_calls
    /\ since[r].estimated_cost_usd <= s.estimated_cost_usd
    /\ s.estimated_cost_usd <= db.estimated_cost_usd

\* Every invocation ends, with an answer or with its process, and leaves the
\* write lock to the others: no failure path keeps the transaction open.
EveryAskEnds ==
  \A c \in Call :
    pc[c] = "connect" ~> pc[c] \in {"idle", "dead"} /\ lock # c
=============================================================================
