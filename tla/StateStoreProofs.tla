-------------------------- MODULE StateStoreProofs --------------------------
(***************************************************************************)
(* SQLiteStateStore implements the ledger, for every set of calls, every   *)
(* set of readers and every policy, and its committed tables keep within   *)
(* the budget whatever fails or crashes.                                   *)
(***************************************************************************)
EXTENDS StateStore, PolicyProofs

\* What the open transaction has written when its call is at each statement.
RunWritten(c) ==
  [db EXCEPT !.tool_calls = @ + 1,
             !.estimated_cost_usd = @ + c.estimated_cost_usd]

ToolWritten(c) == [RunWritten(c) EXCEPT !.calls_by_tool[c.name] = @ + 1]

WillReserve(c) == ReservesUsage(decision[c], approved[c])

\* The write lock is held by the one call that is inside the transaction.
LockInv ==
  \A c \in Call : lock = c <=> pc[c] \in Statement

\* A call in the middle of an invocation is one that could ask.
AskInv ==
  \A c \in Call : pc[c] \in Statement \union {"connect", "begin"}
                    => L!MayAsk(c, approved[c])

\* The transaction, statement by statement.
TxInv ==
  \A c \in Call :
    /\ pc[c] = "load" => tx = db
    /\ pc[c] \in Statement \ {"load"} =>
         decision[c] = Evaluate(db, c) /\ ~FingerprintRaises(db, c, approved[c])
    /\ pc[c] \in {"run_usage", "tool_usage", "fingerprint_usage"} => WillReserve(c)
    /\ pc[c] = "run_usage" => tx = db /\ loaded[c] = db
    /\ pc[c] = "tool_usage" => tx = RunWritten(c)
    /\ pc[c] = "fingerprint_usage" => tx = ToolWritten(c)
    /\ pc[c] = "commit" => tx = IF WillReserve(c) THEN Record(db, c) ELSE db

\* What the transaction reads and writes, typed.
TablesType == db \in Usage /\ tx \in Usage

CallType ==
  /\ pc \in [Call -> CallPc]
  /\ approved \in [Call -> BOOLEAN]
  /\ loaded \in [Call -> Usage]
  /\ decision \in [Call -> Decision \union {L!NoDecision}]
  /\ answer \in [Call -> L!Answer]

SInv == /\ TypeOk
        /\ LockInv
        /\ AskInv
        /\ TxInv

LEMMA InitSInv == Init => SInv
<1> SUFFICES ASSUME Init
             PROVE  SInv
  OBVIOUS
<1>1. L!NoAnswer \in L!Answer
  BY DEF L!NoAnswer, L!Answer, L!NoDecision
<1>2. TypeOk
  BY <1>1, EmptyUsageType DEF Init, TypeOk, CallPc, ReaderPc
<1>3. LockInv /\ AskInv /\ TxInv
  BY NobodyAssumption DEF Init, LockInv, AskInv, TxInv, Statement
<1> QED
  BY <1>2, <1>3 DEF SInv

-----------------------------------------------------------------------------
(***************************************************************************)
(* One lemma per step: it preserves the invariant.                         *)
(***************************************************************************)

\* A committed Record is the three statements of _record, one after another.
LEMMA RecordStepwise ==
  ASSUME NEW c \in Call, db \in Usage
  PROVE  /\ RunWritten(c) \in Usage
         /\ ToolWritten(c) \in Usage
         /\ [ToolWritten(c) EXCEPT !.calls_by_fingerprint[FingerprintOf(c)] = @ + 1]
              = Record(db, c)
         /\ Record(db, c) \in Usage
<1>1. /\ c.name \in Tool /\ FingerprintOf(c) \in Fingerprint
      /\ c.estimated_cost_usd \in Nat
  BY FingerprintType, CallAssumption
<1>2. RunWritten(c) \in Usage
  <2>1. db.tool_calls + 1 \in Nat
    BY DEF Usage
  <2>2. db.estimated_cost_usd + c.estimated_cost_usd \in Nat
    BY <1>1 DEF Usage
  <2> QED
    BY <2>1, <2>2 DEF RunWritten, Usage
<1>3. ToolWritten(c) \in Usage
  <2> DEFINE r == RunWritten(c)
  <2> HIDE DEF r
  <2>1. r \in Usage
    BY <1>2 DEF r
  <2>2. [r.calls_by_tool EXCEPT ![c.name] = @ + 1] \in [Tool -> Nat]
    BY <1>1, <2>1 DEF Usage
  <2>3. [r EXCEPT !.calls_by_tool[c.name] = @ + 1] \in Usage
    BY <2>1, <2>2 DEF Usage
  <2> QED
    BY <2>3 DEF ToolWritten, r
<1>4. [ToolWritten(c) EXCEPT !.calls_by_fingerprint[FingerprintOf(c)] = @ + 1]
        = Record(db, c)
  BY <1>1 DEF RunWritten, ToolWritten, Record, Usage
<1> QED
  BY <1>2, <1>3, <1>4, RecordType

LEMMA AskKeeps ==
  ASSUME SInv, NEW c \in Call, NEW a \in BOOLEAN, Ask(c, a)
  PROVE  SInv'
<1>1. TypeOk'
  BY DEF SInv, TypeOk, Ask, Goto, storeVars, readerVars, CallPc
<1>2. LockInv'
  BY DEF SInv, TypeOk, LockInv, Ask, Goto, storeVars, Statement
<1>3. AskInv'
  BY DEF SInv, TypeOk, AskInv, Ask, Goto, Statement, L!MayAsk, L!Held
<1>4. TxInv'
  BY DEF SInv, TypeOk, TxInv, Ask, Goto, storeVars, Statement, WillReserve,
         RunWritten, ToolWritten
<1> QED
  BY <1>1, <1>2, <1>3, <1>4 DEF SInv

LEMMA ConnectKeeps ==
  ASSUME SInv, NEW c \in Call, Connect(c)
  PROVE  SInv'
<1>1. TypeOk'
  BY DEF SInv, TypeOk, Connect, Goto, storeVars, readerVars, CallPc
<1>2. LockInv'
  BY DEF SInv, TypeOk, LockInv, Connect, Goto, storeVars, Statement
<1>3. AskInv'
  BY DEF SInv, TypeOk, AskInv, Connect, Goto, Statement, L!MayAsk, L!Held
<1>4. TxInv'
  BY DEF SInv, TypeOk, TxInv, Connect, Goto, storeVars, Statement, WillReserve,
         RunWritten, ToolWritten
<1> QED
  BY <1>1, <1>2, <1>3, <1>4 DEF SInv

\* A call that fails outside the transaction.
LEMMA RefusedKeeps ==
  ASSUME SInv, NEW c \in Call, ConnectFails(c) \/ BusyTimeout(c)
  PROVE  SInv'
<1>1. PICK failure \in L!Failure :
        answer' = [answer EXCEPT ![c] = L!Failed(approved[c], failure)]
  BY DEF ConnectFails, BusyTimeout, L!Failure
<1>2. L!Failed(approved[c], failure) \in L!Answer
  BY DEF SInv, TypeOk, L!Failed, L!Answer, L!NoDecision, L!Failure
<1>3. TypeOk'
  BY <1>1, <1>2
     DEF SInv, TypeOk, ConnectFails, BusyTimeout, Goto, storeVars, readerVars, CallPc
<1>4. LockInv'
  BY DEF SInv, TypeOk, LockInv, ConnectFails, BusyTimeout, Goto, storeVars, Statement
<1>5. AskInv'
  BY <1>1 DEF SInv, TypeOk, AskInv, ConnectFails, BusyTimeout, Goto, Statement,
              L!MayAsk, L!Held
<1>6. TxInv'
  BY DEF SInv, TypeOk, TxInv, ConnectFails, BusyTimeout, Goto, storeVars, Statement,
         WillReserve, RunWritten, ToolWritten
<1> QED
  BY <1>3, <1>4, <1>5, <1>6 DEF SInv

LEMMA BeginKeeps ==
  ASSUME SInv, NEW c \in Call, Begin(c)
  PROVE  SInv'
<1>1. \A x \in Call : pc[x] \notin Statement
  BY NobodyAssumption DEF SInv, LockInv, Begin
<1>2. TypeOk'
  BY DEF SInv, TypeOk, Begin, Goto, readerVars, CallPc, Statement
<1>3. LockInv'
  BY <1>1 DEF SInv, TypeOk, Begin, Goto, LockInv, Statement
<1>4. AskInv'
  BY DEF SInv, TypeOk, AskInv, Begin, Goto, Statement, L!MayAsk, L!Held
<1>5. TxInv'
  BY <1>1 DEF SInv, TypeOk, TxInv, Begin, Goto, Statement
<1> QED
  BY <1>2, <1>3, <1>4, <1>5 DEF SInv

\* While c is inside the transaction, no other call is.
LEMMA Alone ==
  ASSUME SInv, NEW c \in Call, pc[c] \in Statement
  PROVE  lock = c /\ \A x \in Call \ {c} : pc[x] \notin Statement
BY DEF SInv, LockInv

LEMMA LoadKeeps ==
  ASSUME SInv, NEW c \in Call, Load(c)
  PROVE  SInv'
<1> DEFINE d == Evaluate(tx, c)
<1>1. /\ lock = c /\ tx = db
      /\ \A x \in Call \ {c} : pc[x] \notin Statement
  BY Alone DEF SInv, TxInv, Load, Goto, Statement
<1>2. d \in Decision
  BY EvaluateType
<1>3. /\ pc' = [pc EXCEPT ![c] = IF ReservesUsage(d, approved[c]) THEN "run_usage"
                                                               ELSE "commit"]
      /\ decision' = [decision EXCEPT ![c] = d]
      /\ loaded' = [loaded EXCEPT ![c] = tx]
      /\ UNCHANGED <<db, tx, lock, granted, approved, answer, rpc, snapshot, since>>
  BY DEF Load, Goto, storeVars, readerVars
<1> HIDE DEF d
<1>4. TypeOk'
  BY <1>2, <1>3 DEF SInv, TypeOk, CallPc, Statement
<1>5. LockInv'
  BY <1>1, <1>3 DEF SInv, TypeOk, LockInv, Statement
<1>6. AskInv'
  BY <1>3 DEF SInv, TypeOk, AskInv, Load, Goto, Statement, L!MayAsk, L!Held
<1>7. TxInv'
  <2>1. decision'[c] = Evaluate(db', c) /\ loaded'[c] = db' /\ tx' = db'
    BY <1>1, <1>3 DEF SInv, TypeOk, d
  <2>4. ~FingerprintRaises(db', c, approved'[c])
    BY <1>1, <1>3 DEF Load
  <2>2. pc'[c] = IF WillReserve(c)' THEN "run_usage" ELSE "commit"
    BY <1>3 DEF SInv, TypeOk, WillReserve
  <2>3. \A x \in Call \ {c} : pc'[x] \notin Statement
    BY <1>1, <1>3 DEF SInv, TypeOk
  <2> QED
    BY <2>1, <2>2, <2>3, <2>4 DEF TxInv, Statement
<1> QED
  BY <1>4, <1>5, <1>6, <1>7 DEF SInv

\* A statement of c that writes only the open transaction.
LEMMA WriteKeeps ==
  ASSUME SInv, NEW c \in Call,
         RecordRun(c) \/ RecordTool(c) \/ RecordFingerprint(c)
  PROVE  SInv'
<1>1. /\ pc[c] \in {"run_usage", "tool_usage", "fingerprint_usage"}
      /\ pc' = [pc EXCEPT ![c] = CASE pc[c] = "run_usage" -> "tool_usage"
                                   [] pc[c] = "tool_usage" -> "fingerprint_usage"
                                   [] pc[c] = "fingerprint_usage" -> "commit"]
      /\ UNCHANGED <<db, lock, granted, approved, loaded, decision, answer,
                     rpc, snapshot, since>>
  BY DEF RecordRun, RecordTool, RecordFingerprint, Goto, readerVars
<1>2. /\ lock = c /\ db \in Usage
      /\ \A x \in Call \ {c} : pc[x] \notin Statement
  BY <1>1, Alone DEF SInv, TypeOk, Statement
<1>3. pc'[c] \in {"tool_usage", "fingerprint_usage", "commit"}
  BY <1>1 DEF SInv, TypeOk
<1>4. \A x \in Call \ {c} : pc'[x] = pc[x]
  BY <1>1 DEF SInv, TypeOk
<1>5. /\ pc'[c] = "tool_usage" => tx' = RunWritten(c)
      /\ pc'[c] = "fingerprint_usage" => tx' = ToolWritten(c)
      /\ pc'[c] = "commit" => tx' = Record(db, c)
  <2>1. CASE RecordRun(c)
    <3>1. tx = db /\ loaded[c] = db /\ pc'[c] = "tool_usage"
      BY <2>1 DEF SInv, TxInv, TypeOk, RecordRun, Goto
    <3>2. tx' = RunWritten(c)
      BY <2>1, <3>1, <1>2, FingerprintType DEF RecordRun, RunWritten, Record, Usage
    <3> QED
      BY <3>1, <3>2
  <2>2. CASE RecordTool(c)
    <3>1. tx = RunWritten(c) /\ pc'[c] = "fingerprint_usage"
      BY <2>2 DEF SInv, TxInv, TypeOk, RecordTool, Goto
    <3>2. tx' = ToolWritten(c)
      BY <2>2, <3>1 DEF RecordTool, ToolWritten
    <3> QED
      BY <3>1, <3>2
  <2>3. CASE RecordFingerprint(c)
    <3>1. tx = ToolWritten(c) /\ pc'[c] = "commit"
      BY <2>3 DEF SInv, TxInv, TypeOk, RecordFingerprint, Goto
    <3>2. tx' = Record(db, c)
      BY <2>3, <3>1, <1>2, RecordStepwise DEF RecordFingerprint
    <3> QED
      BY <3>1, <3>2
  <2> QED
    BY <2>1, <2>2, <2>3
<1>6. tx' \in Usage
  BY <1>2, <1>3, <1>5, RecordStepwise
<1>7. TypeOk'
  BY <1>1, <1>3, <1>6 DEF SInv, TypeOk, CallPc, Statement
<1>8. LockInv'
  BY <1>1, <1>2, <1>3, <1>4 DEF SInv, LockInv, Statement
<1>9. AskInv'
  BY <1>1, <1>3, <1>4 DEF SInv, AskInv, Statement, L!MayAsk, L!Held
<1>10. TxInv'
  <2>1. /\ decision'[c] = Evaluate(db', c)
        /\ ~FingerprintRaises(db', c, approved'[c])
        /\ WillReserve(c)'
    BY <1>1 DEF SInv, TxInv, Statement, WillReserve
  <2>2. /\ pc'[c] = "tool_usage" => tx' = RunWritten(c)'
        /\ pc'[c] = "fingerprint_usage" => tx' = ToolWritten(c)'
        /\ pc'[c] = "commit" => tx' = Record(db', c)
    BY <1>1, <1>5 DEF RunWritten, ToolWritten
  <2> QED
    BY <1>2, <1>3, <1>4, <2>1, <2>2 DEF TxInv, Statement
<1> QED
  BY <1>7, <1>8, <1>9, <1>10 DEF SInv

LEMMA CommitKeeps ==
  ASSUME SInv, NEW c \in Call, Commit(c)
  PROVE  SInv'
<1>1. /\ lock = c /\ pc[c] = "commit" /\ decision[c] = Evaluate(db, c)
      /\ \A x \in Call \ {c} : pc[x] \notin Statement
  BY Alone DEF SInv, TxInv, Commit, Goto, Statement
<1>2. L!Decided(approved[c], decision[c]) \in L!Answer
  <2>1. decision[c] \in L!Decision
    BY <1>1, EvaluateType DEF Decision, L!Decision, DecisionKind, L!DecisionKind,
                              Code, L!Code
  <2> QED
    BY <2>1 DEF SInv, TypeOk, L!Decided, L!Answer
<1>3. pc' = [pc EXCEPT ![c] = "idle"]
  BY DEF Commit, Goto
<1>4. TypeOk'
  BY <1>2, <1>3, EmptyUsageType
     DEF SInv, TypeOk, Commit, readerVars, CallPc
<1>5. \A x \in Call : pc'[x] \notin Statement
  BY <1>1, <1>3 DEF SInv, TypeOk, Statement
<1>6. LockInv'
  BY <1>5, NobodyAssumption DEF LockInv, Commit
<1>7. AskInv'
  BY <1>3, <1>5 DEF SInv, TypeOk, AskInv, Commit, L!MayAsk, L!Held, Statement
<1>8. TxInv'
  BY <1>5 DEF TxInv, Statement
<1> QED
  BY <1>4, <1>6, <1>7, <1>8 DEF SInv

LEMMA RollbackKeeps ==
  ASSUME SInv, NEW c \in Call, Rollback(c) \/ FingerprintFails(c)
  PROVE  SInv'
<1>1. lock = c /\ \A x \in Call \ {c} : pc[x] \notin Statement
  BY Alone DEF Rollback, FingerprintFails, Goto, Statement
<1>2. PICK failure \in L!Failure :
        answer' = [answer EXCEPT ![c] = L!Failed(approved[c], failure)]
  BY DEF Rollback, FingerprintFails, L!Failure
<1>9. L!Failed(approved[c], failure) \in L!Answer
  BY DEF SInv, TypeOk, L!Failed, L!Answer, L!NoDecision, L!Failure
<1>3. pc' = [pc EXCEPT ![c] = "idle"]
  BY DEF Rollback, FingerprintFails, Goto
<1>4. TypeOk'
  BY <1>2, <1>3, <1>9, EmptyUsageType
     DEF SInv, TypeOk, Rollback, FingerprintFails, readerVars, CallPc
<1>5. \A x \in Call : pc'[x] \notin Statement
  BY <1>1, <1>3 DEF SInv, TypeOk, Statement
<1>6. LockInv'
  BY <1>5, NobodyAssumption DEF LockInv, Rollback, FingerprintFails
<1>7. AskInv'
  BY <1>2, <1>3, <1>5
     DEF SInv, TypeOk, AskInv, Rollback, FingerprintFails, L!MayAsk, L!Held, Statement
<1>8. TxInv'
  BY <1>5 DEF TxInv, Statement
<1> QED
  BY <1>4, <1>6, <1>7, <1>8 DEF SInv

LEMMA CrashKeeps ==
  ASSUME SInv, NEW c \in Call, Crash(c)
  PROVE  SInv'
<1>1. pc' = [pc EXCEPT ![c] = "dead"] /\ pc'[c] = "dead"
  BY DEF SInv, TypeOk, Crash, Goto
<1>2. \A x \in Call \ {c} : pc'[x] = pc[x] /\ decision'[x] = decision[x]
                               /\ loaded'[x] = loaded[x]
  BY <1>1 DEF SInv, TypeOk, Crash
<1>3. TypeOk'
  BY <1>1, EmptyUsageType DEF SInv, TypeOk, Crash, readerVars, CallPc
<1>4. LockInv'
  BY <1>1, <1>2, NobodyAssumption DEF SInv, LockInv, Crash, Statement
<1>5. AskInv'
  BY <1>1, <1>2 DEF SInv, AskInv, Crash, L!MayAsk, L!Held, Statement
<1>6. TxInv'
  BY <1>1, <1>2 DEF SInv, TxInv, Crash, WillReserve, RunWritten, ToolWritten, Statement
<1> QED
  BY <1>3, <1>4, <1>5, <1>6 DEF SInv

\* Readers touch nothing but what they have read.
LEMMA ReadKeeps ==
  ASSUME SInv, NEW r \in Reader, Read(r)
  PROVE  SInv'
<1>1. UNCHANGED <<db, tx, lock, granted, pc, approved, loaded, decision, answer>>
  BY DEF Read, ReadBegins, ReadRun, ReadTools, ReadFingerprints, ReadFails,
         storeVars, callVars
<1>2. rpc' \in [Reader -> ReaderPc]
  BY DEF SInv, TypeOk, ReaderPc, Read, ReadBegins, ReadRun, ReadTools,
         ReadFingerprints, ReadFails
<1>3. since' \in [Reader -> Usage]
  BY DEF SInv, TypeOk, Read, ReadBegins, ReadRun, ReadTools, ReadFingerprints, ReadFails
<1>4. snapshot' \in [Reader -> Usage]
  <2>1. db \in Usage /\ snapshot[r] \in Usage /\ snapshot \in [Reader -> Usage]
    BY DEF SInv, TypeOk
  <2>2. snapshot' = snapshot \/ \E u \in Usage : snapshot' = [snapshot EXCEPT ![r] = u]
    <3>1. CASE ReadRun(r)
      <4>1. [snapshot[r] EXCEPT !.tool_calls = db.tool_calls,
                                !.estimated_cost_usd = db.estimated_cost_usd] \in Usage
        BY <2>1 DEF Usage
      <4> QED
        BY <2>1, <3>1, <4>1 DEF ReadRun
    <3>2. CASE ReadTools(r)
      <4>1. [snapshot[r] EXCEPT !.calls_by_tool = db.calls_by_tool] \in Usage
        BY <2>1 DEF Usage
      <4> QED
        BY <2>1, <3>2, <4>1 DEF ReadTools
    <3>3. CASE ReadFingerprints(r)
      <4>1. [snapshot[r] EXCEPT !.calls_by_fingerprint = db.calls_by_fingerprint]
              \in Usage
        BY <2>1 DEF Usage
      <4> QED
        BY <2>1, <3>3, <4>1 DEF ReadFingerprints
    <3>4. CASE ReadBegins(r) \/ ReadFails(r)
      BY <3>4 DEF ReadBegins, ReadFails
    <3> QED
      BY <3>1, <3>2, <3>3, <3>4 DEF Read
  <2> QED
    BY <2>1, <2>2
<1>5. TypeOk'
  BY <1>1, <1>2, <1>3, <1>4 DEF SInv, TypeOk
<1>6. LockInv' /\ AskInv' /\ TxInv'
  BY <1>1 DEF SInv, LockInv, AskInv, TxInv, WillReserve, RunWritten, ToolWritten,
              L!MayAsk, L!Held
<1> QED
  BY <1>5, <1>6 DEF SInv

LEMMA StutterKeeps ==
  ASSUME SInv, UNCHANGED vars
  PROVE  SInv'
BY DEF SInv, TypeOk, LockInv, AskInv, TxInv, WillReserve, RunWritten, ToolWritten,
       L!MayAsk, L!Held, vars, storeVars, callVars, readerVars

LEMMA StepKeeps == SInv /\ [Next]_vars => SInv'
BY AskKeeps, ConnectKeeps, RefusedKeeps, BeginKeeps, LoadKeeps, WriteKeeps,
   CommitKeeps, RollbackKeeps, CrashKeeps, ReadKeeps, StutterKeeps
   DEF Next, Progress

\* The types of the store's state.
THEOREM TypeCorrect == Spec => []TypeOk
<1>1. SInv => TypeOk
  BY DEF SInv
<1> QED
  BY InitSInv, StepKeeps, <1>1, PTL DEF Spec

-----------------------------------------------------------------------------
(***************************************************************************)
(* The refinement: COMMIT is the ledger's step, a failure is the ledger's  *)
(* Fail, everything else is invisible to it.                               *)
(***************************************************************************)

\* The instance of the ledger computes the decisions of this module.
LEMMA SameFunctions ==
  /\ EmptyUsage = L!EmptyUsage
  /\ \A u, c : Evaluate(u, c) = L!Evaluate(u, c)
  /\ \A u, c : Record(u, c) = L!Record(u, c)
  /\ \A d, a : ReservesUsage(d, a) <=> L!ReservesUsage(d, a)
  /\ \A u, c, a : FingerprintRaises(u, c, a) <=> L!FingerprintRaises(u, c, a)
<1>1. EmptyUsage = L!EmptyUsage
  BY DEF EmptyUsage, L!EmptyUsage, Fingerprint, L!Fingerprint
<1>2. \A c : FingerprintOf(c) = L!FingerprintOf(c)
  BY DEF FingerprintOf, L!FingerprintOf
<1>3. \A n, m : Exhausted(n, m) <=> L!Exhausted(n, m)
  BY DEF Exhausted, L!Exhausted
<1>4. \A u, c : BudgetSpent(u, c) <=> L!BudgetSpent(u, c)
  BY <1>2, <1>3 DEF BudgetSpent, L!BudgetSpent, CostExceeded, L!CostExceeded
<1>5. \A u, c : BudgetCode(u, c) = L!BudgetCode(u, c)
  BY <1>2, <1>3 DEF BudgetCode, L!BudgetCode
<1>6. \A i, c : IsFirstMatch(i, c) <=> L!IsFirstMatch(i, c)
  BY DEF IsFirstMatch, L!IsFirstMatch, RuleMatches, L!RuleMatches
<1>7. \A c : RuleDecision(c) = L!RuleDecision(c)
  BY <1>6 DEF RuleDecision, L!RuleDecision
<1>8. \A u, c : Evaluate(u, c) = L!Evaluate(u, c)
  BY <1>4, <1>5, <1>7 DEF Evaluate, L!Evaluate
<1>9. \A u, c : Record(u, c) = L!Record(u, c)
  BY <1>2 DEF Record, L!Record
<1>10. \A d, a : ReservesUsage(d, a) <=> L!ReservesUsage(d, a)
  BY DEF ReservesUsage, L!ReservesUsage
<1>11. \A u, c : BudgetAsksFingerprint(u, c) <=> L!BudgetAsksFingerprint(u, c)
  BY <1>3 DEF BudgetAsksFingerprint, L!BudgetAsksFingerprint
<1>12. \A u, c, a : FingerprintRaises(u, c, a) <=> L!FingerprintRaises(u, c, a)
  BY <1>8, <1>10, <1>11 DEF FingerprintRaises, L!FingerprintRaises
<1> QED
  BY <1>1, <1>8, <1>9, <1>10, <1>12

LEMMA InitRefines == Init => L!LedgerInit
BY SameFunctions DEF Init, L!LedgerInit

LEMMA CommitRefines ==
  ASSUME SInv, NEW c \in Call, Commit(c)
  PROVE  L!EvaluateAndReserve(c, approved[c])
<1>1. /\ decision[c] = L!Evaluate(db, c)
      /\ tx = IF WillReserve(c) THEN L!Record(db, c) ELSE db
      /\ WillReserve(c) <=> L!ReservesUsage(decision[c], approved[c])
  BY SameFunctions DEF SInv, TxInv, Commit, Goto, Statement, WillReserve
<1>2. L!MayAsk(c, approved[c])
  BY DEF SInv, AskInv, Commit, Goto, Statement
<1>4. ~L!FingerprintRaises(db, c, approved[c])
  BY SameFunctions DEF SInv, TxInv, Commit, Goto, Statement
<1>3. /\ db' = tx
      /\ granted' = IF WillReserve(c) THEN granted \union {c} ELSE granted
      /\ answer' = [answer EXCEPT ![c] = L!Decided(approved[c], decision[c])]
  BY DEF Commit, WillReserve
<1> QED
  BY <1>1, <1>2, <1>3, <1>4 DEF L!EvaluateAndReserve

LEMMA StepRefines == SInv /\ [Next]_vars => [L!LedgerNext]_(L!ledgerVars)
<1> SUFFICES ASSUME SInv, [Next]_vars
             PROVE  L!LedgerNext \/ UNCHANGED L!ledgerVars
  OBVIOUS
<1>1. ASSUME NEW c \in Call, Commit(c)
      PROVE  L!LedgerNext
  BY <1>1, CommitRefines DEF L!LedgerNext, SInv, TypeOk
<1>2. ASSUME NEW c \in Call, ConnectFails(c) \/ BusyTimeout(c) \/ Rollback(c)
      PROVE  L!LedgerNext
  <2>1. L!MayAsk(c, approved[c])
    BY <1>2 DEF SInv, AskInv, ConnectFails, BusyTimeout, Rollback, Goto
  <2>2. L!FailStorage(c, approved[c])
    BY <1>2, <2>1 DEF ConnectFails, BusyTimeout, Rollback, storeVars, L!FailStorage
  <2> QED
    BY <2>2 DEF L!Fail, L!LedgerNext, SInv, TypeOk
<1>6. ASSUME NEW c \in Call, FingerprintFails(c)
      PROVE  L!LedgerNext
  <2>1. L!MayAsk(c, approved[c]) /\ tx = db
    BY <1>6 DEF SInv, AskInv, TxInv, FingerprintFails, Goto, Statement
  <2>2. L!FingerprintRaises(db, c, approved[c])
    BY <1>6, <2>1, SameFunctions DEF FingerprintFails
  <2>3. L!FailFingerprint(c, approved[c])
    BY <1>6, <2>1, <2>2 DEF FingerprintFails, L!FailFingerprint
  <2> QED
    BY <2>3 DEF L!Fail, L!LedgerNext, SInv, TypeOk
<1>3. ASSUME NEW c \in Call,
             \/ \E a \in BOOLEAN : Ask(c, a)
             \/ Connect(c) \/ Begin(c) \/ Load(c) \/ Crash(c)
             \/ RecordRun(c) \/ RecordTool(c) \/ RecordFingerprint(c)
      PROVE  UNCHANGED L!ledgerVars
  BY <1>3 DEF Ask, Connect, Begin, Load, Crash, RecordRun, RecordTool,
              RecordFingerprint, storeVars, L!ledgerVars
<1>4. ASSUME NEW r \in Reader, Read(r)
      PROVE  UNCHANGED L!ledgerVars
  BY <1>4 DEF Read, ReadBegins, ReadRun, ReadTools, ReadFingerprints, ReadFails,
              storeVars, callVars, L!ledgerVars
<1>5. CASE UNCHANGED vars
  BY <1>5 DEF vars, storeVars, callVars, L!ledgerVars
<1> QED
  BY <1>1, <1>2, <1>3, <1>4, <1>5, <1>6 DEF Next, Progress

\* However its statements interleave with those of other callers, fail, or
\* are cut off by a crash, evaluate_and_reserve is one step of the ledger.
THEOREM StoreImplementsLedger == Spec => ImplementsLedger
BY InitSInv, StepKeeps, InitRefines, StepRefines, PTL
   DEF Spec, ImplementsLedger, L!LedgerSpec

-----------------------------------------------------------------------------
(***************************************************************************)
(* The budget of the committed tables.                                     *)
(***************************************************************************)

\* The answers tell which calls are counted; the rest of the ledger's
\* inductive invariant, said of the committed tables.
GrantInv ==
  /\ \A c \in Call : L!MayAsk(c, TRUE) \/ L!MayAsk(c, FALSE) => c \notin granted
  /\ IsFiniteSet(granted)
  /\ CommittedWithinBudget

LEMMA InitGrantInv == Init => GrantInv
<1> SUFFICES ASSUME Init
             PROVE  GrantInv
  OBVIOUS
<1>1. IsFiniteSet({}) /\ Cardinality({}) = 0
  BY FS_EmptySet
<1>2. /\ \A t : OfTool({}, t) = {}
      /\ \A f : OfFingerprint({}, f) = {}
  BY DEF OfTool, OfFingerprint
<1>3. Counts(EmptyUsage, {})
  BY <1>1, <1>2 DEF Counts, CountsBut, EmptyUsage
<1>4. \A limit \in Nat \union {NoLimit} : AtMost(0, limit)
  BY DEF AtMost
<1>5. CountsWithinBudget({}) /\ AtMost(EmptyUsage.estimated_cost_usd, MaxCost)
  BY <1>1, <1>2, <1>4, BudgetAssumption DEF CountsWithinBudget, EmptyUsage, CountLimit, CostLimit
<1> QED
  BY <1>1, <1>3, <1>5 DEF Init, GrantInv, CommittedWithinBudget

LEMMA CommitKeepsGrants ==
  ASSUME SInv, GrantInv, NEW c \in Call, Commit(c)
  PROVE  GrantInv'
<1>1. /\ decision[c] = Evaluate(db, c)
      /\ tx = IF WillReserve(c) THEN Record(db, c) ELSE db
      /\ L!MayAsk(c, approved[c])
      /\ approved[c] \in BOOLEAN
  BY DEF SInv, TypeOk, TxInv, AskInv, Commit, Goto, Statement
<1>2. c \notin granted
  BY <1>1 DEF GrantInv
<1>3. /\ db' = tx
      /\ granted' = IF WillReserve(c) THEN granted \union {c} ELSE granted
      /\ answer' = [answer EXCEPT ![c] = L!Decided(approved[c], decision[c])]
  BY DEF Commit, WillReserve
<1>4. \A x \in Call : L!MayAsk(x, TRUE)' \/ L!MayAsk(x, FALSE)' => x \notin granted'
  <2> SUFFICES ASSUME NEW x \in Call, x \in granted'
               PROVE  ~L!MayAsk(x, TRUE)' /\ ~L!MayAsk(x, FALSE)'
    OBVIOUS
  <2>1. CASE x # c
    <3>1. answer'[x] = answer[x] /\ x \in granted
      BY <2>1, <1>3 DEF SInv, TypeOk
    <3> QED
      BY <3>1 DEF GrantInv, L!MayAsk, L!Held
  <2>2. CASE x = c
    <3>1. WillReserve(c)
      BY <1>2, <1>3, <2>2
    <3>2. answer'[c] = L!Decided(approved[c], decision[c])
      BY <1>3 DEF SInv, TypeOk
    <3>3. answer'[c].decision.kind = "require_approval" => answer'[c].approved
      BY <1>1, <3>1, <3>2 DEF WillReserve, ReservesUsage, L!Decided
    <3>4. answer'[c].status = "decided"
      BY <3>2 DEF L!Decided
    <3> QED
      BY <2>2, <3>3, <3>4 DEF L!MayAsk, L!Held
  <2> QED
    BY <2>1, <2>2
<1>5. CASE WillReserve(c)
  <2>1. db' = Record(db, c) /\ granted' = granted \union {c}
    BY <1>1, <1>3, <1>5
  <2>2. ~BudgetSpent(db, c)
    BY <1>1, <1>5, ReservationHasRoom DEF WillReserve
  <2>3. db \in Usage /\ granted \in SUBSET Call /\ IsFiniteSet(granted)
    BY DEF SInv, TypeOk, GrantInv
  <2>4. /\ Counts(db, granted) /\ CountsWithinBudget(granted)
        /\ AtMost(db.estimated_cost_usd, MaxCost)
    BY DEF GrantInv, CommittedWithinBudget
  <2>5. Counts(Record(db, c), granted \union {c})
    BY <1>2, <2>3, <2>4, FS_EmptySet, RecordCounts DEF Counts
  <2>6. /\ CountsWithinBudget(granted \union {c})
        /\ AtMost(Record(db, c).estimated_cost_usd, MaxCost)
    BY <1>2, <2>2, <2>3, <2>4, FS_EmptySet, RoomForOne DEF Counts
  <2>7. IsFiniteSet(granted')
    BY <1>2, <2>1, <2>3, GrantOne
  <2> QED
    BY <1>4, <2>1, <2>5, <2>6, <2>7 DEF GrantInv, CommittedWithinBudget
<1>6. CASE ~WillReserve(c)
  BY <1>1, <1>3, <1>4, <1>6 DEF GrantInv, CommittedWithinBudget
<1> QED
  BY <1>5, <1>6

LEMMA FailureKeepsGrants ==
  ASSUME SInv, GrantInv, NEW c \in Call,
         ConnectFails(c) \/ BusyTimeout(c) \/ Rollback(c) \/ FingerprintFails(c)
  PROVE  GrantInv'
<1>1. PICK failure \in L!Failure :
        answer' = [answer EXCEPT ![c] = L!Failed(approved[c], failure)]
  BY DEF ConnectFails, BusyTimeout, Rollback, FingerprintFails, L!Failure
<1>2. db' = db /\ granted' = granted
  BY DEF ConnectFails, BusyTimeout, Rollback, FingerprintFails, storeVars
<1>3. \A x \in Call : L!MayAsk(x, TRUE)' \/ L!MayAsk(x, FALSE)' => x \notin granted'
  <2>1. ~L!MayAsk(c, TRUE)' /\ ~L!MayAsk(c, FALSE)'
    BY <1>1 DEF SInv, TypeOk, L!MayAsk, L!Held, L!Failed, L!NoDecision, L!Failure
  <2>2. \A x \in Call \ {c} : answer'[x] = answer[x]
    BY <1>1 DEF SInv, TypeOk
  <2> QED
    BY <1>2, <2>1, <2>2 DEF GrantInv, L!MayAsk, L!Held
<1> QED
  BY <1>2, <1>3 DEF GrantInv, CommittedWithinBudget

LEMMA StepKeepsGrants == SInv /\ GrantInv /\ [Next]_vars => GrantInv'
<1> SUFFICES ASSUME SInv, GrantInv, [Next]_vars
             PROVE  GrantInv'
  OBVIOUS
<1>1. ASSUME NEW c \in Call,
             \/ Commit(c) \/ ConnectFails(c) \/ BusyTimeout(c)
             \/ Rollback(c) \/ FingerprintFails(c)
      PROVE  GrantInv'
  BY <1>1, CommitKeepsGrants, FailureKeepsGrants
<1>2. CASE UNCHANGED <<db, granted, answer>>
  BY <1>2 DEF GrantInv, CommittedWithinBudget, L!MayAsk, L!Held
<1>3. ASSUME NEW c \in Call,
             \/ \E a \in BOOLEAN : Ask(c, a)
             \/ Connect(c) \/ Begin(c) \/ Load(c) \/ Crash(c)
             \/ RecordRun(c) \/ RecordTool(c) \/ RecordFingerprint(c)
      PROVE  UNCHANGED <<db, granted, answer>>
  BY <1>3 DEF Ask, Connect, Begin, Load, Crash, RecordRun, RecordTool,
              RecordFingerprint, storeVars
<1>4. ASSUME NEW r \in Reader, Read(r)
      PROVE  UNCHANGED <<db, granted, answer>>
  BY <1>4 DEF Read, ReadBegins, ReadRun, ReadTools, ReadFingerprints, ReadFails,
              storeVars, callVars
<1>5. UNCHANGED vars => UNCHANGED <<db, granted, answer>>
  BY DEF vars, storeVars, callVars
<1> QED
  BY <1>1, <1>2, <1>3, <1>4, <1>5 DEF Next, Progress

\* The committed tables never hold more calls than the budget admits, and
\* agree with each other, across any number of processes and crashes.
THEOREM StoreWithinBudget == Spec => []CommittedWithinBudget
<1>1. Init => SInv /\ GrantInv
  BY InitSInv, InitGrantInv
<1>2. SInv /\ GrantInv /\ [Next]_vars => (SInv /\ GrantInv)'
  BY StepKeeps, StepKeepsGrants
<1>3. GrantInv => CommittedWithinBudget
  BY DEF GrantInv
<1> QED
  BY <1>1, <1>2, <1>3, PTL DEF Spec

-----------------------------------------------------------------------------
(***************************************************************************)
(* What usage() reads while others commit.  The three tables always hold   *)
(* the same number of calls and that number only grows, so a total read    *)
(* later is at least one read earlier; only the reader's place in its      *)
(* three statements says which totals of its snapshot are this read's.     *)
(***************************************************************************)
TotalsInv ==
  /\ IsFiniteSet(Rows(db.calls_by_tool))
  /\ IsFiniteSet(Rows(db.calls_by_fingerprint))
  /\ Sum(db.calls_by_tool) = db.tool_calls
  /\ Sum(db.calls_by_fingerprint) = db.tool_calls

ReaderInv ==
  \A r \in Reader :
    LET s == snapshot[r]
        runRead == rpc[r] \in {"tool_usage", "fingerprint_usage", "idle"}
        toolsRead == rpc[r] \in {"fingerprint_usage", "idle"} IN
    /\ rpc[r] = "run_usage" => /\ since[r].tool_calls <= db.tool_calls
                               /\ since[r].estimated_cost_usd <= db.estimated_cost_usd
    /\ runRead => /\ since[r].tool_calls <= s.tool_calls
                  /\ since[r].estimated_cost_usd <= s.estimated_cost_usd
                  /\ s.estimated_cost_usd <= db.estimated_cost_usd
                  /\ s.tool_calls <= db.tool_calls
    /\ toolsRead => /\ Sum(s.calls_by_tool) \in Nat
                    /\ s.tool_calls <= Sum(s.calls_by_tool)
                    /\ Sum(s.calls_by_tool) <= db.tool_calls
    /\ rpc[r] = "idle" => /\ Sum(s.calls_by_fingerprint) \in Nat
                          /\ Sum(s.calls_by_tool) <= Sum(s.calls_by_fingerprint)
                          /\ Sum(s.calls_by_fingerprint) <= db.tool_calls

LEMMA NoRows ==
  /\ \A K : Rows([k \in K |-> 0]) = {}
  /\ \A K : Sum([k \in K |-> 0]) = 0
  /\ IsFiniteSet({})
<1>1. \A K : Rows([k \in K |-> 0]) = {}
  BY DEF Rows
<1>2. \A f : SumFunctionOnSet(f, {}) = 0
  BY FS_EmptySet, SumTakesSome
<1> QED
  BY <1>1, <1>2, FS_EmptySet DEF Sum

LEMMA InitReads == Init => TotalsInv /\ ReaderInv
<1> SUFFICES ASSUME Init
             PROVE  TotalsInv /\ ReaderInv
  OBVIOUS
<1>1. /\ EmptyUsage.tool_calls = 0 /\ EmptyUsage.estimated_cost_usd = 0
      /\ Sum(EmptyUsage.calls_by_tool) = 0
      /\ Sum(EmptyUsage.calls_by_fingerprint) = 0
      /\ Rows(EmptyUsage.calls_by_tool) = {}
      /\ Rows(EmptyUsage.calls_by_fingerprint) = {}
  BY NoRows DEF EmptyUsage
<1>2. TotalsInv
  BY <1>1, NoRows DEF Init, TotalsInv
<1>3. ReaderInv
  BY <1>1 DEF Init, ReaderInv
<1> QED
  BY <1>2, <1>3

\* A committed call adds one to each of the three totals.
LEMMA RecordTotals ==
  ASSUME TotalsInv, db \in Usage, NEW c \in Call, db' = Record(db, c)
  PROVE  /\ TotalsInv'
         /\ db'.tool_calls = db.tool_calls + 1
         /\ db'.estimated_cost_usd = db.estimated_cost_usd + c.estimated_cost_usd
<1> DEFINE tools == db.calls_by_tool
           prints == db.calls_by_fingerprint
           f == FingerprintOf(c)
<1>1. c.name \in Tool /\ f \in Fingerprint
  BY FingerprintType
<1>2. tools \in [Tool -> Nat] /\ prints \in [Fingerprint -> Nat]
  BY DEF Usage
<1>3. /\ db'.tool_calls = db.tool_calls + 1
      /\ db'.estimated_cost_usd = db.estimated_cost_usd + c.estimated_cost_usd
      /\ db'.calls_by_tool = [tools EXCEPT ![c.name] = @ + 1]
      /\ db'.calls_by_fingerprint = [prints EXCEPT ![f] = @ + 1]
  BY DEF Record, Usage
<1> HIDE DEF tools, prints, f
<1>4. ASSUME NEW K, NEW g \in [K -> Nat], NEW k \in K, IsFiniteSet(Rows(g))
      PROVE  /\ IsFiniteSet(Rows([g EXCEPT ![k] = @ + 1]))
             /\ Sum([g EXCEPT ![k] = @ + 1]) = Sum(g) + 1
  <2> DEFINE h == [g EXCEPT ![k] = @ + 1]
  <2>1. Rows(g) = {x \in K : g[x] > 0} /\ Rows(h) = {x \in K : h[x] > 0}
    BY DEF Rows
  <2>2. IsFiniteSet({x \in K : g[x] > 0})
    BY <1>4, <2>1
  <2>3. /\ IsFiniteSet({x \in K : h[x] > 0})
        /\ SumFunctionOnSet(h, {x \in K : h[x] > 0})
             = SumFunctionOnSet(g, {x \in K : g[x] > 0}) + 1
    BY <1>4, <2>2, SumOfOneMore
  <2> HIDE DEF h
  <2> QED
    BY <2>1, <2>3 DEF Sum, h
<1>5. /\ IsFiniteSet(Rows(tools)) /\ Sum(tools) = db.tool_calls
      /\ IsFiniteSet(Rows(prints)) /\ Sum(prints) = db.tool_calls
  BY DEF TotalsInv, tools, prints
<1>6. /\ IsFiniteSet(Rows(db'.calls_by_tool))
      /\ Sum(db'.calls_by_tool) = db.tool_calls + 1
  <2>1. /\ IsFiniteSet(Rows([tools EXCEPT ![c.name] = @ + 1]))
        /\ Sum([tools EXCEPT ![c.name] = @ + 1]) = Sum(tools) + 1
    BY <1>1, <1>2, <1>4, <1>5
  <2> QED
    BY <1>3, <1>5, <2>1
<1>7. /\ IsFiniteSet(Rows(db'.calls_by_fingerprint))
      /\ Sum(db'.calls_by_fingerprint) = db.tool_calls + 1
  <2>1. /\ IsFiniteSet(Rows([prints EXCEPT ![f] = @ + 1]))
        /\ Sum([prints EXCEPT ![f] = @ + 1]) = Sum(prints) + 1
    BY <1>1, <1>2, <1>4, <1>5
  <2> QED
    BY <1>3, <1>5, <2>1
<1> QED
  BY <1>3, <1>6, <1>7 DEF TotalsInv

LEMMA CommitKeepsReads ==
  ASSUME SInv, TotalsInv, ReaderInv, NEW c \in Call, Commit(c)
  PROVE  TotalsInv' /\ ReaderInv'
<1>1. db' = db \/ db' = Record(db, c)
  BY DEF SInv, TxInv, Commit, Goto
<1>2. UNCHANGED <<rpc, snapshot, since>>
  BY DEF Commit, readerVars
<1>3. /\ TotalsInv'
      /\ db.tool_calls <= db'.tool_calls
      /\ db.estimated_cost_usd <= db'.estimated_cost_usd
  <2>1. db \in Usage /\ c.estimated_cost_usd \in Nat
    BY CallAssumption DEF SInv, TypeOk
  <2>2. db.tool_calls \in Nat /\ db.estimated_cost_usd \in Nat
    BY <2>1 DEF Usage
  <2>3. CASE db' = db
    BY <2>2, <2>3 DEF TotalsInv
  <2>4. CASE db' = Record(db, c)
    BY <2>1, <2>2, <2>4, RecordTotals
  <2> QED
    BY <1>1, <2>3, <2>4
<1>4. db \in Usage /\ db' \in Usage /\ snapshot \in [Reader -> Usage]
      /\ since \in [Reader -> Usage]
  BY CommitKeeps DEF SInv, TypeOk
<1>5. /\ db.tool_calls \in Nat /\ db.estimated_cost_usd \in Nat
      /\ db'.tool_calls \in Nat /\ db'.estimated_cost_usd \in Nat
  BY <1>4 DEF Usage
<1>6. \A r \in Reader :
        /\ snapshot[r].tool_calls \in Nat /\ snapshot[r].estimated_cost_usd \in Nat
        /\ since[r].tool_calls \in Nat /\ since[r].estimated_cost_usd \in Nat
  BY <1>4 DEF Usage
<1>7. ReaderInv'
  BY <1>2, <1>3, <1>5, <1>6 DEF ReaderInv
<1> QED
  BY <1>3, <1>7

LEMMA ReadKeepsReads ==
  ASSUME SInv, TotalsInv, ReaderInv, NEW r \in Reader, Read(r)
  PROVE  TotalsInv' /\ ReaderInv'
<1>1. db' = db
  BY DEF Read, ReadBegins, ReadRun, ReadTools, ReadFingerprints, ReadFails, storeVars
<1>2. /\ snapshot \in [Reader -> Usage] /\ since \in [Reader -> Usage]
      /\ rpc \in [Reader -> ReaderPc] /\ db \in Usage
  BY DEF SInv, TypeOk
<1>3. \A x \in Reader \ {r} : /\ rpc'[x] = rpc[x] /\ snapshot'[x] = snapshot[x]
                             /\ since'[x] = since[x]
  BY <1>2 DEF Read, ReadBegins, ReadRun, ReadTools, ReadFingerprints, ReadFails
<1>4. db.tool_calls \in Nat /\ db.estimated_cost_usd \in Nat
  BY <1>2 DEF Usage
<1>5. /\ Sum(db.calls_by_tool) = db.tool_calls
      /\ Sum(db.calls_by_fingerprint) = db.tool_calls
  BY DEF TotalsInv
<1>6. snapshot[r] \in Usage /\ DOMAIN snapshot[r] = DOMAIN EmptyUsage
  BY <1>2 DEF Usage, EmptyUsage
<1>7. ReaderInv'
  <2> DEFINE s == snapshot[r]
             t == snapshot'[r]
  <2>1. CASE ReadBegins(r)
    <3>1. since'[r] = db /\ t = s /\ rpc'[r] = "run_usage"
      BY <1>2, <2>1 DEF ReadBegins
    <3> QED
      BY <1>1, <1>3, <1>4, <3>1 DEF ReaderInv
  <2>2. CASE ReadRun(r)
    <3>1. /\ t.tool_calls = db.tool_calls /\ t.estimated_cost_usd = db.estimated_cost_usd
          /\ since'[r] = since[r] /\ rpc[r] = "run_usage" /\ rpc'[r] = "tool_usage"
      BY <1>2, <1>6, <2>2 DEF ReadRun, Usage
    <3> QED
      BY <1>1, <1>3, <1>4, <3>1 DEF ReaderInv
  <2>3. CASE ReadTools(r)
    <3>1. /\ t.tool_calls = s.tool_calls /\ t.estimated_cost_usd = s.estimated_cost_usd
          /\ t.calls_by_tool = db.calls_by_tool
          /\ since'[r] = since[r] /\ rpc[r] = "tool_usage" /\ rpc'[r] = "fingerprint_usage"
      BY <1>2, <1>6, <2>3 DEF ReadTools, Usage
    <3>2. Sum(t.calls_by_tool) = db.tool_calls
      BY <1>5, <3>1
    <3> QED
      BY <1>1, <1>3, <1>4, <3>1, <3>2 DEF ReaderInv
  <2>4. CASE ReadFingerprints(r)
    <3>1. /\ t.tool_calls = s.tool_calls /\ t.estimated_cost_usd = s.estimated_cost_usd
          /\ t.calls_by_tool = s.calls_by_tool
          /\ t.calls_by_fingerprint = db.calls_by_fingerprint
          /\ since'[r] = since[r] /\ rpc[r] = "fingerprint_usage" /\ rpc'[r] = "idle"
      BY <1>2, <1>6, <2>4 DEF ReadFingerprints, Usage
    <3>2. Sum(t.calls_by_fingerprint) = db.tool_calls
      BY <1>5, <3>1
    <3> QED
      BY <1>1, <1>3, <1>4, <3>1, <3>2 DEF ReaderInv
  <2>5. CASE ReadFails(r)
    <3>1. rpc'[r] = "failed"
      BY <1>2, <2>5 DEF ReadFails
    <3> QED
      BY <1>1, <1>3, <3>1 DEF ReaderInv
  <2> QED
    BY <2>1, <2>2, <2>3, <2>4, <2>5 DEF Read
<1>8. TotalsInv'
  BY <1>1 DEF TotalsInv
<1> QED
  BY <1>7, <1>8

LEMMA StepKeepsReads ==
  SInv /\ TotalsInv /\ ReaderInv /\ [Next]_vars => TotalsInv' /\ ReaderInv'
<1> SUFFICES ASSUME SInv, TotalsInv, ReaderInv, [Next]_vars
             PROVE  TotalsInv' /\ ReaderInv'
  OBVIOUS
<1>1. CASE UNCHANGED <<db, rpc, snapshot, since>>
  BY <1>1 DEF TotalsInv, ReaderInv
<1>2. ASSUME NEW c \in Call,
             Progress(c) \/ Crash(c) \/ \E a \in BOOLEAN : Ask(c, a)
      PROVE  UNCHANGED <<db, rpc, snapshot, since>> \/ Commit(c)
  BY <1>2 DEF Ask, Connect, ConnectFails, Begin, BusyTimeout, Load, Crash, Rollback,
              FingerprintFails, RecordRun, RecordTool, RecordFingerprint, Progress, storeVars, readerVars
<1>3. UNCHANGED vars => UNCHANGED <<db, rpc, snapshot, since>>
  BY DEF vars, storeVars, readerVars
<1> QED
  BY <1>1, <1>2, <1>3, CommitKeepsReads, ReadKeepsReads DEF Next

\* usage() does not read one state of the tables, but the totals it returns lie
\* between those when the read began and now, in the order of the reads.
THEOREM ReadsAreOrdered == Spec => []SnapshotOrdered
<1>1. Init => SInv /\ TotalsInv /\ ReaderInv
  BY InitSInv, InitReads
<1>2. SInv /\ TotalsInv /\ ReaderInv /\ [Next]_vars => (SInv /\ TotalsInv /\ ReaderInv)'
  BY StepKeeps, StepKeepsReads
<1>3. ReaderInv => SnapshotOrdered
  BY DEF ReaderInv, SnapshotOrdered
<1> QED
  BY <1>1, <1>2, <1>3, PTL DEF Spec
=============================================================================
