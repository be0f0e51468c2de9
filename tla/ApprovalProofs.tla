---------------------------- MODULE ApprovalProofs ----------------------------
(***************************************************************************)
(* The approval queue keeps a verdict once it is in the table, and reports *)
(* no other.  The dashboard adds nothing to what the queue allows, answers *)
(* each POST truly, and what its summary says of the hidden calls is off   *)
(* by no more than what happened between its reads.  All of it for every   *)
(* set of calls, operators and viewers and every timeout; the part about   *)
(* the queue alone comes first and uses nothing of Dashboard.              *)
(***************************************************************************)
EXTENDS Dashboard, FiniteSetTheorems, TLAPS

-----------------------------------------------------------------------------
(***************************************************************************)
(* The inductive invariant: what is known at each place of wait() and      *)
(* decide().                                                               *)
(***************************************************************************)

\* The write lock is held exactly between BEGIN IMMEDIATE and the end of the
\* transaction; so what SELECT saw is still there at UPDATE.
DeciderInv(d) ==
  /\ lock = d <=> dpc[d] \in {"select", "update"}
  /\ dpc[d] \in {"begin", "select", "update", "reread"} => job[d] \in Job
  /\ dpc[d] = "update" => row[job[d].call] = "pending"
  /\ dpc[d] = "reread" => row[job[d].call] = job[d].status

WaiterInv(c) ==
  /\ pc[c] \in {"idle", "insert"} => row[c] = "absent"
  /\ pc[c] \in {"poll", "final"} => row[c] # "absent"
  /\ pc[c] \in {"readback", "deadline", "loop", "sleep", "deny"} => row[c] # "absent"
  /\ pc[c] = "final" => row[c] \in Verdict
  /\ dpc[c] \in {"begin", "select", "update", "reread"} =>
       pc[c] = "deny" /\ job[c] = AutoDenial(c)
  /\ pc[c] # "returned" => answer[c] = "none"
  /\ answer[c] \in {"none", row[c]}

ToldInv == \A j \in told : row[j.call] = j.status

QInv ==
  /\ TypeOk
  /\ \A d \in Decider : DeciderInv(d)
  /\ \A c \in Call : WaiterInv(c)
  /\ ToldInv

LEMMA InitQInv == Init => QInv
<1> SUFFICES ASSUME Init
             PROVE  QInv
  OBVIOUS
<1>1. TypeOk
  BY QueueAssumption DEF Init, TypeOk, DecidePc
<1>2. \A d \in Decider : DeciderInv(d)
  BY QueueAssumption DEF Init, DeciderInv, Decider
<1>3. \A c \in Call : WaiterInv(c)
  BY DEF Init, WaiterInv, Decider
<1>4. ToldInv
  BY DEF Init, ToldInv
<1> QED
  BY <1>1, <1>2, <1>3, <1>4 DEF QInv

\* A verdict in the table stays; a row is posted once and settled once.
RowStep(c) ==
  \/ row'[c] = row[c]
  \/ row[c] = "absent" /\ row'[c] = "pending"
  \/ row[c] = "pending" /\ row'[c] \in Verdict

-----------------------------------------------------------------------------
(***************************************************************************)
(* The steps of wait(), which leave the deciders alone.                    *)
(***************************************************************************)

\* A step of c that moves its waiter and no decider.
LEMMA WaiterMoves ==
  ASSUME QInv, NEW c \in Call,
         UNCHANGED decideVars,
         dpc[c] \notin {"begin", "select", "update", "reread"},
         TypeOk',
         \A x \in Call \ {c} : row'[x] = row[x] /\ pc'[x] = pc[x] /\ answer'[x] = answer[x],
         row'[c] = row[c] \/ (row[c] = "absent" /\ row'[c] = "pending"),
         WaiterInv(c)'
  PROVE  QInv'
<1>1. \A x \in Call : row[x] # "absent" => row'[x] = row[x]
  OBVIOUS
<1>2. UNCHANGED <<lock, dpc, job, told>>
  BY DEF decideVars
<1>3. ASSUME NEW d \in Decider
      PROVE  DeciderInv(d)'
  BY <1>1, <1>2 DEF QInv, DeciderInv, Job, Verdict
<1>4. ASSUME NEW x \in Call
      PROVE  WaiterInv(x)'
  BY <1>2 DEF QInv, WaiterInv
<1>5. ToldInv'
  BY <1>1, <1>2 DEF QInv, ToldInv, TypeOk, Job, Verdict
<1> QED
  BY <1>3, <1>4, <1>5 DEF QInv

LEMMA WaitKeeps ==
  ASSUME QInv, NEW c \in Call,
         Stamp(c) \/ Insert(c) \/ ReadBack(c) \/ SetDeadline(c) \/ CheckDeadline(c)
           \/ Poll(c) \/ Sleep(c) \/ FinalGet(c) \/ WaitFails(c)
  PROVE  QInv'
<1>1. WaiterInv(c) /\ TypeOk
  BY DEF QInv
<1>2. UNCHANGED decideVars
  BY DEF Stamp, Insert, ReadBack, SetDeadline, CheckDeadline, Poll, Sleep, FinalGet, WaitFails
<1>3. \A x \in Call \ {c} : row'[x] = row[x] /\ pc'[x] = pc[x] /\ answer'[x] = answer[x]
  BY <1>1 DEF TypeOk, Stamp, Insert, ReadBack, SetDeadline, CheckDeadline, Poll, Sleep,
     FinalGet, WaitFails, Goto, Return
<1>4. pc[c] # "deny" /\ dpc[c] \notin {"begin", "select", "update", "reread"}
  BY <1>1 DEF WaiterInv, Stamp, Insert, ReadBack, SetDeadline, CheckDeadline, Poll, Sleep,
     FinalGet, WaitFails, Goto
<1>5. /\ row'[c] = row[c] \/ (row[c] = "absent" /\ row'[c] = "pending")
      /\ row' \in [Call -> {"absent", "pending"} \union Verdict]
  BY <1>1 DEF TypeOk, Stamp, Insert, ReadBack, SetDeadline, CheckDeadline, Poll, Sleep,
     FinalGet, WaitFails
<1>6. /\ pc' \in [Call -> Waiting \union {"idle", "returned", "raised", "dead"}]
      /\ answer' \in [Call -> {"none"} \union Verdict]
      /\ left' \in [Call -> 0..Timeout]
  <2>1. Timeout \in 0..Timeout
    BY QueueAssumption
  <2> QED
    BY <1>1, <2>1 DEF TypeOk, Waiting, Verdict, Stamp, Insert, ReadBack, SetDeadline,
       CheckDeadline, Poll, Sleep, FinalGet, WaitFails, Goto, Return
<1>7. TypeOk'
  BY <1>1, <1>2, <1>5, <1>6 DEF TypeOk, decideVars
<1>8. WaiterInv(c)'
  BY <1>1, <1>2, <1>4 DEF TypeOk, WaiterInv, Verdict, decideVars, Stamp, Insert, ReadBack,
     SetDeadline, CheckDeadline, Poll, Sleep, FinalGet, WaitFails, Goto, Return
<1> QED
  BY <1>2, <1>3, <1>4, <1>5, <1>7, <1>8, WaiterMoves

-----------------------------------------------------------------------------
(***************************************************************************)
(* The steps of decide(), of a waiter or of an operator.                   *)
(***************************************************************************)

LEMMA DecideCalledKeeps ==
  ASSUME QInv, NEW d \in Decider, NEW j \in Job, DecideCalled(d, j),
         d \in Call => pc[d] = "deny" /\ j = AutoDenial(d)
  PROVE  QInv'
<1>1. TypeOk /\ DeciderInv(d)
  BY DEF QInv
<1>2. TypeOk'
  BY <1>1 DEF TypeOk, DecideCalled, waitVars, DecidePc
<1>3. ASSUME NEW x \in Decider
      PROVE  DeciderInv(x)'
  <2>1. DeciderInv(x)
    BY DEF QInv
  <2> QED
    BY <1>1, <2>1 DEF TypeOk, DeciderInv, DecideCalled
<1>4. ASSUME NEW x \in Call
      PROVE  WaiterInv(x)'
  <2>1. WaiterInv(x)
    BY DEF QInv
  <2> QED
    BY <1>1, <2>1 DEF TypeOk, WaiterInv, DecideCalled, waitVars
<1>5. ToldInv'
  BY DEF QInv, ToldInv, DecideCalled
<1> QED
  BY <1>2, <1>3, <1>4, <1>5 DEF QInv

LEMMA BeginKeeps ==
  ASSUME QInv, NEW d \in Decider, Begin(d)
  PROVE  QInv'
<1>1. TypeOk /\ DeciderInv(d) /\ Nobody \notin Decider
  BY QueueAssumption DEF QInv, Decider
<1>2. TypeOk'
  BY <1>1 DEF TypeOk, Begin, waitVars, DecidePc
<1>3. ASSUME NEW x \in Decider
      PROVE  DeciderInv(x)'
  <2>1. DeciderInv(x)
    BY DEF QInv
  <2> QED
    BY <1>1, <2>1 DEF TypeOk, DeciderInv, Begin
<1>4. ASSUME NEW x \in Call
      PROVE  WaiterInv(x)'
  <2>1. WaiterInv(x)
    BY DEF QInv
  <2> QED
    BY <1>1, <2>1 DEF TypeOk, WaiterInv, Begin, waitVars
<1>5. ToldInv'
  BY DEF QInv, ToldInv, Begin
<1> QED
  BY <1>2, <1>3, <1>4, <1>5 DEF QInv

\* decide() ends for d, whose waiter goes on or raises.
LEMMA EndKeeps ==
  ASSUME QInv, NEW d \in Decider, NEW how \in {"done", "failed"},
         DecideEnds(d, how),
         dpc[d] \in {"begin", "select", "update", "reread"},
         d \in Call /\ how = "done" => row[d] \in Verdict,
         UNCHANGED <<row, left, answer, job>>,
         lock' = IF lock = d THEN Nobody ELSE lock,
         told' = told \/ told' = told \union {[call |-> job[d].call, status |-> row[job[d].call]]},
         told' # told => dpc[d] = "reread"
  PROVE  QInv'
<1>1. /\ TypeOk /\ DeciderInv(d) /\ Nobody \notin Decider
      /\ job[d] \in Job
      /\ dpc[d] = "reread" => row[job[d].call] = job[d].status
  BY QueueAssumption DEF QInv, Decider, DeciderInv
<1>2. dpc' = [dpc EXCEPT ![d] = how]
      /\ pc' = IF d \in Call
               THEN [pc EXCEPT ![d] = IF how = "done" THEN "final" ELSE "raised"]
               ELSE pc
  BY DEF DecideEnds
<1>3. told' \in SUBSET Job
  BY <1>1 DEF TypeOk, Job
<1>4. /\ dpc' \in [Decider -> DecidePc \union {"done", "failed"}]
      /\ pc' \in [Call -> Waiting \union {"idle", "returned", "raised", "dead"}]
      /\ lock' \in Decider \union {Nobody}
  BY <1>1, <1>2 DEF TypeOk, Waiting
<1>5. TypeOk'
  BY <1>1, <1>3, <1>4 DEF TypeOk
<1>6. ASSUME NEW x \in Decider
      PROVE  DeciderInv(x)'
  <2>1. DeciderInv(x)
    BY DEF QInv
  <2> QED
    BY <1>1, <1>2, <2>1 DEF TypeOk, DeciderInv
<1>7. ASSUME NEW x \in Call
      PROVE  WaiterInv(x)'
  <2>1. WaiterInv(x)
    BY DEF QInv
  <2>2. d = x => pc[x] = "deny"
    BY <2>1 DEF WaiterInv
  <2> QED
    BY <1>1, <1>2, <2>1, <2>2 DEF TypeOk, WaiterInv, Decider
<1>8. ToldInv'
  BY <1>1 DEF QInv, ToldInv
<1> QED
  BY <1>5, <1>6, <1>7, <1>8 DEF QInv

LEMMA SelectKeeps ==
  ASSUME QInv, NEW d \in Decider, Select(d)
  PROVE  QInv'
<1> DEFINE status == row[job[d].call]
<1>1. /\ TypeOk /\ DeciderInv(d) /\ Nobody \notin Decider
      /\ job[d] \in Job /\ lock = d /\ dpc[d] = "select"
  BY QueueAssumption DEF QInv, Decider, DeciderInv, Select
<1>2. UNCHANGED <<row, left, answer, job, told>>
  BY DEF Select
<1>3. \A x \in Call : d = x => job[d].call = x /\ row[x] # "absent"
  <2>1. \A x \in Call : d = x => pc[x] = "deny" /\ job[x] = AutoDenial(x)
    BY <1>1 DEF QInv, WaiterInv
  <2>2. \A x \in Call : pc[x] = "deny" => row[x] # "absent"
    BY DEF QInv, WaiterInv
  <2>3. \A x : AutoDenial(x).call = x
    BY DEF AutoDenial
  <2> QED
    BY <2>1, <2>2, <2>3
<1>4. ASSUME dpc' = [dpc EXCEPT ![d] = "update"], status = "pending", UNCHANGED <<pc, lock>>
      PROVE  QInv'
  <2>1. TypeOk'
    BY <1>1, <1>2, <1>4 DEF TypeOk, DecidePc
  <2>2. ASSUME NEW x \in Decider
        PROVE  DeciderInv(x)'
    <3>1. DeciderInv(x)
      BY DEF QInv
    <3> QED
      BY <1>1, <1>2, <1>4, <3>1 DEF TypeOk, DeciderInv
  <2>3. ASSUME NEW x \in Call
        PROVE  WaiterInv(x)'
    <3>1. WaiterInv(x)
      BY DEF QInv
    <3> QED
      BY <1>1, <1>2, <1>4, <3>1 DEF TypeOk, WaiterInv
  <2> QED
    BY <1>2, <2>1, <2>2, <2>3 DEF QInv, ToldInv
<1>5. ASSUME dpc' = [dpc EXCEPT ![d] = "reread"], status = job[d].status,
             lock' = Nobody, UNCHANGED pc
      PROVE  QInv'
  <2>1. TypeOk'
    BY <1>1, <1>2, <1>5 DEF TypeOk, DecidePc
  <2>2. ASSUME NEW x \in Decider
        PROVE  DeciderInv(x)'
    <3>1. DeciderInv(x)
      BY DEF QInv
    <3> QED
      BY <1>1, <1>2, <1>5, <3>1 DEF TypeOk, DeciderInv
  <2>3. ASSUME NEW x \in Call
        PROVE  WaiterInv(x)'
    <3>1. WaiterInv(x)
      BY DEF QInv
    <3> QED
      BY <1>1, <1>2, <1>5, <3>1 DEF TypeOk, WaiterInv
  <2> QED
    BY <1>2, <2>1, <2>2, <2>3 DEF QInv, ToldInv
<1>6. ASSUME status \in Verdict \ {job[d].status}, DecideEnds(d, "done"), lock' = Nobody
      PROVE  QInv'
  BY <1>1, <1>2, <1>3, <1>6, EndKeeps
<1>7. ASSUME status = "absent", DecideEnds(d, "failed"), lock' = Nobody
      PROVE  QInv'
  BY <1>1, <1>2, <1>7, EndKeeps
<1> QED
  BY <1>4, <1>5, <1>6, <1>7 DEF Select

LEMMA UpdateKeeps ==
  ASSUME QInv, NEW d \in Decider, Update(d)
  PROVE  QInv'
<1>1. /\ TypeOk /\ DeciderInv(d) /\ Nobody \notin Decider
      /\ job[d] \in Job /\ lock = d /\ dpc[d] = "update"
      /\ row[job[d].call] = "pending"
  BY QueueAssumption DEF QInv, Decider, DeciderInv, Update
<1> DEFINE target == job[d].call
           status == job[d].status
<1>2. target \in Call /\ status \in Verdict
  BY <1>1 DEF Job
<1>3. /\ row' = [row EXCEPT ![target] = status]
      /\ lock' = Nobody
      /\ dpc' = [dpc EXCEPT ![d] = "reread"]
      /\ UNCHANGED <<left, pc, answer, job, told>>
  BY <1>1 DEF Update, waitVars, TypeOk
<1>4. TypeOk'
  BY <1>1, <1>2, <1>3 DEF TypeOk, DecidePc
<1>5. ASSUME NEW x \in Decider
      PROVE  DeciderInv(x)'
  <2>1. DeciderInv(x)
    BY DEF QInv
  <2>2. CASE x = d
    BY <1>1, <1>2, <1>3, <2>1, <2>2 DEF TypeOk, DeciderInv
  <2>3. CASE x # d
    <3>1. dpc'[x] = dpc[x] /\ dpc[x] \notin {"select", "update"} /\ x # Nobody
      BY <1>1, <1>3, <2>1, <2>3 DEF TypeOk, DeciderInv
    <3>2. dpc[x] = "reread" => job[x].status \in Verdict
      BY <2>1 DEF DeciderInv, Job
    <3>3. dpc[x] = "reread" => job[x].call # target
      BY <1>1, <2>1, <3>2 DEF DeciderInv, Verdict
    <3> HIDE DEF target, status
    <3>4. \A y \in Call : y # target => row'[y] = row[y]
      BY <1>1, <1>3 DEF TypeOk
    <3>5. dpc[x] = "reread" => row'[job[x].call] = job[x].status
      BY <2>1, <3>3, <3>4 DEF DeciderInv, Job
    <3> QED
      BY <1>3, <2>1, <2>3, <3>1, <3>5, <1>1 DEF DeciderInv
  <2> QED
    BY <2>2, <2>3
<1>6. ASSUME NEW x \in Call
      PROVE  WaiterInv(x)'
  <2>1. WaiterInv(x)
    BY DEF QInv
  <2> HIDE DEF target, status
  <2>2. row'[x] = IF x = target THEN status ELSE row[x]
    BY <1>1, <1>3 DEF TypeOk
  <2>3. x = target => row[x] = "pending"
    BY <1>1 DEF target
  <2> QED
    BY <1>1, <1>2, <1>3, <2>1, <2>2, <2>3 DEF TypeOk, WaiterInv, Verdict
<1>7. ToldInv'
  <2>1. ASSUME NEW j \in told
        PROVE  row'[j.call] = j.status
    <3>1. j.call \in Call /\ j.status \in Verdict /\ row[j.call] = j.status
      BY <1>1 DEF QInv, ToldInv, TypeOk, Job
    <3>2. j.call # target
      BY <1>1, <3>1 DEF Verdict
    <3> QED
      BY <1>1, <1>3, <3>1, <3>2 DEF TypeOk
  <2> QED
    BY <1>3, <2>1 DEF ToldInv
<1> QED
  BY <1>4, <1>5, <1>6, <1>7 DEF QInv

LEMMA DecideKeeps ==
  ASSUME QInv, NEW d \in Decider, Decide(d)
  PROVE  QInv'
<1>1. /\ DeciderInv(d) /\ TypeOk /\ Nobody \notin Decider
      /\ d \in Call => WaiterInv(d)
  BY QueueAssumption DEF QInv, Decider
<1>2. CASE BeginFails(d)
  <2>1. lock # d
    BY <1>1, <1>2 DEF DeciderInv, BeginFails
  <2> QED
    BY <1>2, <2>1, EndKeeps DEF BeginFails
<1>3. CASE DecideFails(d)
  <2>1. lock = d
    BY <1>1, <1>3 DEF DeciderInv, DecideFails
  <2> QED
    BY <1>3, <2>1, EndKeeps DEF DecideFails
<1>4. CASE RereadFails(d)
  <2>1. lock # d
    BY <1>1, <1>4 DEF DeciderInv, RereadFails
  <2> QED
    BY <1>4, <2>1, EndKeeps DEF RereadFails
<1>5. CASE Reread(d)
  <2>1. lock # d /\ job[d] \in Job /\ row[job[d].call] = job[d].status
    BY <1>1, <1>5 DEF DeciderInv, Reread
  <2>2. d \in Call => row[d] \in Verdict
    <3>1. d \in Call => job[d] = AutoDenial(d)
      BY <1>1, <1>5 DEF WaiterInv, Reread
    <3>2. AutoDenial(d).call = d /\ AutoDenial(d).status \in Verdict
      BY DEF AutoDenial, Verdict
    <3> QED
      BY <2>1, <3>1, <3>2
  <2> QED
    BY <1>5, <2>1, <2>2, EndKeeps DEF Reread
<1> QED
  BY <1>2, <1>3, <1>4, <1>5, BeginKeeps, SelectKeeps, UpdateKeeps DEF Decide

LEMMA CrashKeeps ==
  ASSUME QInv, NEW c \in Call, Crash(c)
  PROVE  QInv'
<1>1. TypeOk /\ c \in Decider /\ Nobody \notin Decider
  BY QueueAssumption DEF QInv, Decider
<1>2. /\ pc' = [pc EXCEPT ![c] = "dead"]
      /\ dpc' = [dpc EXCEPT ![c] = IF @ \in {"out", "done"} THEN @ ELSE "failed"]
      /\ lock' = IF lock = c THEN Nobody ELSE lock
      /\ UNCHANGED <<row, left, answer, job, told>>
  BY DEF Crash
<1>3. TypeOk'
  BY <1>1, <1>2 DEF TypeOk
<1>4. ASSUME NEW x \in Decider
      PROVE  DeciderInv(x)'
  <2>1. DeciderInv(x) /\ DeciderInv(c)
    BY <1>1 DEF QInv
  <2> QED
    BY <1>1, <1>2, <2>1 DEF TypeOk, DeciderInv
<1>5. ASSUME NEW x \in Call
      PROVE  WaiterInv(x)'
  <2>1. WaiterInv(x) /\ pc[c] # "returned"
    BY DEF QInv, Crash, Waiting
  <2> QED
    BY <1>1, <1>2, <2>1 DEF TypeOk, WaiterInv
<1>6. ToldInv'
  BY <1>2 DEF QInv, ToldInv
<1> QED
  BY <1>3, <1>4, <1>5, <1>6 DEF QInv

LEMMA TickKeeps == QInv /\ Tick => QInv'
<1> SUFFICES ASSUME QInv, Tick
             PROVE  QInv'
  OBVIOUS
<1>1. UNCHANGED <<row, pc, answer, lock, dpc, job, told>>
  BY DEF Tick, decideVars
<1>2. left' \in [Call -> 0..Timeout]
  BY QueueAssumption DEF QInv, TypeOk, Tick
<1>3. TypeOk'
  BY <1>1, <1>2 DEF QInv, TypeOk
<1> QED
  BY <1>1, <1>3 DEF QInv, DeciderInv, WaiterInv, ToldInv

LEMMA StepKeeps == QInv /\ [Next]_vars => QInv'
<1> SUFFICES ASSUME QInv, [Next]_vars
             PROVE  QInv'
  OBVIOUS
<1>1. ASSUME NEW c \in Call, Stamp(c) \/ Wait(c) \/ Crash(c)
      PROVE  QInv'
  <2>1. CASE AutoDeny(c)
    BY <2>1, DecideCalledKeeps DEF AutoDeny, AutoDenial, Job, Verdict, Decider
  <2> QED
    BY <1>1, <2>1, WaitKeeps, CrashKeeps DEF Wait
<1>2. ASSUME NEW o \in Operator, OperatorPosts(o)
      PROVE  QInv'
  <2>1. o \in Decider /\ o \notin Call
    BY QueueAssumption DEF Decider
  <2> QED
    BY <1>2, <2>1, DecideCalledKeeps DEF OperatorPosts
<1>3. CASE UNCHANGED vars
  BY <1>3 DEF vars, waitVars, decideVars, QInv, TypeOk, DeciderInv, WaiterInv, ToldInv
<1> QED
  BY <1>1, <1>2, <1>3, DecideKeeps, TickKeeps DEF Next

LEMMA Invariance == Spec => []QInv
BY InitQInv, StepKeeps, PTL DEF Spec

-----------------------------------------------------------------------------
(***************************************************************************)
(* The theorems.                                                           *)
(***************************************************************************)

\* Every variable of the queue keeps its type.
THEOREM QueueTypeCorrect == Spec => []TypeOk
<1>1. QInv => TypeOk
  BY DEF QInv
<1> QED
  BY Invariance, <1>1, PTL

\* What was confirmed to an operator is in the table for good, and no wait
\* returns anything else, whatever raced it.
THEOREM ConfirmedIsHonoured == Spec => []ToldIsHonoured
<1>1. QInv => ToldIsHonoured
  BY DEF QInv, ToldInv, TypeOk, Job, Verdict, WaiterInv, ToldIsHonoured
<1> QED
  BY Invariance, <1>1, PTL

\* However waiters, operators, failures and crashes interleave, the table and
\* the answers move as the one-shot verdict allows.
THEOREM QueueImplementsVerdict == Spec => ImplementsVerdict
<1>1. Init => V!VerdictInit
  BY DEF Init, V!VerdictInit
<1>2. ASSUME QInv, [Next]_vars
      PROVE  [V!VerdictNext]_(V!verdictVars)
  <2>1. ASSUME NEW c \in Call, Insert(c)
        PROVE  V!Post(c)
    <3>1. row[c] = "absent" /\ TypeOk
      BY <2>1, <1>2 DEF QInv, WaiterInv, Insert, Goto
    <3> QED
      BY <2>1, <3>1 DEF TypeOk, Insert, V!Post
  <2>2. ASSUME NEW c \in Call, Return(c), row' = row, pc[c] # "returned",
               row[c] \in Verdict
        PROVE  V!Tell(c)
    <3>1. answer[c] = "none"
      BY <2>2, <1>2 DEF QInv, WaiterInv
    <3> QED
      BY <2>2, <3>1 DEF Return, Verdict, V!Verdict, V!Tell
  <2>3. ASSUME NEW c \in Call, Poll(c)
        PROVE  V!Tell(c) \/ UNCHANGED <<row, answer>>
    <3>1. row' = row /\ pc[c] = "poll" /\ row[c] \in {"pending"} \union Verdict
      BY <2>3, <1>2 DEF Poll, QInv, WaiterInv, TypeOk
    <3> QED
      BY <2>3, <3>1, <2>2 DEF Poll
  <2>4. ASSUME NEW c \in Call, FinalGet(c)
        PROVE  V!Tell(c)
    <3>1. row' = row /\ pc[c] = "final" /\ row[c] \in Verdict
      BY <2>4, <1>2 DEF FinalGet, QInv, WaiterInv
    <3> QED
      BY <2>4, <3>1, <2>2 DEF FinalGet
  <2>5. ASSUME NEW d \in Decider, Update(d)
        PROVE  \E c \in Call, verdict \in Verdict : V!Settle(c, verdict)
    <3>1. /\ job[d] \in Job /\ row[job[d].call] = "pending" /\ TypeOk
      BY <2>5, <1>2 DEF Update, QInv, DeciderInv
    <3>2. job[d].call \in Call /\ job[d].status \in Verdict
      BY <3>1 DEF Job
    <3>3. V!Settle(job[d].call, job[d].status)
      BY <2>5, <3>1 DEF TypeOk, Update, waitVars, V!Settle
    <3> QED
      BY <3>2, <3>3
  <2>6. \/ UNCHANGED <<row, answer>>
        \/ \E c \in Call : Insert(c) \/ Poll(c) \/ FinalGet(c)
        \/ \E d \in Decider : Update(d)
    <3>1. ASSUME NEW c \in Call, Stamp(c) \/ Wait(c) \/ Crash(c)
          PROVE  UNCHANGED <<row, answer>> \/ Insert(c) \/ Poll(c) \/ FinalGet(c)
      BY <3>1 DEF Stamp, Wait, Crash, ReadBack, SetDeadline, CheckDeadline, Sleep, WaitFails,
         AutoDeny, DecideCalled, waitVars
    <3>2. ASSUME NEW o \in Operator, OperatorPosts(o)
          PROVE  UNCHANGED <<row, answer>>
      BY <3>2 DEF OperatorPosts, DecideCalled, waitVars
    <3>3. ASSUME NEW d \in Decider, Decide(d)
          PROVE  UNCHANGED <<row, answer>> \/ Update(d)
      BY <3>3 DEF Decide, Begin, BeginFails, Select, DecideFails, Reread, RereadFails, waitVars
    <3> QED
      BY <1>2, <3>1, <3>2, <3>3 DEF Next, Tick, vars, waitVars
  <2> QED
    BY <2>1, <2>3, <2>4, <2>5, <2>6 DEF V!VerdictNext, V!verdictVars, V!Verdict, Verdict
<1> QED
  BY <1>1, <1>2, Invariance, PTL DEF Spec, ImplementsVerdict, V!VerdictSpec

-----------------------------------------------------------------------------
(***************************************************************************)
(* Silence denies: who is behind each verdict.                             *)
(***************************************************************************)
Requested(c, status) == \E o \in Operator : job[o] = [call |-> c, status |-> status]

\* An operator's request keeps its decision, so it can be pointed at for good.
RequestInv == \A o \in Operator : dpc[o] = "out" => job[o] = NoJob

\* A call denies itself only past its deadline, which is not set again then.
SilentInv(c) ==
  /\ pc[c] = "deny" => left[c] = 0
  /\ row[c] = "approved" => Requested(c, "approved")
  /\ row[c] = "denied" => (Timed(c) /\ left[c] = 0) \/ Requested(c, "denied")

SInv == RequestInv /\ \A c \in Call : SilentInv(c)

LEMMA RequestsStay ==
  ASSUME QInv, RequestInv, [Next]_vars
  PROVE  /\ RequestInv'
         /\ \A c \in Call, status \in Verdict : Requested(c, status) => Requested(c, status)'
<1>1. TypeOk /\ Call \intersect Operator = {} /\ Nobody \notin Call
  BY QueueAssumption DEF QInv
<1>2. \A o \in Operator : /\ dpc[o] = "out" => job[o] = NoJob
                          /\ o \in Decider /\ o \notin Call
  BY <1>1 DEF RequestInv, Decider
<1>3. \A o \in Operator : /\ job'[o] = job[o] \/ (dpc[o] = "out" /\ dpc'[o] = "begin")
                          /\ dpc'[o] = "out" => dpc[o] = "out" /\ job'[o] = job[o]
  <2>1. ASSUME NEW d \in Decider, NEW j \in Job, DecideCalled(d, j)
        PROVE  <1>3
    BY <1>1, <1>2, <2>1 DEF TypeOk, DecideCalled
  <2>2. ASSUME NEW c \in Call, Stamp(c) \/ Wait(c)
        PROVE  <1>3
    <3>1. CASE AutoDeny(c)
      BY <3>1, <2>1 DEF AutoDeny, AutoDenial, Job, Verdict, Decider
    <3>2. CASE ~AutoDeny(c)
      BY <2>2, <3>2 DEF Wait, Stamp, Insert, ReadBack, SetDeadline, CheckDeadline, Poll, Sleep,
         FinalGet, WaitFails, decideVars
    <3> QED
      BY <3>1, <3>2
  <2>3. ASSUME NEW d \in Decider, Decide(d)
        PROVE  <1>3
    BY <1>1, <1>2, <2>3 DEF TypeOk, Decide, DecideEnds, Begin, BeginFails, Select, Update,
       DecideFails, Reread, RereadFails
  <2>4. ASSUME NEW c \in Call, Crash(c)
        PROVE  <1>3
    BY <1>1, <1>2, <2>4 DEF TypeOk, Crash
  <2>5. ASSUME NEW o \in Operator, OperatorPosts(o)
        PROVE  <1>3
    BY <1>2, <2>1, <2>5 DEF OperatorPosts
  <2>6. CASE Tick \/ UNCHANGED vars
    BY <2>6 DEF Tick, vars, decideVars
  <2> QED
    BY <2>2, <2>3, <2>4, <2>5, <2>6 DEF Next
<1>4. RequestInv'
  BY <1>2, <1>3 DEF RequestInv
<1>5. ASSUME NEW c \in Call, NEW status \in Verdict, Requested(c, status)
      PROVE  Requested(c, status)'
  <2>1. PICK o \in Operator : job[o] = [call |-> c, status |-> status]
    BY <1>5 DEF Requested
  <2>2. job[o] # NoJob
    BY <1>1, <2>1 DEF NoJob
  <2> QED
    BY <1>2, <1>3, <2>1, <2>2 DEF Requested
<1> QED
  BY <1>4, <1>5

\* The row and the clock of c stay, or c is at a place that permits the change.
LEMMA SilentStays ==
  ASSUME QInv, RequestInv, [Next]_vars, NEW c \in Call, SilentInv(c),
         row'[c] \in Verdict => row'[c] = row[c],
         left'[c] = left[c] \/ left[c] # 0 \/ ~Timed(c),
         Timed(c) => Timed(c)',
         pc'[c] = "deny" => left'[c] = 0
  PROVE  SilentInv(c)'
BY RequestsStay DEF SilentInv, Verdict

LEMMA SilentKeeps == QInv /\ SInv /\ [Next]_vars => SInv'
<1> SUFFICES ASSUME QInv, SInv, [Next]_vars
             PROVE  SInv'
  OBVIOUS
<1>1. TypeOk /\ RequestInv /\ RequestInv' /\ \A c \in Call : c \in Decider
  BY RequestsStay DEF QInv, SInv, Decider
<1>2. SUFFICES ASSUME NEW c \in Call
               PROVE  SilentInv(c)'
  BY <1>1 DEF SInv
<1>3. SilentInv(c) /\ WaiterInv(c) /\ left[c] \in 0..Timeout
  BY <1>1 DEF SInv, QInv, TypeOk
<1>4. ASSUME NEW x \in Call, Stamp(x) \/ Insert(x) \/ ReadBack(x) \/ SetDeadline(x)
               \/ CheckDeadline(x) \/ Poll(x) \/ Sleep(x) \/ FinalGet(x) \/ WaitFails(x)
      PROVE  SilentInv(c)'
  <2>1. row'[c] \in Verdict => row'[c] = row[c]
    BY <1>1, <1>4 DEF TypeOk, Verdict, Stamp, Insert, ReadBack, SetDeadline, CheckDeadline, Poll,
       Sleep, FinalGet, WaitFails
  <2>2. left'[c] = left[c] \/ ~Timed(c)
    BY <1>1, <1>4 DEF TypeOk, Timed, Stamp, Insert, ReadBack, SetDeadline, CheckDeadline, Poll,
       Sleep, FinalGet, WaitFails, Goto
  <2>3. Timed(c) => Timed(c)'
    BY <1>1, <1>4 DEF TypeOk, Timed, Stamp, Insert, ReadBack, SetDeadline, CheckDeadline, Poll,
       Sleep, FinalGet, WaitFails, Goto, Return
  <2>4. pc'[c] = "deny" => left'[c] = 0
    <3>1. pc[c] = "deny" => Timed(c)
      BY DEF Timed
    <3>2. CASE pc[c] = "deny"
      BY <1>1, <1>3, <1>4, <2>2, <3>1, <3>2 DEF SilentInv
    <3>3. CASE pc[c] # "deny"
      <4>1. pc'[c] = "deny" => CheckDeadline(c)
        BY <1>1, <1>4, <3>3 DEF TypeOk, Stamp, Insert, ReadBack, SetDeadline, CheckDeadline, Poll,
           Sleep, FinalGet, WaitFails, Goto, Return
      <4>2. CheckDeadline(c) /\ pc'[c] = "deny" => left[c] = 0 /\ left' = left
        BY <1>1, <1>3, QueueAssumption DEF TypeOk, CheckDeadline, Goto
      <4> QED
        BY <4>1, <4>2
    <3> QED
      BY <3>2, <3>3
  <2> QED
    BY <1>1, <1>3, <2>1, <2>2, <2>3, <2>4, SilentStays
<1>5. ASSUME NEW d \in Decider, Update(d)
      PROVE  SilentInv(c)'
  <2>1. /\ job[d] \in Job /\ UNCHANGED <<left, pc, job>>
        /\ row' = [row EXCEPT ![job[d].call] =
                     IF @ = "pending" THEN job[d].status ELSE @]
    BY <1>5 DEF QInv, DeciderInv, Update, waitVars
  <2>2. CASE job[d].call # c
    BY <1>1, <1>3, <2>1, <2>2, SilentStays DEF SilentInv, TypeOk, Timed
  <2>3. CASE job[d].call = c /\ d \in Operator
    <3>1. job[d] = [call |-> c, status |-> job[d].status]
      BY <2>1, <2>3 DEF Job
    <3>2. Requested(c, job[d].status)'
      BY <2>1, <2>3, <3>1 DEF Requested
    <3>3. row'[c] = job[d].status \/ row'[c] = row[c]
      BY <1>1, <2>1, <2>3 DEF TypeOk
    <3>4. CASE row'[c] = row[c]
      BY <1>1, <1>3, <2>1, <3>4, SilentStays DEF SilentInv, Timed
    <3> QED
      BY <1>3, <2>1, <3>2, <3>3, <3>4 DEF SilentInv
  <2>4. CASE job[d].call = c /\ d \in Call
    <3>1. pc[d] = "deny" /\ job[d] = AutoDenial(d)
      BY <1>5, <2>4 DEF QInv, WaiterInv, Update
    <3>2. (d = c /\ row'[c] = "denied") \/ row'[c] = row[c]
      BY <1>1, <2>1, <2>4, <3>1 DEF TypeOk, AutoDenial
    <3>3. CASE row'[c] = row[c]
      BY <1>1, <1>3, <2>1, <3>3, SilentStays DEF SilentInv, Timed
    <3> QED
      BY <1>3, <2>1, <3>1, <3>2, <3>3 DEF SilentInv, Timed
  <2> QED
    BY <2>2, <2>3, <2>4 DEF Decider
<1>6. ASSUME UNCHANGED <<row, left>>, pc'[c] = pc[c] \/ pc'[c] \in {"final", "raised", "dead"}
      PROVE  SilentInv(c)'
  BY <1>1, <1>3, <1>6, SilentStays DEF SilentInv, Timed
<1>7. ASSUME NEW d \in Decider, Decide(d)
      PROVE  SilentInv(c)'
  <2>1. CASE ~Update(d)
    BY <1>1, <1>6, <1>7, <2>1 DEF TypeOk, Decide, DecideEnds, Begin, BeginFails, Select,
       DecideFails, Reread, RereadFails, waitVars
  <2> QED
    BY <1>5, <2>1
<1>8. ASSUME NEW x \in Call, AutoDeny(x) \/ Crash(x)
      PROVE  SilentInv(c)'
  BY <1>1, <1>6, <1>8 DEF TypeOk, AutoDeny, DecideCalled, Crash, waitVars
<1>9. CASE Tick
  <2>1. left'[c] = IF Timed(c) /\ left[c] > 0 THEN left[c] - 1 ELSE left[c]
    BY <1>9 DEF Tick
  <2>2. UNCHANGED <<row, pc>>
    BY <1>9 DEF Tick
  <2>3. left[c] = 0 => left'[c] = 0
    BY <2>1
  <2> QED
    BY <1>1, <1>3, <2>2, <2>3, SilentStays DEF SilentInv, Timed
<1>10. CASE UNCHANGED vars
  BY <1>6, <1>10 DEF vars, waitVars
<1>11. ASSUME NEW o \in Operator, OperatorPosts(o)
       PROVE  SilentInv(c)'
  BY <1>6, <1>11 DEF OperatorPosts, DecideCalled, waitVars
<1> QED
  BY <1>4, <1>7, <1>8, <1>9, <1>10, <1>11 DEF Next, Wait

\* Only an operator's approval approves a call, and before its deadline only an
\* operator's denial denies it, for any number of calls and operators and any
\* timeout.
THEOREM SilenceIsDenial == Spec => []SilenceDenies
<1>1. Init => SInv
  BY QueueAssumption DEF Init, SInv, RequestInv, SilentInv, Decider
<1>2. SInv => SilenceDenies
  BY DEF SInv, SilentInv, Requested, SilenceDenies
<1> QED
  BY Invariance, <1>1, <1>2, SilentKeeps, PTL DEF Spec

-----------------------------------------------------------------------------
(***************************************************************************)
(* The dashboard.                                                          *)
(***************************************************************************)
LEMMA DashboardStep ==
  ASSUME [DashboardNext]_allVars
  PROVE  [Next]_vars
<1>1. Call \subseteq Decider /\ Operator \subseteq Decider
  BY DEF Decider
<1>2. ASSUME NEW c \in Call, WaitStep(c) \/ CallStep(c)
      PROVE  Next
  BY <1>1, <1>2 DEF WaitStep, CallStep, Next
<1>3. ASSUME NEW o \in Operator, Post(o) \/ PostDecides(o)
      PROVE  [Next]_vars
  <2>1. PostDecides(o) => Decide(o)
    BY DEF PostDecides, PostSelects, PostUpdates, PostFails, Decide
  <2> QED
    BY <1>1, <1>3, <2>1 DEF Post, Next
<1>4. ASSUME NEW o \in Viewer, ReadVisible(o) \/ EndSummary(o)
      PROVE  UNCHANGED vars
  BY <1>4 DEF ReadVisible, EndSummary
<1>5. CASE TimePasses \/ UNCHANGED allVars
  BY <1>5 DEF TimePasses, allVars, Next
<1> QED
  BY <1>2, <1>3, <1>4, <1>5 DEF DashboardNext

\* Every behaviour of the dashboard is one of the queue: what is proved of the
\* queue holds with any pages and requests around it.
THEOREM DashboardRunsQueue == DashboardSpec => Spec
<1>1. DashboardInit => Init
  BY DEF DashboardInit
<1> QED
  BY <1>1, DashboardStep, PTL DEF DashboardSpec, Spec

-----------------------------------------------------------------------------
(***************************************************************************)
(* Where a request is in do_POST, told from where it is in decide().       *)
(***************************************************************************)
Response == {"none", "open", "decided", "ok", "conflict", "refused", "closed"}

HttpInv ==
  /\ http \in [Operator -> Response]
  /\ \A o \in Operator :
       /\ http[o] = "none" => dpc[o] = "out"
       /\ http[o] = "decided" => dpc[o] = "reread"

DInv == QInv /\ RequestInv /\ HttpInv

\* The steps that leave the deciders of the operators alone.
LEMMA OthersKeepHttp ==
  ASSUME DInv, http' = http, \A o \in Operator : dpc'[o] = dpc[o]
  PROVE  HttpInv'
BY DEF DInv, HttpInv

\* A step of the request o.
LEMMA RequestKeepsHttp ==
  ASSUME DInv, NEW o \in Operator, NEW response \in Response,
         http' = [http EXCEPT ![o] = response],
         \A x \in Operator \ {o} : dpc'[x] = dpc[x],
         response = "none" => dpc'[o] = "out",
         response = "decided" => dpc'[o] = "reread"
  PROVE  HttpInv'
BY DEF DInv, HttpInv

\* What do_POST does, and its response.
LEMMA PostStep ==
  ASSUME DInv, NEW o \in Operator, Post(o) \/ PostDecides(o)
  PROVE  /\ HttpInv'
         /\ \A x \in Operator \ {o} : http'[x] = http[x]
         /\ http'[o] # http[o] /\ job'[o] # NoJob =>
              LET verdict == row'[job'[o].call] IN
              /\ http'[o] = "ok" => verdict = job'[o].status
              /\ http'[o] = "conflict" => verdict \in Verdict \ {job'[o].status}
              /\ http'[o] \in {"conflict", "refused"} => http[o] # "decided"
<1>1. /\ TypeOk /\ RequestInv /\ HttpInv /\ DeciderInv(o)
      /\ Operator \subseteq Decider /\ o \notin Call
  BY QueueAssumption DEF DInv, QInv, Decider
<1>2. CASE OperatorPosts(o) /\ Responds(o, "open") /\ http[o] = "none"
  <2>1. PICK j \in Job : DecideCalled(o, j)
    BY <1>2 DEF OperatorPosts
  <2>2. dpc' = [dpc EXCEPT ![o] = "begin"] /\ http' = [http EXCEPT ![o] = "open"]
    BY <1>2, <2>1 DEF DecideCalled, Responds
  <2>3. HttpInv'
    BY <1>1, <2>2, RequestKeepsHttp DEF TypeOk, Response
  <2> QED
    BY <1>1, <2>2, <2>3 DEF HttpInv
<1>3. CASE Responds(o, "refused") /\ UNCHANGED vars /\ http[o] = "none"
  <2>1. http' = [http EXCEPT ![o] = "refused"] /\ UNCHANGED <<dpc, job>> /\ job[o] = NoJob
    BY <1>1, <1>3 DEF Responds, vars, decideVars, HttpInv, RequestInv
  <2>2. HttpInv'
    BY <2>1, RequestKeepsHttp DEF Response
  <2> QED
    BY <1>1, <2>1, <2>2 DEF HttpInv
<1>4. CASE Begin(o) /\ UNCHANGED dashboardVars
  <2>1. http' = http /\ dpc' = [dpc EXCEPT ![o] = "select"] /\ dpc[o] = "begin"
    BY <1>4 DEF Begin, dashboardVars
  <2>2. HttpInv'
    BY <1>1, <2>1 DEF HttpInv, TypeOk
  <2> QED
    BY <1>1, <2>1, <2>2 DEF HttpInv
<1>5. CASE PostSelects(o)
  <2>1. /\ Select(o) /\ dpc[o] = "select" /\ http[o] # "decided"
        /\ UNCHANGED <<row, job>> /\ \A x \in Operator \ {o} : dpc'[x] = dpc[x]
    BY <1>1, <1>5 DEF PostSelects, Select, HttpInv, TypeOk, DecideEnds
  <2>2. CASE dpc'[o] \notin {"done", "failed"}
    <3>1. http' = http /\ dpc'[o] \in {"update", "reread"}
      BY <1>1, <1>5, <2>1, <2>2 DEF PostSelects, Select, dashboardVars, TypeOk, DecideEnds
    <3>2. HttpInv'
      BY <1>1, <2>1, <3>1 DEF HttpInv
    <3> QED
      BY <1>1, <2>1, <3>1, <3>2 DEF HttpInv
  <2>3. CASE dpc'[o] = "done"
    <3>1. http' = [http EXCEPT ![o] = "conflict"]
      BY <1>5, <2>3 DEF PostSelects, Responds
    <3>2. row[job[o].call] \in Verdict \ {job[o].status}
      BY <1>1, <2>1, <2>3 DEF Select, DecideEnds, TypeOk
    <3>3. HttpInv'
      BY <2>1, <3>1, RequestKeepsHttp DEF Response
    <3> QED
      BY <1>1, <2>1, <3>1, <3>2, <3>3 DEF HttpInv
  <2>4. CASE dpc'[o] = "failed"
    <3>1. http' = [http EXCEPT ![o] = "refused"]
      BY <1>5, <2>4 DEF PostSelects, Responds
    <3>2. HttpInv'
      BY <2>1, <3>1, RequestKeepsHttp DEF Response
    <3> QED
      BY <1>1, <2>1, <3>1, <3>2 DEF HttpInv
  <2> QED
    BY <2>2, <2>3, <2>4
<1>6. CASE PostUpdates(o)
  <2>1. PICK response \in {"decided", "open"} : http' = [http EXCEPT ![o] = response]
    BY <1>6 DEF PostUpdates, Responds
  <2>2. dpc' = [dpc EXCEPT ![o] = "reread"]
    BY <1>6 DEF PostUpdates, Update
  <2>3. HttpInv'
    BY <1>1, <2>1, <2>2, RequestKeepsHttp DEF TypeOk, Response
  <2> QED
    BY <1>1, <2>1, <2>3 DEF HttpInv
<1>7. CASE PostFails(o)
  <2>1. /\ http' = [http EXCEPT ![o] = "closed"]
        /\ dpc' = [dpc EXCEPT ![o] = "failed"]
    BY <1>7 DEF PostFails, Responds, BeginFails, DecideFails, RereadFails, DecideEnds
  <2>2. HttpInv'
    BY <1>1, <2>1, RequestKeepsHttp DEF TypeOk, Response
  <2> QED
    BY <1>1, <2>1, <2>2 DEF HttpInv
<1>8. CASE Reread(o) /\ Responds(o, "ok")
  <2>1. /\ http' = [http EXCEPT ![o] = "ok"]
        /\ dpc' = [dpc EXCEPT ![o] = "done"] /\ dpc[o] = "reread"
        /\ UNCHANGED <<row, job>>
    BY <1>8 DEF Responds, Reread, DecideEnds
  <2>2. row[job[o].call] = job[o].status
    BY <1>1, <2>1 DEF DeciderInv
  <2>3. HttpInv'
    BY <1>1, <2>1, RequestKeepsHttp DEF TypeOk, Response
  <2> QED
    BY <1>1, <2>1, <2>2, <2>3 DEF HttpInv
<1> QED
  BY <1>2, <1>3, <1>4, <1>5, <1>6, <1>7, <1>8 DEF Post, PostDecides

LEMMA HttpKeeps == DInv /\ [DashboardNext]_allVars => DInv'
<1> SUFFICES ASSUME DInv, [DashboardNext]_allVars
             PROVE  DInv'
  OBVIOUS
<1>1. TypeOk /\ Call \intersect Operator = {} /\ Viewer \subseteq Operator
  BY QueueAssumption, ViewerAssumption DEF DInv, QInv
<1>2. QInv' /\ RequestInv'
  BY DashboardStep, StepKeeps, RequestsStay DEF DInv
<1>3. ASSUME NEW c \in Call, WaitStep(c) \/ CallStep(c)
      PROVE  HttpInv'
  <2>1. http' = http
    BY <1>3 DEF WaitStep, CallStep, dashboardVars
  <2>2. \A o \in Operator : dpc'[o] = dpc[o]
    BY <1>1, <1>3 DEF WaitStep, CallStep, TypeOk, Wait, Decide, Stamp, Crash, Insert, ReadBack,
       SetDeadline, CheckDeadline, Poll, Sleep, FinalGet, WaitFails, AutoDeny, DecideCalled,
       Begin, BeginFails, Select, Update, DecideFails, Reread, RereadFails, DecideEnds,
       decideVars, Decider
  <2> QED
    BY <2>1, <2>2, OthersKeepHttp
<1>4. ASSUME NEW o \in Operator, Post(o) \/ PostDecides(o)
      PROVE  HttpInv'
  BY <1>4, PostStep
<1>5. ASSUME NEW o \in Viewer, ReadVisible(o) \/ EndSummary(o)
      PROVE  HttpInv'
  <2>1. PICK response \in {"open", "none"} :
          /\ http' = [http EXCEPT ![o] = response]
          /\ response = "none" => dpc[o] = "out"
    BY <1>5 DEF ReadVisible, EndSummary, Reading
  <2>2. dpc' = dpc
    BY <1>5 DEF ReadVisible, EndSummary, vars, decideVars
  <2> QED
    BY <1>1, <2>1, <2>2, RequestKeepsHttp DEF Response
<1>6. CASE TimePasses \/ UNCHANGED allVars
  <2>1. http' = http /\ dpc' = dpc
    BY <1>6 DEF TimePasses, Tick, allVars, vars, decideVars, dashboardVars
  <2> QED
    BY <1>2, <2>1, OthersKeepHttp DEF DInv
<1> QED
  BY <1>2, <1>3, <1>4, <1>5, <1>6 DEF DashboardNext, DInv

LEMMA HttpInvariance == DashboardSpec => []DInv
<1>1. DashboardInit => DInv
  BY InitQInv DEF DashboardInit, DInv, HttpInv, RequestInv, Response, Init, Decider
<1> QED
  BY <1>1, HttpKeeps, PTL DEF DashboardSpec

-----------------------------------------------------------------------------
(***************************************************************************)
(* The theorems.                                                           *)
(***************************************************************************)

\* A response of 200 or 409 says what is in the table, and no refusal hides a
\* decision of its own request, whatever the other requests and calls do.
THEOREM ResponsesAreTrue == DashboardSpec => StatusIsTrue
<1>1. ASSUME DInv, [DashboardNext]_allVars
      PROVE  [StatusStep]_allVars
  <2>1. CASE \E o \in Operator : Post(o) \/ PostDecides(o)
    <3>1. PICK o \in Operator : Post(o) \/ PostDecides(o)
      BY <2>1
    <3> QED
      BY <1>1, <3>1, PostStep DEF StatusStep
  <2>2. CASE ~ \E o \in Operator : Post(o) \/ PostDecides(o)
    <3>1. \A o \in Operator : http'[o] = http[o] \/ http'[o] \in {"open", "none"}
      BY <1>1, <2>2 DEF DashboardNext, WaitStep, CallStep, TimePasses, ReadVisible, EndSummary,
         allVars, dashboardVars, DInv, HttpInv
    <3> QED
      BY <3>1 DEF StatusStep
  <2> QED
    BY <2>1, <2>2
<1> QED
  BY <1>1, HttpInvariance, PTL DEF DashboardSpec, StatusIsTrue

LEMMA PostLeavesPage ==
  ASSUME NEW o \in Operator, Post(o) \/ PostDecides(o)
  PROVE  page' = page
<1>1. PostSelects(o) => page' = page
  <2>1. CASE dpc'[o] = "done"
    BY <2>1 DEF PostSelects, Responds
  <2>2. CASE dpc'[o] = "failed"
    BY <2>2 DEF PostSelects, Responds
  <2>3. CASE dpc'[o] \notin {"done", "failed"}
    BY <2>3 DEF PostSelects, dashboardVars
  <2> QED
    BY <2>1, <2>2, <2>3
<1> QED
  BY <1>1 DEF Post, PostDecides, PostUpdates, PostFails, Responds, dashboardVars

-----------------------------------------------------------------------------
(***************************************************************************)
(* The two reads of a summary.  A row that was there at the first is there *)
(* at the second, pending still or decided for good; so the rows pending   *)
(* at the second are the hidden ones that still are, the visible ones that *)
(* were not decided, and those posted since.                               *)
(***************************************************************************)
\* No row is ever taken out of the table.
LEMMA RowsStay ==
  ASSUME QInv, [Next]_vars, NEW c \in Call, row[c] # "absent"
  PROVE  row'[c] # "absent"
<1>1. ASSUME NEW x \in Call, Insert(x)
      PROVE  row'[c] # "absent"
  BY <1>1 DEF QInv, TypeOk, Insert
<1>2. ASSUME NEW d \in Decider, Update(d)
      PROVE  row'[c] # "absent"
  <2>1. job[d].status \in Verdict
    BY <1>2 DEF QInv, DeciderInv, Update, Job
  <2> QED
    BY <1>2, <2>1 DEF QInv, TypeOk, Update, Verdict
<1>3. \/ row' = row
      \/ \E x \in Call : Insert(x)
      \/ \E d \in Decider : Update(d)
  <2>1. ASSUME NEW x \in Call, Stamp(x) \/ Wait(x) \/ Crash(x)
        PROVE  row' = row \/ Insert(x)
    BY <2>1 DEF Stamp, Wait, Crash, ReadBack, SetDeadline, CheckDeadline, Poll, Sleep, FinalGet,
       WaitFails, AutoDeny, DecideCalled
  <2>2. ASSUME NEW o \in Operator, OperatorPosts(o)
        PROVE  row' = row
    BY <2>2 DEF OperatorPosts, DecideCalled
  <2>3. ASSUME NEW d \in Decider, Decide(d)
        PROVE  row' = row \/ Update(d)
    BY <2>3 DEF Decide, Begin, BeginFails, Select, DecideFails, Reread, RereadFails
  <2> QED
    BY <2>1, <2>2, <2>3 DEF Next, Tick, vars
<1> QED
  BY <1>1, <1>2, <1>3

\* What a page has read was in the table.
PageInv ==
  /\ page \in [Viewer -> [held : SUBSET Call, visible : SUBSET Call]]
  /\ \A o \in Viewer :
       /\ page[o].visible \subseteq page[o].held
       /\ \A c \in page[o].held : row[c] # "absent"

LEMMA PageKeeps ==
  ASSUME QInv, PageInv, [DashboardNext]_allVars
  PROVE  PageInv'
<1>1. \A c \in Call : row[c] # "absent" => row'[c] # "absent"
  BY DashboardStep, RowsStay
<1>2. CASE page' = page
  BY <1>1, <1>2 DEF PageInv
<1>3. ASSUME NEW o \in Viewer, ReadVisible(o)
      PROVE  PageInv'
  <2>1. PICK visible \in SUBSET Pending :
          page' = [page EXCEPT ![o] = [held |-> Pending, visible |-> visible]]
    BY <1>3 DEF ReadVisible
  <2>2. Pending \subseteq Call /\ \A c \in Pending : row[c] # "absent"
    BY DEF Pending
  <2> QED
    BY <1>1, <2>1, <2>2 DEF PageInv
<1>4. ASSUME NEW o \in Viewer, EndSummary(o)
      PROVE  PageInv'
  BY <1>1, <1>4 DEF EndSummary, NoPage, PageInv
<1>5. page' = page \/ \E o \in Viewer : ReadVisible(o) \/ EndSummary(o)
  BY PostLeavesPage DEF DashboardNext, WaitStep, CallStep, TimePasses, allVars, dashboardVars
<1> QED
  BY <1>2, <1>3, <1>4, <1>5

\* The sizes of the parts that two sets make of each other.
LEMMA Parts ==
  ASSUME NEW seen, NEW now, IsFiniteSet(seen), IsFiniteSet(now)
  PROVE  /\ Cardinality(seen) = Cardinality(seen \ now) + Cardinality(seen \intersect now)
         /\ Cardinality(now) = Cardinality(now \ seen) + Cardinality(seen \intersect now)
         /\ Cardinality(seen) \in Nat /\ Cardinality(now) \in Nat
         /\ Cardinality(seen \ now) \in Nat /\ Cardinality(now \ seen) \in Nat
         /\ Cardinality(seen \intersect now) \in Nat
<1> DEFINE both == seen \intersect now
<1>1. both = now \intersect seen
  OBVIOUS
<1>2. /\ IsFiniteSet(seen \ now)
      /\ Cardinality(seen \ now) = Cardinality(seen) - Cardinality(both)
  BY FS_Difference
<1>3. /\ IsFiniteSet(now \ seen)
      /\ Cardinality(now \ seen) = Cardinality(now) - Cardinality(now \intersect seen)
  BY FS_Difference
<1>4. IsFiniteSet(both)
  BY FS_Intersection
<1> DEFINE n == Cardinality(seen)
           m == Cardinality(now)
           b == Cardinality(both)
           p == Cardinality(seen \ now)
           q == Cardinality(now \ seen)
<1>5. n \in Nat /\ m \in Nat /\ b \in Nat /\ p \in Nat /\ q \in Nat
  BY <1>2, <1>3, <1>4, FS_CardinalityType
<1>6. p = n - b /\ q = m - b
  BY <1>1, <1>2, <1>3
<1>7. n = p + b /\ m = q + b
  <2> HIDE DEF n, m, b, p, q
  <2> QED
    BY <1>5, <1>6
<1> QED
  BY <1>5, <1>7

\* A summary counts the calls that the window hides: it misses at most as many
\* as were decided between its reads, and adds at most those posted between
\* them, whatever the window, the operators and the deadlines do.
THEOREM HiddenCallsCounted == DashboardSpec => []HiddenIsCounted
<1>1. DashboardInit => PageInv
  BY DEF DashboardInit, NoPage, PageInv
<1>2. QInv /\ PageInv => HiddenIsCounted
  <2> SUFFICES ASSUME QInv, PageInv, NEW o \in Viewer
               PROVE  LET hidden == (page[o].held \ page[o].visible) \intersect Pending
                          decided == {c \in page[o].visible : row[c] \in Verdict}
                          posted == Pending \ page[o].held IN
                      /\ Cardinality(hidden) <= Hidden(o) + Cardinality(decided)
                      /\ Hidden(o) <= Cardinality(hidden) + Cardinality(posted)
    BY DEF HiddenIsCounted
  <2> DEFINE seen == page[o].visible
             first == page[o].held
             now == Pending
             hidden == (first \ seen) \intersect now
             posted == now \ first
  <2>1. /\ seen \subseteq first /\ first \subseteq Call /\ now \subseteq Call
        /\ \A c \in seen : row[c] \in {"pending"} \union Verdict
        /\ \A c \in Call : c \in now <=> row[c] = "pending"
    BY DEF PageInv, Pending, QInv, TypeOk
  <2>2. {c \in seen : row[c] \in Verdict} = seen \ now
    BY <2>1 DEF Verdict
  <2>3. Hidden(o) = IF Cardinality(now) > Cardinality(seen) THEN Cardinality(now) - Cardinality(seen) ELSE 0
    BY DEF Hidden
  <2> HIDE DEF seen, first, now
  <2>4. IsFiniteSet(seen) /\ IsFiniteSet(now) /\ IsFiniteSet(hidden) /\ IsFiniteSet(posted)
    BY <2>1, ViewerAssumption, FS_Subset
  <2>5. now \ seen = hidden \union posted /\ hidden \intersect posted = {}
    BY <2>1
  <2>6. Cardinality(now \ seen) = Cardinality(hidden) + Cardinality(posted)
    <3> HIDE DEF hidden, posted
    <3>1. Cardinality(hidden \intersect posted) = 0
      BY <2>5, FS_EmptySet
    <3>2. /\ Cardinality(hidden) \in Nat /\ Cardinality(posted) \in Nat
      BY <2>4, FS_CardinalityType
    <3>3. Cardinality(now \ seen) = Cardinality(hidden) + Cardinality(posted)
                                  - Cardinality(hidden \intersect posted)
      BY <2>4, <2>5, FS_Union
    <3> QED
      BY <3>1, <3>2, <3>3
  <2>7. Cardinality(hidden) \in Nat /\ Cardinality(posted) \in Nat
    BY <2>4, FS_CardinalityType
  <2>8. /\ Cardinality(seen) = Cardinality(seen \ now) + Cardinality(seen \intersect now)
        /\ Cardinality(now) = Cardinality(now \ seen) + Cardinality(seen \intersect now)
        /\ Cardinality(seen) \in Nat /\ Cardinality(now) \in Nat
        /\ Cardinality(seen \ now) \in Nat /\ Cardinality(now \ seen) \in Nat
        /\ Cardinality(seen \intersect now) \in Nat
    BY <2>4, Parts
  <2> HIDE DEF hidden, posted
  <2>9. /\ Cardinality(hidden) <= Hidden(o) + Cardinality(seen \ now)
        /\ Hidden(o) <= Cardinality(hidden) + Cardinality(posted)
    BY <2>3, <2>6, <2>7, <2>8
  <2> QED
    BY <2>2, <2>9 DEF hidden, posted, first, seen, now
<1> QED
  BY <1>1, <1>2, PageKeeps, Invariance, DashboardRunsQueue, PTL DEF DashboardSpec
=============================================================================
