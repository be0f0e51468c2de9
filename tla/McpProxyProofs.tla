--------------------------- MODULE McpProxyProofs ---------------------------
(***************************************************************************)
(* The proxy keeps its tables exact and its promise to the client, for     *)
(* every set of messages, every use of ids and every server.               *)
(***************************************************************************)
EXTENDS McpProxy, TLAPS

-----------------------------------------------------------------------------
(***************************************************************************)
(* The inductive invariant                                                 *)
(***************************************************************************)
\* The server has not read m and never will.
NeverRead(m) == line[m] = "none" \/ (broken /\ line[m] # "read")

TaskInv(m) ==
  /\ pc[m] \in {"unread", "gate"} => internal[m] = 0
  /\ pc[m] \in {"unread", "gate", "writing"} => line[m] = "none"
  /\ pc[m] = "draining" => line[m] \in {"buffered", "dropped"}
  /\ pc[m] = "waiting" => HasId(m)
  /\ HasId(m) /\ pc[m] \in Forwarding <=> internal[m] \in DOMAIN pending
  /\ internal[m] \in DOMAIN pending /\ pending[internal[m]].state = "answered" =>
       pending[internal[m]].of = m /\ line[m] = "read"

AnswerInv(m) ==
  /\ answers[m] = <<>> <=> ~(HasId(m) /\ pc[m] = "done")
  /\ answers[m] # <<>> =>
       \E kind \in AnswerKind : /\ answers[m] = <<[kind |-> kind, of |-> m]>>
                                /\ kind \in Refusal => NeverRead(m)

\* Two messages never have the same internal id, and every future is of one.
InternalInv ==
  /\ \A m, k \in Message : m # k /\ internal[m] = internal[k] => internal[m] = 0
  /\ \A n \in DOMAIN pending : \E m \in Message : internal[m] = n

ClaimInv ==
  /\ \A m \in Message : InFlight(m) /\ HasId(m) => ClientId[m] \in claimed
  /\ \A i \in claimed : \E m \in Message : InFlight(m) /\ ClientId[m] = i
  /\ \A m, k \in Message :
       m # k /\ InFlight(m) /\ InFlight(k) /\ HasId(m) => ClientId[m] # ClientId[k]

PInv ==
  /\ TypeOk
  /\ \A m \in Message : TaskInv(m) /\ AnswerInv(m)
  /\ InternalInv
  /\ ClaimInv
  /\ escaped = {}

LEMMA InitPInv == Init => PInv
<1> SUFFICES ASSUME Init
             PROVE  PInv
  OBVIOUS
<1>1. DOMAIN pending = {}
  BY DEF Init
<1>2. TypeOk
  <2>1. 0..sequence = {0}
    BY DEF Init
  <2>2. answers \in [Message -> Seq([kind : AnswerKind, of : Message])]
    BY DEF Init
  <2> QED
    BY <1>1, <2>1, <2>2 DEF Init, TypeOk, Forwarding
<1>3. \A m \in Message : TaskInv(m)
  BY <1>1 DEF Init, TaskInv, Forwarding
<1>4. \A m \in Message : AnswerInv(m)
  BY DEF Init, AnswerInv
<1>5. InternalInv
  BY <1>1 DEF Init, InternalInv
<1>6. ClaimInv
  BY DEF Init, ClaimInv, InFlight, Forwarding
<1> QED
  BY <1>2, <1>3, <1>4, <1>5, <1>6 DEF PInv, Init

\* The first answer to m.
FirstAnswer(m, kind) ==
  /\ HasId(m)
  /\ kind \in AnswerKind
  /\ kind \in Refusal => NeverRead(m)
  /\ answers' = [answers EXCEPT ![m] = <<[kind |-> kind, of |-> m]>>]

\* Tell answers a message that has not been answered, or does nothing.
LEMMA TellAnswers ==
  ASSUME PInv, NEW m \in Message, NEW kind \in AnswerKind,
         pc[m] # "done", Tell(m, kind, m),
         kind \in Refusal => NeverRead(m)
  PROVE  FirstAnswer(m, kind) \/ (~HasId(m) /\ answers' = answers)
<1>1. answers[m] = <<>>
  BY DEF PInv, AnswerInv
<1>2. Append(<<>>, [kind |-> kind, of |-> m]) = <<[kind |-> kind, of |-> m]>>
  OBVIOUS
<1> QED
  BY <1>1, <1>2 DEF Tell, FirstAnswer

\* What the tasks other than m have does not change.
LEMMA OthersKeep ==
  ASSUME PInv, NEW m \in Message, NEW k \in Message \ {m},
         pc'[k] = pc[k], line'[k] = line[k], answers'[k] = answers[k],
         internal'[k] = internal[k], broken' = broken,
         internal[k] # 0 =>
           /\ internal[k] \in DOMAIN pending <=> internal[k] \in DOMAIN pending'
           /\ internal[k] \in DOMAIN pending => pending'[internal[k]] = pending[internal[k]],
         0 \notin DOMAIN pending'
  PROVE  (TaskInv(k) /\ AnswerInv(k))'
<1>1. 0 \notin DOMAIN pending
  BY DEF PInv, TypeOk
<1>2. TaskInv(k) /\ AnswerInv(k)
  BY DEF PInv
<1>3. TaskInv(k)'
  BY <1>1, <1>2 DEF TaskInv, HasId
<1>4. AnswerInv(k)'
  BY <1>2 DEF AnswerInv, HasId, NeverRead
<1> QED
  BY <1>3, <1>4

-----------------------------------------------------------------------------
(***************************************************************************)
(* A task ends                                                             *)
(***************************************************************************)
LEMMA LeaveKeeps ==
  ASSUME PInv, NEW m \in Message, NEW end \in {"done", "raised"},
         InFlight(m), Leave(m, end), sequence' \in {sequence, sequence + 1},
         UNCHANGED <<mode, internal, line, failure, closed, serverVars, escaped>>,
         writer' \in Message \union {Nobody},
         \/ /\ answers' = answers
            /\ HasId(m) => end = "raised"
         \/ end = "done" /\ \E kind \in AnswerKind : FirstAnswer(m, kind)
  PROVE  PInv'
<1>1. TypeOk /\ TaskInv(m) /\ AnswerInv(m) /\ InternalInv /\ ClaimInv
  BY DEF PInv
<1>2. UNCHANGED <<internal, line, broken, exited, eof, escaped>>
  BY DEF serverVars
<1>3. /\ DOMAIN pending' = DOMAIN pending \ {internal[m]}
      /\ \A n \in DOMAIN pending' : pending'[n] = pending[n]
  BY DEF Leave
<1>4. answers' \in [Message -> Seq([kind : AnswerKind, of : Message])]
  <2>1. ASSUME NEW kind \in AnswerKind, FirstAnswer(m, kind)
        PROVE  answers' \in [Message -> Seq([kind : AnswerKind, of : Message])]
    <3>1. <<[kind |-> kind, of |-> m]>> \in Seq([kind : AnswerKind, of : Message])
      OBVIOUS
    <3> QED
      BY <1>1, <2>1, <3>1 DEF TypeOk, FirstAnswer
  <2> QED
    BY <1>1, <2>1 DEF TypeOk
<1>5. pc' = [pc EXCEPT ![m] = end] /\ claimed' = claimed \ {ClientId[m]}
  BY DEF Leave
<1>6. TypeOk'
  <2>1. sequence' \in Nat /\ 1..sequence \subseteq 1..sequence' /\ 0..sequence \subseteq 0..sequence'
    BY <1>1 DEF TypeOk
  <2>2. /\ internal' \in [Message -> 0..sequence'] /\ escaped' \subseteq 1..sequence'
        /\ DOMAIN pending' \subseteq 1..sequence'
    BY <1>1, <1>2, <1>3, <2>1 DEF TypeOk
  <2> QED
    BY <1>1, <1>2, <1>3, <1>4, <1>5, <2>1, <2>2 DEF TypeOk
<1>7. ASSUME NEW k \in Message \ {m}
      PROVE  (TaskInv(k) /\ AnswerInv(k))'
  <2>1. pc'[k] = pc[k] /\ answers'[k] = answers[k]
    BY <1>1, <1>5 DEF TypeOk, FirstAnswer
  <2>2. internal[k] # 0 => internal[k] # internal[m]
    BY <1>1 DEF InternalInv
  <2>3. 0 \notin DOMAIN pending'
    BY <1>6 DEF TypeOk
  <2> QED
    BY <2>1, <2>2, <2>3, <1>2, <1>3, OthersKeep
<1>8. TaskInv(m)'
  BY <1>1, <1>2, <1>3, <1>5 DEF TypeOk, TaskInv, Forwarding, HasId
<1>9. AnswerInv(m)'
  <2>1. pc[m] # "done" /\ answers[m] = <<>>
    BY <1>1 DEF InFlight, Forwarding, AnswerInv
  <2>2. pc'[m] = end
    BY <1>1, <1>5 DEF TypeOk
  <2>3. CASE answers' = answers /\ (HasId(m) => end = "raised")
    BY <2>1, <2>2, <2>3 DEF AnswerInv, HasId
  <2>4. CASE end = "done" /\ \E kind \in AnswerKind : FirstAnswer(m, kind)
    <3>1. PICK kind \in AnswerKind : FirstAnswer(m, kind)
      BY <2>4
    <3>2. answers'[m] = <<[kind |-> kind, of |-> m]>> /\ answers'[m] # <<>>
      BY <1>1, <3>1 DEF TypeOk, FirstAnswer
    <3>3. HasId(m)' /\ (kind \in Refusal => NeverRead(m)')
      BY <1>2, <3>1 DEF FirstAnswer, HasId, NeverRead
    <3> QED
      BY <2>2, <2>4, <3>2, <3>3 DEF AnswerInv
  <2> QED
    BY <2>3, <2>4
<1>10. InternalInv'
  BY <1>1, <1>2, <1>3 DEF InternalInv
<1>11. ClaimInv'
  <2>1. \A k \in Message \ {m} : InFlight(k)' <=> InFlight(k)
    BY <1>1, <1>5 DEF TypeOk, InFlight
  <2>2. ~InFlight(m)'
    BY <1>1, <1>5 DEF TypeOk, InFlight, Forwarding
  <2>3. \A k \in Message : HasId(k)' <=> HasId(k)
    BY DEF HasId
  <2>4. \A i \in claimed : i # NoId
    BY <1>1, MessageAssumption DEF TypeOk
  <2> QED
    BY <1>1, <1>5, <2>1, <2>2, <2>3, <2>4 DEF ClaimInv, HasId
<1> QED
  BY <1>2, <1>6, <1>7, <1>8, <1>9, <1>10, <1>11 DEF PInv

LEMMA ConcludeKeeps ==
  ASSUME PInv, NEW m \in Message, NEW kind \in AnswerKind,
         InFlight(m), Conclude(m, kind, m), sequence' \in {sequence, sequence + 1},
         UNCHANGED <<mode, internal, line, failure, closed, serverVars, escaped>>,
         writer' \in Message \union {Nobody},
         kind \in Refusal => NeverRead(m)
  PROVE  PInv'
<1>1. PICK told \in Outcome(m, kind) : Tell(m, told, m)
  BY DEF Conclude
<1>2. told \in AnswerKind /\ (told \in Refusal => NeverRead(m))
  BY DEF Outcome, AnswerKind, Refusal
<1>3. FirstAnswer(m, told) \/ (~HasId(m) /\ answers' = answers)
  BY <1>1, <1>2, TellAnswers DEF InFlight, Forwarding
<1> QED
  BY <1>2, <1>3, LeaveKeeps DEF Conclude

-----------------------------------------------------------------------------
(***************************************************************************)
(* A task begins                                                           *)
(***************************************************************************)
\* The message is answered on arrival and touches no table.
LEMMA RefuseKeeps ==
  ASSUME PInv, NEW m \in Message, NEW kind \in AnswerKind,
         pc[m] = "unread", pc' = [pc EXCEPT ![m] = "done"],
         Tell(m, kind, m),
         UNCHANGED <<mode, claimed, forwardVars, writeVars, failure, closed, serverVars, escaped>>
  PROVE  PInv'
<1>1. TypeOk /\ TaskInv(m) /\ AnswerInv(m) /\ InternalInv /\ ClaimInv
  BY DEF PInv
<1>2. UNCHANGED <<mode, claimed, sequence, internal, pending, writer, line, failure, closed,
                  broken, exited, eof, escaped>>
  BY DEF forwardVars, writeVars, serverVars
<1>3. FirstAnswer(m, kind) \/ (~HasId(m) /\ answers' = answers)
  BY <1>1, TellAnswers DEF TaskInv, NeverRead
<1>4. <<[kind |-> kind, of |-> m]>> \in Seq([kind : AnswerKind, of : Message])
  OBVIOUS
<1>5. TypeOk'
  BY <1>1, <1>2, <1>3, <1>4 DEF TypeOk, FirstAnswer
<1>6. ASSUME NEW k \in Message \ {m}
      PROVE  (TaskInv(k) /\ AnswerInv(k))'
  <2>1. pc'[k] = pc[k] /\ answers'[k] = answers[k]
    BY <1>1, <1>3 DEF TypeOk, FirstAnswer
  <2> QED
    BY <2>1, <1>1, <1>2, OthersKeep DEF TypeOk
<1>7. TaskInv(m)'
  BY <1>1, <1>2 DEF TypeOk, TaskInv, Forwarding, HasId
<1>8. AnswerInv(m)'
  <2>1. pc'[m] = "done" /\ answers[m] = <<>>
    BY <1>1 DEF TypeOk, AnswerInv
  <2>2. HasId(m)' = HasId(m) /\ (kind \in Refusal => NeverRead(m)')
    BY <1>1, <1>2 DEF HasId, NeverRead, TaskInv
  <2>3. CASE FirstAnswer(m, kind)
    <3>1. answers'[m] = <<[kind |-> kind, of |-> m]>> /\ answers'[m] # <<>>
      BY <1>1, <2>3 DEF TypeOk, FirstAnswer
    <3> QED
      BY <2>1, <2>2, <2>3, <3>1 DEF AnswerInv, FirstAnswer
  <2>4. CASE ~HasId(m) /\ answers' = answers
    BY <2>1, <2>2, <2>4 DEF AnswerInv
  <2> QED
    BY <1>3, <2>3, <2>4
<1>9. InternalInv'
  BY <1>1, <1>2 DEF InternalInv
<1>10. ClaimInv'
  <2>1. \A k \in Message : InFlight(k)' <=> InFlight(k)
    BY <1>1 DEF TypeOk, InFlight, Forwarding
  <2> QED
    BY <1>1, <1>2, <2>1 DEF ClaimInv, HasId
<1> QED
  BY <1>1, <1>2, <1>5, <1>6, <1>7, <1>8, <1>9, <1>10 DEF PInv

LEMMA ClaimKeeps ==
  ASSUME PInv, NEW m \in Message, pc[m] = "unread", ~Duplicate(m), Claim(m),
         InFlight(m)', \A k \in Message \ {m} : pc'[k] = pc[k]
  PROVE  ClaimInv'
<1>1. ClaimInv /\ ~InFlight(m)
  BY DEF PInv, InFlight, Forwarding
<1>2. \A k \in Message \ {m} : InFlight(k)' <=> InFlight(k)
  BY DEF InFlight
<1>3. \A k \in Message : HasId(k)' <=> HasId(k)
  BY DEF HasId
<1> QED
  BY <1>1, <1>2, <1>3 DEF ClaimInv, Claim, Duplicate, HasId

\* A tools/call enters the gate.
LEMMA ReceiveCallKeeps ==
  ASSUME PInv, NEW m \in Message, ReceiveCall(m)
  PROVE  PInv'
<1>1. TypeOk /\ TaskInv(m) /\ AnswerInv(m) /\ InternalInv
  BY DEF PInv
<1>2. pc[m] = "unread" /\ pc' = [pc EXCEPT ![m] = "gate"] /\ Claim(m) /\ ~Duplicate(m)
  BY DEF ReceiveCall, Arrives
<1>3. UNCHANGED <<mode, answers, sequence, internal, pending, writer, line, failure, closed,
                  broken, exited, eof, escaped>>
  BY DEF ReceiveCall, forwardVars, writeVars, serverVars
<1>4. claimed' \subseteq Id
  BY <1>1, <1>2, MessageAssumption DEF TypeOk, Claim, HasId
<1>5. TypeOk'
  BY <1>1, <1>2, <1>3, <1>4 DEF TypeOk
<1>6. \A k \in Message \ {m} : pc'[k] = pc[k]
  BY <1>1, <1>2 DEF TypeOk
<1>7. \A k \in Message \ {m} : (TaskInv(k) /\ AnswerInv(k))'
  BY <1>1, <1>3, <1>6, OthersKeep DEF TypeOk
<1>8. (TaskInv(m) /\ AnswerInv(m))'
  BY <1>1, <1>2, <1>3 DEF TypeOk, TaskInv, AnswerInv, Forwarding, HasId
<1>9. ClaimInv'
  BY <1>1, <1>2, <1>6, ClaimKeeps DEF TypeOk, InFlight
<1> QED
  BY <1>1, <1>3, <1>5, <1>7, <1>8, <1>9 DEF PInv, InternalInv

\* A message is given its internal id and goes to the write.
LEMMA RegisterKeeps ==
  ASSUME PInv, NEW m \in Message, pc[m] \in {"unread", "gate"}, Register(m),
         claimed' \subseteq Id, ClaimInv',
         UNCHANGED <<mode, answers, writeVars, failure, closed, serverVars, escaped>>
  PROVE  PInv'
<1>1. TypeOk /\ TaskInv(m) /\ AnswerInv(m) /\ InternalInv
  BY DEF PInv
<1>2. UNCHANGED <<mode, answers, writer, line, failure, closed, broken, exited, eof, escaped>>
  BY DEF writeVars, serverVars
<1>3. pc' = [pc EXCEPT ![m] = "writing"]
  BY DEF Register
<1>4. internal[m] = 0 /\ line[m] = "none" /\ answers[m] = <<>>
  BY <1>1 DEF TaskInv, AnswerInv
<1>5. CASE HasId(m)
  <2>1. /\ sequence' = sequence + 1
        /\ internal' = [internal EXCEPT ![m] = sequence + 1]
        /\ DOMAIN pending' = DOMAIN pending \union {sequence + 1}
        /\ pending'[sequence + 1] = Open
        /\ \A n \in DOMAIN pending : n # sequence + 1 => pending'[n] = pending[n]
    BY <1>5 DEF Register
  <2>2. /\ sequence + 1 \notin DOMAIN pending
        /\ \A k \in Message : internal[k] # sequence + 1 /\ internal[k] \in 0..(sequence + 1)
    BY <1>1 DEF TypeOk
  <2>3. Open \in Future /\ Open.state = "open"
    BY DEF Open, Future
  <2>4. TypeOk'
    <3>1. DOMAIN pending' \subseteq 1..sequence'
      BY <1>1, <2>1 DEF TypeOk
    <3>2. \A n \in DOMAIN pending' : pending'[n] \in Future
      BY <1>1, <2>1, <2>2, <2>3 DEF TypeOk
    <3>3. /\ internal' \in [Message -> 0..sequence']
          /\ sequence' \in Nat
          /\ escaped' \subseteq 1..sequence'
      BY <1>1, <1>2, <2>1, <2>2 DEF TypeOk
    <3>4. pc' \in [Message -> Forwarding \union {"unread", "gate", "done", "raised", "cancelled"}]
      BY <1>1, <1>3 DEF TypeOk, Forwarding
    <3> QED
      BY <1>1, <1>2, <3>1, <3>2, <3>3, <3>4 DEF TypeOk
  <2>5. ASSUME NEW k \in Message \ {m}
        PROVE  (TaskInv(k) /\ AnswerInv(k))'
    <3>1. pc'[k] = pc[k] /\ internal'[k] = internal[k]
      BY <1>1, <1>3, <2>1 DEF TypeOk
    <3>2. 0 \notin DOMAIN pending'
      BY <2>4 DEF TypeOk
    <3> QED
      BY <1>2, <2>1, <2>2, <3>1, <3>2, OthersKeep
  <2>6. TaskInv(m)'
    BY <1>1, <1>2, <1>3, <1>4, <1>5, <2>1, <2>2, <2>3 DEF TypeOk, TaskInv, Forwarding, HasId
  <2>7. AnswerInv(m)'
    BY <1>1, <1>2, <1>3, <1>4 DEF TypeOk, AnswerInv
  <2>8. InternalInv'
    <3>1. internal'[m] = sequence + 1 /\ \A k \in Message \ {m} : internal'[k] = internal[k]
      BY <1>1, <2>1 DEF TypeOk
    <3>2. ASSUME NEW n \in DOMAIN pending'
          PROVE  \E k \in Message : internal'[k] = n
      <4>1. CASE n = sequence + 1
        BY <3>1, <4>1
      <4>2. CASE n # sequence + 1
        <5>1. n \in DOMAIN pending /\ n # 0
          BY <1>1, <2>1, <4>2 DEF TypeOk
        <5>2. PICK k \in Message : internal[k] = n
          BY <1>1, <5>1 DEF InternalInv
        <5> QED
          BY <1>4, <3>1, <5>1, <5>2
      <4> QED
        BY <4>1, <4>2
    <3> QED
      BY <1>1, <2>2, <3>1, <3>2 DEF InternalInv
  <2> QED
    BY <1>1, <1>2, <2>4, <2>5, <2>6, <2>7, <2>8 DEF PInv
<1>6. CASE ~HasId(m)
  <2>1. UNCHANGED <<sequence, internal, pending>>
    BY <1>6 DEF Register, forwardVars
  <2>2. TypeOk'
    BY <1>1, <1>2, <1>3, <2>1 DEF TypeOk, Forwarding
  <2>3. ASSUME NEW k \in Message \ {m}
        PROVE  (TaskInv(k) /\ AnswerInv(k))'
    BY <1>1, <1>2, <1>3, <2>1, OthersKeep DEF TypeOk
  <2>4. (TaskInv(m) /\ AnswerInv(m))'
    BY <1>1, <1>2, <1>3, <1>4, <1>6, <2>1 DEF TypeOk, TaskInv, AnswerInv, Forwarding, HasId
  <2> QED
    BY <1>1, <1>2, <2>1, <2>2, <2>3, <2>4 DEF PInv, InternalInv
<1> QED
  BY <1>5, <1>6

\* A message that cannot be encoded leaves nothing but a spent number.
LEMMA MisencodesKeeps ==
  ASSUME PInv, NEW m \in Message, pc[m] = "unread", Misencodes(m),
         pc' = [pc EXCEPT ![m] = "raised"],
         UNCHANGED <<mode, claimed, pending, answers, writeVars, failure, closed, serverVars,
                     escaped>>
  PROVE  PInv'
<1>1. TypeOk /\ TaskInv(m) /\ AnswerInv(m) /\ InternalInv /\ ClaimInv
  BY DEF PInv
<1>2. UNCHANGED <<mode, claimed, internal, pending, answers, writer, line, failure, closed,
                  broken, exited, eof, escaped>>
  BY DEF Misencodes, writeVars, serverVars
<1>3. sequence' \in Nat /\ 1..sequence \subseteq 1..sequence' /\ 0..sequence \subseteq 0..sequence'
  BY <1>1 DEF TypeOk, Misencodes
<1>4. TypeOk'
  BY <1>1, <1>2, <1>3 DEF TypeOk
<1>5. \A k \in Message \ {m} : (TaskInv(k) /\ AnswerInv(k))'
  BY <1>1, <1>2, OthersKeep DEF TypeOk
<1>6. (TaskInv(m) /\ AnswerInv(m))'
  BY <1>1, <1>2 DEF TypeOk, TaskInv, AnswerInv, Forwarding, HasId
<1>7. \A k \in Message : (InFlight(k)' <=> InFlight(k)) /\ (HasId(k)' <=> HasId(k))
  BY <1>1 DEF TypeOk, InFlight, Forwarding, HasId
<1>8. ClaimInv' /\ InternalInv'
  BY <1>1, <1>2, <1>7 DEF ClaimInv, InternalInv
<1> QED
  BY <1>1, <1>2, <1>4, <1>5, <1>6, <1>8 DEF PInv

LEMMA ReceiveOtherKeeps ==
  ASSUME PInv, NEW m \in Message, ReceiveOther(m)
  PROVE  PInv'
<1>1. pc[m] = "unread" /\ ~Duplicate(m) /\ TypeOk
  BY DEF ReceiveOther, Arrives, PInv
<1>2. UNCHANGED <<mode, writeVars, failure, closed, serverVars, escaped>>
  BY DEF ReceiveOther
<1>3. CASE failure
  <2>1. "unavailable" \in AnswerKind
    BY DEF AnswerKind
  <2>2. pc' = [pc EXCEPT ![m] = "done"] /\ Tell(m, "unavailable", m)
        /\ UNCHANGED <<claimed, forwardVars>>
    BY <1>3 DEF ReceiveOther
  <2> QED
    BY <1>1, <1>2, <2>1, <2>2, RefuseKeeps
<1>4. CASE /\ Misencodes(m) /\ pc' = [pc EXCEPT ![m] = "raised"]
           /\ UNCHANGED <<claimed, pending, answers>>
  BY <1>1, <1>2, <1>4, MisencodesKeeps
<1>5. CASE Claim(m) /\ Register(m) /\ UNCHANGED answers
  <2>1. Claim(m) /\ Register(m) /\ UNCHANGED answers
    BY <1>5
  <2>2. claimed' \subseteq Id
    BY <1>1, <2>1, MessageAssumption DEF TypeOk, Claim, HasId
  <2>3. InFlight(m)' /\ \A k \in Message \ {m} : pc'[k] = pc[k]
    BY <1>1, <2>1 DEF TypeOk, Register, InFlight, Forwarding
  <2>4. ClaimInv'
    BY <1>1, <2>1, <2>3, ClaimKeeps
  <2> QED
    BY <1>1, <1>2, <2>1, <2>2, <2>4, RegisterKeeps
<1> QED
  BY <1>3, <1>4, <1>5 DEF ReceiveOther

LEMMA GateKeeps ==
  ASSUME PInv, NEW m \in Message, GateDecides(m)
  PROVE  PInv'
<1>1. TypeOk /\ TaskInv(m) /\ pc[m] = "gate" /\ InFlight(m)
  BY DEF PInv, GateDecides, GateRefuses, GateAdmits, InFlight
<1>2. NeverRead(m)
  BY <1>1 DEF TaskInv, NeverRead
<1>3. CASE GateRefuses(m)
  <2>1. PICK kind \in {"policy_error", "not_executed"} : Tell(m, kind, m)
    BY <1>3 DEF GateRefuses
  <2>2. kind \in AnswerKind
    BY DEF AnswerKind, Refusal
  <2>3. FirstAnswer(m, kind) \/ (~HasId(m) /\ answers' = answers)
    BY <1>1, <1>2, <2>1, <2>2, TellAnswers
  <2>4. /\ Leave(m, "done")
        /\ UNCHANGED <<mode, sequence, internal, line, failure, closed, serverVars, escaped>>
        /\ writer' \in Message \union {Nobody}
    BY <1>1, <1>3 DEF GateRefuses, writeVars, TypeOk
  <2> QED
    BY <1>1, <2>2, <2>3, <2>4, LeaveKeeps
<1>4. CASE GateAdmits(m) /\ failure
  <2>1. "unavailable" \in AnswerKind
    BY DEF AnswerKind
  <2>2. /\ Conclude(m, "unavailable", m)
        /\ UNCHANGED <<mode, sequence, internal, line, failure, closed, serverVars, escaped>>
        /\ writer' \in Message \union {Nobody}
    BY <1>1, <1>4 DEF GateAdmits, writeVars, TypeOk
  <2> QED
    BY <1>1, <1>2, <2>1, <2>2, ConcludeKeeps
<1>5. CASE GateAdmits(m) /\ Misencodes(m) /\ Conclude(m, "not_executed", m)
  <2>1. "not_executed" \in AnswerKind
    BY DEF AnswerKind, Refusal
  <2>2. /\ sequence' = sequence + 1
        /\ UNCHANGED <<mode, internal, line, failure, closed, serverVars, escaped>>
        /\ writer' \in Message \union {Nobody}
    BY <1>1, <1>5 DEF GateAdmits, Misencodes, writeVars, TypeOk
  <2> QED
    BY <1>1, <1>2, <1>5, <2>1, <2>2, ConcludeKeeps
<1>6. CASE GateAdmits(m) /\ Register(m) /\ UNCHANGED <<claimed, answers>>
  <2>1. Register(m) /\ UNCHANGED <<claimed, answers>>
        /\ UNCHANGED <<mode, writeVars, failure, closed, serverVars, escaped>>
    BY <1>6 DEF GateAdmits
  <2>2. \A k \in Message : (InFlight(k)' <=> InFlight(k)) /\ (HasId(k)' <=> HasId(k))
    BY <1>1, <2>1 DEF TypeOk, Register, InFlight, Forwarding, HasId
  <2>3. ClaimInv'
    BY <2>1, <2>2 DEF PInv, ClaimInv
  <2> QED
    BY <1>1, <2>1, <2>3, RegisterKeeps DEF TypeOk
<1> QED
  BY <1>3, <1>4, <1>5, <1>6 DEF GateDecides, GateAdmits

-----------------------------------------------------------------------------
(***************************************************************************)
(* A task writes, waits and is told                                        *)
(***************************************************************************)
\* m moves from one place of the forwarding to another.
LEMMA MoveKeeps ==
  ASSUME PInv, NEW m \in Message, NEW to \in Forwarding \ {"writing"},
         pc[m] \in Forwarding, pc' = [pc EXCEPT ![m] = to],
         UNCHANGED <<mode, claimed, answers, forwardVars, serverVars, escaped>>,
         failure' \in BOOLEAN, closed' \in BOOLEAN, writer' \in Message \union {Nobody},
         line' \in [Message -> {"none", "buffered", "dropped", "read"}],
         \A k \in Message \ {m} : line'[k] = line[k],
         line'[m] = line[m] \/ line[m] = "none",
         to = "waiting" => HasId(m),
         to = "draining" => line'[m] \in {"buffered", "dropped"}
  PROVE  PInv'
<1>1. TypeOk /\ TaskInv(m) /\ AnswerInv(m) /\ InternalInv /\ ClaimInv
  BY DEF PInv
<1>2. UNCHANGED <<mode, claimed, answers, sequence, internal, pending, broken, exited, eof,
                  escaped>>
  BY DEF forwardVars, serverVars
<1>3. TypeOk'
  BY <1>1, <1>2 DEF TypeOk
<1>4. ASSUME NEW k \in Message \ {m}
      PROVE  (TaskInv(k) /\ AnswerInv(k))'
  BY <1>1, <1>2, OthersKeep DEF TypeOk
<1>5. pc'[m] = to
  BY <1>1 DEF TypeOk
<1>6. TaskInv(m)'
  BY <1>1, <1>2, <1>5 DEF TaskInv, Forwarding, HasId
<1>7. AnswerInv(m)'
  BY <1>1, <1>2, <1>5 DEF AnswerInv, Forwarding, HasId
<1>8. \A k \in Message : (InFlight(k)' <=> InFlight(k)) /\ (HasId(k)' <=> HasId(k))
  BY <1>1 DEF TypeOk, InFlight, HasId
<1>9. ClaimInv' /\ InternalInv'
  BY <1>1, <1>2, <1>8 DEF ClaimInv, InternalInv
<1> QED
  BY <1>1, <1>2, <1>3, <1>4, <1>6, <1>7, <1>9 DEF PInv

LEMMA WriteKeeps ==
  ASSUME PInv, NEW m \in Message,
         Write(m) \/ WriteTimesOut(m) \/ AbortBegins(m) \/ (Drained(m) /\ HasId(m))
  PROVE  PInv'
<1>1. TypeOk /\ TaskInv(m)
  BY DEF PInv
<1>2. CASE Write(m)
  BY <1>1, <1>2, MoveKeeps DEF TypeOk, TaskInv, Write, Forwarding
<1>3. CASE WriteTimesOut(m)
  BY <1>1, <1>3, MoveKeeps DEF TypeOk, WriteTimesOut, Forwarding
<1>4. CASE AbortBegins(m)
  BY <1>1, <1>4, MoveKeeps DEF TypeOk, AbortBegins, Forwarding, writeVars
<1>5. CASE Drained(m) /\ HasId(m)
  BY <1>1, <1>5, MoveKeeps DEF TypeOk, Drained, Forwarding, forwardVars
<1> QED
  BY <1>2, <1>3, <1>4, <1>5

LEMMA DrainKeeps ==
  ASSUME PInv, NEW m \in Message, Drained(m) \/ DrainFails(m)
  PROVE  PInv'
<1>1. TypeOk /\ TaskInv(m) /\ pc[m] = "draining" /\ InFlight(m)
  BY DEF PInv, Drained, DrainFails, InFlight, Forwarding
<1>2. /\ UNCHANGED <<mode, sequence, internal, line, failure, closed, serverVars, escaped>>
      /\ writer' \in Message \union {Nobody}
  BY DEF Drained, DrainFails
<1>3. CASE Drained(m) /\ HasId(m)
  BY <1>3, WriteKeeps
<1>4. CASE Drained(m) /\ ~HasId(m)
  <2>1. Conclude(m, "result", m)
    BY <1>4 DEF Drained
  <2>2. "result" \in AnswerKind /\ "result" \notin Refusal
    BY DEF AnswerKind, Refusal
  <2> QED
    BY <1>1, <1>2, <2>1, <2>2, ConcludeKeeps
<1>5. CASE DrainFails(m) /\ m \in Calls
  <2>1. Conclude(m, "not_executed", m) /\ NeverRead(m)
    BY <1>1, <1>5 DEF DrainFails, TaskInv, NeverRead
  <2>2. "not_executed" \in AnswerKind
    BY DEF AnswerKind, Refusal
  <2> QED
    BY <1>1, <1>2, <2>1, <2>2, ConcludeKeeps
<1>6. CASE DrainFails(m) /\ m \notin Calls
  <2>1. Leave(m, "raised") /\ answers' = answers
    BY <1>6 DEF DrainFails
  <2> QED
    BY <1>1, <1>2, <2>1, LeaveKeeps
<1> QED
  BY <1>3, <1>4, <1>5, <1>6

LEMMA WaitKeeps ==
  ASSUME PInv, NEW m \in Message, Wait(m) \/ AbortEnds(m)
  PROVE  PInv'
<1>1. TypeOk /\ TaskInv(m) /\ InFlight(m)
  BY DEF PInv, Wait, GetsResponse, GetsUnavailable, WaitTimesOut, AbortEnds, InFlight,
     Forwarding
<1>2. /\ UNCHANGED <<mode, sequence, internal, line, failure, closed, serverVars, escaped>>
      /\ writer' \in Message \union {Nobody}
  BY <1>1 DEF Wait, GetsResponse, GetsUnavailable, WaitTimesOut, AbortEnds, writeVars, TypeOk
<1>3. {"result", "unavailable", "timeout"} \subseteq AnswerKind \ Refusal
  BY DEF AnswerKind, Refusal
<1>4. ASSUME GetsResponse(m)
      PROVE  Conclude(m, "result", m) \/ (Leave(m, "raised") /\ answers' = answers)
  BY <1>1, <1>4 DEF GetsResponse, TaskInv, Forwarding
<1>5. \/ Leave(m, "raised") /\ answers' = answers
      \/ \E kind \in {"result", "unavailable", "timeout"} : Conclude(m, kind, m)
  BY <1>4 DEF Wait, GetsUnavailable, WaitTimesOut, AbortEnds
<1>6. CASE Leave(m, "raised") /\ answers' = answers
  BY <1>1, <1>2, <1>6, LeaveKeeps
<1>7. CASE \E kind \in {"result", "unavailable", "timeout"} : Conclude(m, kind, m)
  BY <1>1, <1>2, <1>3, <1>7, ConcludeKeeps
<1> QED
  BY <1>5, <1>6, <1>7

-----------------------------------------------------------------------------
(***************************************************************************)
(* The server, its reader and run()                                        *)
(***************************************************************************)
\* A step that changes futures, lines and flags, but no task.
LEMMA ServerKeeps ==
  ASSUME PInv, UNCHANGED <<taskVars, sequence, internal, escaped>>, TypeOk',
         DOMAIN pending' = DOMAIN pending,
         broken => broken',
         \A m \in Message :
           /\ line'[m] # line[m] => line[m] = "buffered" /\ pc[m] # "draining" /\ ~broken
           /\ line[m] = "read" => line'[m] = "read"
           /\ internal[m] \in DOMAIN pending /\ pending'[internal[m]].state = "answered" =>
                \/ pending'[internal[m]] = pending[internal[m]]
                \/ pending'[internal[m]] = Answered(m) /\ line[m] = "read"
  PROVE  PInv'
<1>1. InternalInv /\ ClaimInv /\ escaped = {}
  BY DEF PInv
<1>2. UNCHANGED <<pc, claimed, answers, sequence, internal, escaped>>
  BY DEF taskVars
<1>3. ASSUME NEW m \in Message
      PROVE  (TaskInv(m) /\ AnswerInv(m))'
  <2>1. TaskInv(m) /\ AnswerInv(m)
    BY DEF PInv
  <2>2. HasId(m)' <=> HasId(m)
    BY DEF HasId
  <2>3. NeverRead(m) => NeverRead(m)'
    BY DEF NeverRead
  <2>4. TaskInv(m)'
    <3>1. line[m] \in {"none", "dropped"} \/ pc[m] = "draining" => line'[m] = line[m]
      OBVIOUS
    <3>2. ASSUME internal[m] \in DOMAIN pending, pending'[internal[m]].state = "answered"
          PROVE  pending'[internal[m]].of = m /\ line'[m] = "read"
      <4>1. CASE pending'[internal[m]] = pending[internal[m]]
        BY <2>1, <3>2, <4>1 DEF TaskInv
      <4>2. CASE pending'[internal[m]] = Answered(m) /\ line[m] = "read"
        BY <4>2 DEF Answered
      <4> QED
        BY <3>2, <4>1, <4>2
    <3> QED
      BY <1>2, <2>1, <2>2, <3>1, <3>2 DEF TaskInv
  <2>5. AnswerInv(m)'
    BY <1>2, <2>1, <2>2, <2>3 DEF AnswerInv
  <2> QED
    BY <2>4, <2>5
<1>4. ClaimInv' /\ InternalInv'
  BY <1>1, <1>2 DEF ClaimInv, InternalInv, InFlight, HasId
<1> QED
  BY <1>1, <1>2, <1>3, <1>4 DEF PInv

LEMMA ServerStepKeeps ==
  ASSUME PInv,
         \/ \E m \in Message : ReadResponse(m) \/ ServerReads(m)
         \/ ReaderEnds \/ PipeBreaks \/ Exit \/ ClientCloses \/ Stop
  PROVE  PInv'
<1>1. TypeOk
  BY DEF PInv
<1>2. ASSUME NEW m \in Message, ReadResponse(m)
      PROVE  PInv'
  <2>1. Answered(m) \in Future
    BY DEF Answered, Future
  <2>2. /\ UNCHANGED <<mode, pc, claimed, answers, sequence, internal, writer, line, failure,
                       closed, broken, exited, eof, escaped>>
        /\ line[m] = "read"
    BY <1>2 DEF ReadResponse, taskVars, writeVars, serverVars
  <2>3. /\ DOMAIN pending' = DOMAIN pending
        /\ \A n \in DOMAIN pending :
             pending'[n] = pending[n] \/ (n = internal[m] /\ pending'[n] = Answered(m))
    BY <1>2 DEF ReadResponse, Awaited
  <2>4. TypeOk'
    BY <1>1, <2>1, <2>2, <2>3 DEF TypeOk
  <2>5. \A k \in Message : internal[k] \in DOMAIN pending /\ k # m => internal[k] # internal[m]
    BY <1>1 DEF PInv, InternalInv, TypeOk
  <2> QED
    BY <2>2, <2>3, <2>4, <2>5, ServerKeeps DEF taskVars
<1>3. ASSUME NEW m \in Message, ServerReads(m)
      PROVE  PInv'
  <2>1. UNCHANGED <<mode, taskVars, sequence, internal, pending, writer, failure, closed,
                    broken, exited, eof, escaped>>
    BY <1>3 DEF ServerReads, forwardVars, serverVars
  <2>2. TypeOk'
    BY <1>1, <1>3, <2>1 DEF TypeOk, ServerReads, taskVars
  <2> QED
    BY <1>1, <1>3, <2>1, <2>2, ServerKeeps DEF ServerReads, TypeOk
<1>4. CASE ReaderEnds
  <2>1. /\ UNCHANGED <<mode, taskVars, sequence, internal, line, writer, failure, closed,
                       broken, exited, escaped>>
        /\ eof' = TRUE
    BY <1>4 DEF ReaderEnds, writeVars
  <2>2. /\ DOMAIN pending' = DOMAIN pending
        /\ \A n \in DOMAIN pending : pending'[n] = pending[n] \/ pending'[n] = Unavailable
    BY <1>4 DEF ReaderEnds
  <2>3. Unavailable \in Future /\ Unavailable.state # "answered"
    BY DEF Unavailable, Future
  <2>4. TypeOk'
    BY <1>1, <2>1, <2>2, <2>3 DEF TypeOk, taskVars
  <2> QED
    BY <2>1, <2>2, <2>3, <2>4, ServerKeeps
<1>5. CASE PipeBreaks \/ Exit \/ ClientCloses \/ Stop
  <2>1. /\ UNCHANGED <<taskVars, forwardVars, writeVars, failure, escaped>>
        /\ broken => broken'
    BY <1>5 DEF PipeBreaks, Exit, ClientCloses, Stop, serverVars
  <2>2. TypeOk'
    BY <1>1, <1>5 DEF TypeOk, PipeBreaks, Exit, ClientCloses, Stop, taskVars, forwardVars,
       writeVars, serverVars
  <2> QED
    BY <2>1, <2>2, ServerKeeps DEF forwardVars, writeVars
<1> QED
  BY <1>2, <1>3, <1>4, <1>5

LEMMA ReturnKeeps ==
  ASSUME PInv, Return
  PROVE  PInv'
<1>1. TypeOk /\ InternalInv
  BY DEF PInv
<1>2. /\ mode' = "returned" /\ claimed' = {} /\ pending' = <<>> /\ writer' = Nobody
      /\ pc' = [m \in Message |-> IF InFlight(m) THEN "cancelled" ELSE pc[m]]
      /\ UNCHANGED <<answers, sequence, internal, line, failure, closed, broken, exited, eof,
                     escaped>>
  BY DEF Return, serverVars
<1>3. DOMAIN pending' = {}
  BY <1>2
<1>4. \A m \in Message : pc'[m] = "cancelled" \/ (pc'[m] = pc[m] /\ ~InFlight(m))
  BY <1>2
<1>5. TypeOk'
  BY <1>1, <1>2, <1>3 DEF TypeOk
<1>6. ASSUME NEW m \in Message
      PROVE  (TaskInv(m) /\ AnswerInv(m))' /\ ~InFlight(m)'
  <2>1. TaskInv(m) /\ AnswerInv(m)
    BY DEF PInv
  <2>2. ~InFlight(m)'
    BY <1>4 DEF InFlight, Forwarding
  <2>3. TaskInv(m)'
    BY <1>2, <1>3, <1>4, <2>1 DEF TaskInv, InFlight, Forwarding, HasId
  <2>4. AnswerInv(m)'
    BY <1>2, <1>4, <2>1 DEF AnswerInv, InFlight, Forwarding, HasId, NeverRead
  <2> QED
    BY <2>2, <2>3, <2>4
<1>7. InternalInv' /\ ClaimInv'
  BY <1>1, <1>2, <1>3, <1>6 DEF InternalInv, ClaimInv
<1> QED
  BY <1>2, <1>5, <1>6, <1>7 DEF PInv

LEMMA RejectKeeps ==
  ASSUME PInv, NEW m \in Message, Reject(m) \/ RejectDuplicate(m)
  PROVE  PInv'
<1>1. {"invalid", "duplicate"} \subseteq AnswerKind
  BY DEF AnswerKind, Refusal
<1>2. PICK kind \in {"invalid", "duplicate"} : Tell(m, kind, m)
  BY DEF Reject, RejectDuplicate
<1>3. /\ pc[m] = "unread" /\ pc' = [pc EXCEPT ![m] = "done"]
      /\ UNCHANGED <<mode, claimed, forwardVars, writeVars, failure, closed, serverVars, escaped>>
  BY DEF Reject, RejectDuplicate, Arrives
<1> QED
  BY <1>1, <1>2, <1>3, RefuseKeeps

LEMMA StepKeeps == PInv /\ [Next]_vars => PInv'
<1> SUFFICES ASSUME PInv, [Next]_vars
             PROVE  PInv'
  OBVIOUS
<1>1. ASSUME NEW m \in Message, Receive(m)
      PROVE  PInv'
  BY <1>1, RejectKeeps, ReceiveCallKeeps, ReceiveOtherKeeps DEF Receive
<1>2. ASSUME NEW m \in Message,
             Write(m) \/ Drained(m) \/ DrainFails(m) \/ WriteTimesOut(m) \/ Abort(m) \/ Wait(m)
      PROVE  PInv'
  BY <1>2, WriteKeeps, DrainKeeps, WaitKeeps DEF Abort
<1>3. CASE UNCHANGED vars
  <2>1. UNCHANGED <<mode, pc, claimed, answers, sequence, internal, pending, writer, line,
                    failure, closed, broken, exited, eof, escaped>>
    BY <1>3 DEF vars, taskVars, forwardVars, writeVars, serverVars
  <2>2. TypeOk'
    BY <2>1 DEF PInv, TypeOk
  <2> QED
    BY <2>1, <2>2, ServerKeeps DEF taskVars
<1> QED
  BY <1>1, <1>2, <1>3, GateKeeps, ServerStepKeeps, ReturnKeeps DEF Next

LEMMA Invariance == Spec => []PInv
BY InitPInv, StepKeeps, PTL DEF Spec

-----------------------------------------------------------------------------
(***************************************************************************)
(* The theorems                                                            *)
(***************************************************************************)
\* Every variable of the proxy keeps its type.
THEOREM ProxyTypeCorrect == Spec => []TypeOk
<1>1. PInv => TypeOk
  BY DEF PInv
<1> QED
  BY Invariance, <1>1, PTL

\* _client_pending and pending hold exactly what is in flight: no id of the
\* client is claimed twice or kept after its task, no future is left, and no internal id
\* is shown.
THEOREM TablesAreExact == Spec => []TablesExact
<1>1. ASSUME PInv
      PROVE  TablesExact
  <2>1. TypeOk /\ InternalInv /\ ClaimInv /\ \A m \in Message : TaskInv(m)
    BY <1>1 DEF PInv
  <2>2. \A i \in claimed : i # NoId
    BY <2>1, MessageAssumption DEF TypeOk
  <2>3. claimed = {ClientId[m] : m \in {k \in Message : InFlight(k) /\ HasId(k)}}
    <3>1. \A i \in claimed :
            \E m \in {k \in Message : InFlight(k) /\ HasId(k)} : ClientId[m] = i
      BY <2>1, <2>2 DEF ClaimInv, HasId
    <3>2. \A m \in {k \in Message : InFlight(k) /\ HasId(k)} : ClientId[m] \in claimed
      BY <2>1 DEF ClaimInv
    <3> QED
      BY <3>1, <3>2
  <2>4. DOMAIN pending =
          {internal[m] : m \in {k \in Message : pc[k] \in Forwarding /\ HasId(k)}}
    <3>1. \A n \in DOMAIN pending :
            \E m \in {k \in Message : pc[k] \in Forwarding /\ HasId(k)} : internal[m] = n
      BY <2>1 DEF InternalInv, TaskInv
    <3>2. \A m \in {k \in Message : pc[k] \in Forwarding /\ HasId(k)} :
            internal[m] \in DOMAIN pending
      BY <2>1 DEF TaskInv
    <3> QED
      BY <3>1, <3>2
  <2> QED
    BY <1>1, <2>1, <2>3, <2>4 DEF TablesExact, ClaimInv, PInv
<1> QED
  BY Invariance, <1>1, PTL

\* A task that ends of itself has answered its message exactly once.
THEOREM OneAnswerEach == Spec => []AnsweredOnce
<1>1. ASSUME PInv, NEW m \in Message
      PROVE  Len(answers[m]) = IF HasId(m) /\ pc[m] = "done" THEN 1 ELSE 0
  <2>1. AnswerInv(m)
    BY <1>1 DEF PInv
  <2>2. Len(<<>>) = 0 /\ \A x : Len(<<x>>) = 1
    OBVIOUS
  <2> QED
    BY <2>1, <2>2 DEF AnswerInv
<1>2. PInv => AnsweredOnce
  BY <1>1 DEF AnsweredOnce
<1> QED
  BY Invariance, <1>2, PTL

-----------------------------------------------------------------------------
(***************************************************************************)
(* The refinement: which steps answer, which let the server read           *)
(***************************************************************************)
LEMMA TellStep ==
  ASSUME PInv, NEW m \in Message, NEW kind \in AnswerKind,
         pc[m] # "done", Tell(m, kind, m), line' = line,
         kind \in Refusal => NeverRead(m),
         kind = "result" /\ HasId(m) => line[m] = "read"
  PROVE  Ex!ExchangeNext \/ UNCHANGED <<line, answers>>
<1>1. answers[m] = <<>>
  BY DEF PInv, AnswerInv
<1>2. FirstAnswer(m, kind) \/ (~HasId(m) /\ answers' = answers)
  BY TellAnswers
<1>3. CASE FirstAnswer(m, kind)
  <2>1. kind \in Ex!Refusal => line[m] # "read"
    BY <1>3 DEF FirstAnswer, NeverRead, Refusal, Ex!Refusal
  <2>2. Ex!Answer(m, kind)
    BY <1>1, <1>3, <2>1 DEF FirstAnswer, Ex!Answer
  <2>3. kind \in Ex!AnswerKind
    BY DEF AnswerKind, Refusal, Ex!AnswerKind, Ex!Refusal
  <2> QED
    BY <2>2, <2>3 DEF Ex!ExchangeNext
<1> QED
  BY <1>2, <1>3

LEMMA ConcludeStep ==
  ASSUME PInv, NEW m \in Message, NEW kind \in AnswerKind,
         InFlight(m), Conclude(m, kind, m), line' = line,
         kind \in Refusal => NeverRead(m),
         kind = "result" /\ HasId(m) => line[m] = "read"
  PROVE  Ex!ExchangeNext \/ UNCHANGED <<line, answers>>
<1>1. PICK told \in Outcome(m, kind) : Tell(m, told, m)
  BY DEF Conclude
<1>2. /\ told \in AnswerKind
      /\ told \in Refusal => NeverRead(m)
      /\ told = "result" /\ HasId(m) => line[m] = "read"
  BY DEF Outcome, AnswerKind, Refusal
<1> QED
  BY <1>1, <1>2, TellStep DEF InFlight, Forwarding

LEMMA ServerReadsStep ==
  ASSUME PInv, NEW m \in Message, ServerReads(m)
  PROVE  Ex!ExchangeNext
<1>1. TypeOk /\ AnswerInv(m)
  BY DEF PInv
<1>2. line[m] = "buffered" /\ ~broken /\ line' = [line EXCEPT ![m] = "read"] /\ answers' = answers
  BY DEF ServerReads, taskVars
<1>3. ~Ex!Refused(m)
  <2>1. CASE answers[m] = <<>>
    BY <2>1 DEF Ex!Refused
  <2>2. CASE answers[m] # <<>>
    <3>1. PICK kind \in AnswerKind : /\ answers[m] = <<[kind |-> kind, of |-> m]>>
                                     /\ kind \in Refusal => NeverRead(m)
      BY <1>1, <2>2 DEF AnswerInv
    <3>2. Head(answers[m]).kind = kind /\ kind \notin Refusal
      BY <1>2, <3>1 DEF NeverRead
    <3> QED
      BY <3>2 DEF Ex!Refused, Ex!Refusal, Refusal
  <2> QED
    BY <2>1, <2>2
<1>4. {k \in Message : line'[k] = "read"} = {k \in Message : line[k] = "read"} \union {m}
  BY <1>1, <1>2 DEF TypeOk
<1>5. Ex!Execute(m)
  BY <1>2, <1>3, <1>4 DEF Ex!Execute
<1> QED
  BY <1>5 DEF Ex!ExchangeNext

\* What arrives, is refused by the gate, or ends after the gate.
LEMMA ReplyStep ==
  ASSUME PInv, NEW m \in Message,
         Receive(m) \/ GateDecides(m) \/ Drained(m) \/ DrainFails(m) \/ Wait(m) \/ AbortEnds(m)
  PROVE  Ex!ExchangeNext \/ UNCHANGED <<line, answers>>
<1>1. TaskInv(m)
  BY DEF PInv
<1>2. line' = line
  BY DEF Receive, Reject, RejectDuplicate, ReceiveCall, ReceiveOther, GateDecides, GateRefuses,
     GateAdmits, Drained, DrainFails, Wait, GetsResponse, GetsUnavailable, WaitTimesOut,
     AbortEnds, writeVars
<1>3. /\ Refusal \subseteq AnswerKind
      /\ {"unavailable", "timeout", "result"} \subseteq AnswerKind \ Refusal
      /\ {"invalid", "duplicate", "policy_error", "not_executed"} \subseteq Refusal
  BY DEF AnswerKind, Refusal
<1>4. CASE Receive(m)
  <2>1. pc[m] = "unread" /\ NeverRead(m)
    BY <1>1, <1>4 DEF Receive, Reject, RejectDuplicate, ReceiveCall, ReceiveOther, Arrives,
       TaskInv, NeverRead
  <2>2. \/ answers' = answers
        \/ \E kind \in {"invalid", "duplicate", "unavailable"} : Tell(m, kind, m)
    BY <1>4 DEF Receive, Reject, RejectDuplicate, ReceiveCall, ReceiveOther
  <2> QED
    BY <1>2, <1>3, <2>1, <2>2, TellStep
<1>5. CASE GateDecides(m)
  <2>1. pc[m] = "gate" /\ NeverRead(m) /\ InFlight(m)
    BY <1>1, <1>5 DEF GateDecides, GateRefuses, GateAdmits, TaskInv, NeverRead, InFlight
  <2>2. \/ answers' = answers
        \/ \E kind \in {"unavailable", "not_executed"} : Conclude(m, kind, m)
        \/ \E kind \in {"policy_error", "not_executed"} : Tell(m, kind, m)
    BY <1>5 DEF GateDecides, GateRefuses, GateAdmits
  <2> QED
    BY <1>2, <1>3, <2>1, <2>2, TellStep, ConcludeStep
<1>6. CASE Drained(m) \/ DrainFails(m)
  <2>1. pc[m] = "draining" /\ InFlight(m)
    BY <1>6 DEF Drained, DrainFails, InFlight, Forwarding
  <2>2. \/ answers' = answers
        \/ Conclude(m, "result", m) /\ ~HasId(m)
        \/ Conclude(m, "not_executed", m) /\ NeverRead(m)
    BY <1>1, <1>6, <2>1 DEF Drained, DrainFails, TaskInv, NeverRead
  <2> QED
    BY <1>2, <1>3, <2>1, <2>2, ConcludeStep
<1>7. CASE Wait(m) \/ AbortEnds(m)
  <2>1. InFlight(m)
    BY <1>7 DEF Wait, GetsResponse, GetsUnavailable, WaitTimesOut, AbortEnds, InFlight,
       Forwarding
  <2>2. \/ answers' = answers
        \/ Conclude(m, "result", m) /\ line[m] = "read"
        \/ Conclude(m, "unavailable", m)
        \/ Conclude(m, "timeout", m)
    BY <1>1, <1>7 DEF Wait, GetsResponse, GetsUnavailable, WaitTimesOut, AbortEnds, TaskInv,
       Forwarding
  <2> QED
    BY <1>2, <1>3, <2>1, <2>2, ConcludeStep
<1> QED
  BY <1>4, <1>5, <1>6, <1>7

LEMMA OtherStep ==
  ASSUME PInv,
         \/ \E m \in Message :
              Write(m) \/ WriteTimesOut(m) \/ AbortBegins(m) \/ ReadResponse(m)
         \/ ReaderEnds \/ PipeBreaks \/ Exit \/ ClientCloses \/ Stop \/ Return
         \/ UNCHANGED vars
  PROVE  /\ answers' = answers
         /\ {m \in Message : line'[m] = "read"} = {m \in Message : line[m] = "read"}
<1>1. TypeOk /\ \A m \in Message : TaskInv(m)
  BY DEF PInv
<1>2. answers' = answers
  BY DEF Write, WriteTimesOut, AbortBegins, ReadResponse, ReaderEnds, PipeBreaks, Exit,
     ClientCloses, Stop, Return, vars, taskVars
<1>3. line' = line \/ \E m \in Message : Write(m)
  BY DEF WriteTimesOut, AbortBegins, ReadResponse, ReaderEnds, PipeBreaks, Exit,
     ClientCloses, Stop, Return, vars, writeVars
<1>4. ASSUME NEW m \in Message, Write(m)
      PROVE  {k \in Message : line'[k] = "read"} = {k \in Message : line[k] = "read"}
  <2>1. line[m] = "none" /\ line'[m] \in {"buffered", "dropped"}
    BY <1>1, <1>4 DEF Write, TaskInv, TypeOk
  <2>2. \A k \in Message \ {m} : line'[k] = line[k]
    BY <1>1, <1>4 DEF Write, TypeOk
  <2> QED
    BY <2>1, <2>2
<1> QED
  BY <1>2, <1>3, <1>4

\* Whatever the server, the clock and the client do, the proxy answers each
\* message at most once, gives a result only for the server's work on that
\* message, and never says "not executed" of a message the server gets.
THEOREM ProxyImplementsExchange == Spec => ImplementsExchange
<1>1. Init => Ex!ExchangeInit
  BY DEF Init, Ex!ExchangeInit
<1>2. ASSUME PInv, [Next]_vars
      PROVE  [Ex!ExchangeNext]_(Ex!exchangeVars)
  <2>1. CASE \E m \in Message :
               Receive(m) \/ GateDecides(m) \/ Drained(m) \/ DrainFails(m) \/ Wait(m)
                 \/ AbortEnds(m)
    BY <1>2, <2>1, ReplyStep DEF Ex!exchangeVars
  <2>2. CASE \E m \in Message : ServerReads(m)
    BY <1>2, <2>2, ServerReadsStep
  <2>3. CASE \/ \E m \in Message :
                  Write(m) \/ WriteTimesOut(m) \/ AbortBegins(m) \/ ReadResponse(m)
             \/ ReaderEnds \/ PipeBreaks \/ Exit \/ ClientCloses \/ Stop \/ Return
             \/ UNCHANGED vars
    BY <1>2, <2>3, OtherStep DEF Ex!exchangeVars
  <2> QED
    BY <1>2, <2>1, <2>2, <2>3 DEF Next, Abort
<1> QED
  BY <1>1, <1>2, Invariance, PTL DEF Spec, ImplementsExchange, Ex!ExchangeSpec
-----------------------------------------------------------------------------
(***************************************************************************)
(* The return of run: what the tasks are like once it stops waiting        *)
(***************************************************************************)
\* run waits for every task, or stops at the first that raised; only the end
\* of the event loop cancels a task.
ReturnInv ==
  /\ mode \in {"serving", "closing"} => \A m \in Message : pc[m] # "cancelled"
  /\ mode \in {"stopping", "returned"} =>
       (\E m \in Message : Raised(m)) \/ \A m \in Message : pc[m] \in {"unread", "done"}

\* A task begins while run serves, or goes on while it is in flight.
Moves(k) ==
  \/ pc'[k] = pc[k]
  \/ /\ InFlight(k) \/ (pc[k] = "unread" /\ mode = "serving")
     /\ pc'[k] # "cancelled"

LEMMA TaskMoves ==
  ASSUME PInv, NEW m \in Message,
         \/ Receive(m) \/ GateDecides(m)
         \/ Write(m) \/ Drained(m) \/ DrainFails(m) \/ WriteTimesOut(m)
         \/ Abort(m) \/ Wait(m)
         \/ ReadResponse(m) \/ ServerReads(m)
  PROVE  mode' = mode /\ \A k \in Message : Moves(k)
<1>1. pc \in [Message -> Forwarding \union {"unread", "gate", "done", "raised", "cancelled"}]
  BY DEF PInv, TypeOk
<1>2. CASE Receive(m)
  <2>1. /\ pc[m] = "unread" /\ mode = "serving" /\ mode' = mode
        /\ \E end \in {"done", "gate", "writing", "raised"} : pc' = [pc EXCEPT ![m] = end]
    BY <1>2 DEF Receive, Reject, RejectDuplicate, ReceiveCall, ReceiveOther, Arrives, Register
  <2> QED
    BY <1>1, <2>1 DEF Moves
<1>3. CASE GateDecides(m) \/ Drained(m) \/ DrainFails(m) \/ Abort(m) \/ Wait(m)
             \/ Write(m) \/ WriteTimesOut(m)
  <2>1. InFlight(m) /\ mode' = mode
    BY <1>3 DEF GateDecides, GateRefuses, GateAdmits, Drained, DrainFails, Abort, AbortBegins,
       AbortEnds, Wait, GetsResponse, GetsUnavailable, WaitTimesOut, Write, WriteTimesOut,
       InFlight, Forwarding
  <2>2. \E end \in {"done", "raised", "writing", "draining", "waiting", "aborting", "terminating"} :
          pc' = [pc EXCEPT ![m] = end]
    BY <1>3 DEF GateDecides, GateRefuses, GateAdmits, Drained, DrainFails, Abort, AbortBegins,
       AbortEnds, Wait, GetsResponse, GetsUnavailable, WaitTimesOut, Write, WriteTimesOut,
       Conclude, Leave, Register
  <2> QED
    BY <1>1, <2>1, <2>2 DEF Moves
<1>4. CASE ReadResponse(m) \/ ServerReads(m)
  BY <1>4 DEF ReadResponse, ServerReads, taskVars, Moves
<1> QED
  BY <1>2, <1>3, <1>4

LEMMA ReturnStays == PInv /\ ReturnInv /\ [Next]_vars => ReturnInv'
<1> SUFFICES ASSUME PInv, ReturnInv, [Next]_vars
             PROVE  ReturnInv'
  OBVIOUS
<1>1. /\ pc \in [Message -> Forwarding \union {"unread", "gate", "done", "raised", "cancelled"}]
      /\ mode \in {"serving", "closing", "stopping", "returned"}
  BY DEF PInv, TypeOk
<1>2. CASE mode' = mode /\ \A k \in Message : Moves(k)
  BY <1>1, <1>2 DEF ReturnInv, Moves, Raised, InFlight, Forwarding
<1>3. CASE ReaderEnds \/ PipeBreaks \/ Exit \/ UNCHANGED vars
  BY <1>3 DEF ReaderEnds, PipeBreaks, Exit, vars, taskVars, ReturnInv, Raised
<1>4. CASE ClientCloses
  BY <1>4 DEF ClientCloses, taskVars, ReturnInv
<1>5. CASE Stop
  <2>1. mode = "closing" /\ mode' = "stopping" /\ pc' = pc
    BY <1>5 DEF Stop, taskVars
  <2>2. (\A m \in Message : ~InFlight(m)) \/ (\E m \in Message : Raised(m))
    BY <1>5 DEF Stop
  <2>3. \A m \in Message : InFlight(m) \/ Raised(m) \/ pc[m] \in {"unread", "done"}
    BY <1>1, <2>1 DEF ReturnInv, InFlight, Raised
  <2> QED
    BY <2>1, <2>2, <2>3 DEF ReturnInv, Raised
<1>6. CASE Return
  <2>1. /\ mode = "stopping" /\ mode' = "returned"
        /\ pc' = [m \in Message |-> IF InFlight(m) THEN "cancelled" ELSE pc[m]]
    BY <1>6 DEF Return
  <2>2. \A m \in Message : pc[m] \in {"unread", "done", "raised"} => pc'[m] = pc[m]
    BY <2>1 DEF InFlight, Forwarding
  <2> QED
    BY <2>1, <2>2 DEF ReturnInv, Raised
<1>7. ASSUME NEW m \in Message,
             \/ Receive(m) \/ GateDecides(m)
             \/ Write(m) \/ Drained(m) \/ DrainFails(m) \/ WriteTimesOut(m)
             \/ Abort(m) \/ Wait(m)
             \/ ReadResponse(m) \/ ServerReads(m)
      PROVE  ReturnInv'
  BY <1>2, <1>7, TaskMoves
<1> QED
  BY <1>3, <1>4, <1>5, <1>6, <1>7 DEF Next

\* run() returns only when the client has an answer to everything it asked,
\* unless a task raised: at the loss of the pipe, when it passes messages
\* through, or at text that cannot be encoded.
THEOREM NoneLeftUnanswered == Spec => []ReturnsAnswered
<1>1. Init => ReturnInv
  BY DEF Init, ReturnInv
<1>2. PInv /\ ReturnInv => ReturnsAnswered
  BY DEF PInv, AnswerInv, ReturnInv, ReturnsAnswered
<1> QED
  BY Invariance, ReturnStays, <1>1, <1>2, PTL DEF Spec
=============================================================================
