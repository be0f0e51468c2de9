--------------------------- MODULE AuditLogProofs ---------------------------
(***************************************************************************)
(* With one process on the path the audit log keeps what it was told to    *)
(* keep, for every number of threads, records, failures and restarts.      *)
(***************************************************************************)
EXTENDS AuditLog, WellFoundedInduction, TLAPS

\* All threads share the lock of one JsonlAuditLog.
OneLog == \A w, x \in Writer : ProcessOf[w] = ProcessOf[x]

-----------------------------------------------------------------------------
(***************************************************************************)
(* The inductive invariant                                                 *)
(***************************************************************************)
Piece == [writer : Writer, number : Nat, newline : BOOLEAN]

TypeOk ==
  /\ file \in Seq(Piece)
  /\ lock \in [Process -> Writer \union {Nobody}]
  /\ pc \in [Writer -> {"idle", "acquire", "check", "write", "dead"}]
  /\ number \in [Writer -> Nat]
  /\ written \subseteq Writer \X Nat

\* A thread between the look at the last byte and the write has the lock, and
\* what it saw is still so.
LockInv ==
  \A w \in Writer :
    /\ pc[w] \in {"check", "write"} => lock[ProcessOf[w]] = w
    /\ pc[w] = "write" => ~Torn

\* Only the last piece can be torn, no record is there twice, and the record a
\* thread is about to write is not there yet.
FileInv ==
  /\ \A i \in 1..(Len(file) - 1) : file[i].newline
  /\ \A i, j \in DOMAIN file :
       i # j => file[i].writer # file[j].writer \/ file[i].number # file[j].number
  /\ \A w \in Writer, i \in DOMAIN file :
       file[i].writer = w =>
         /\ file[i].number <= number[w]
         /\ pc[w] \in {"acquire", "check", "write"} => file[i].number < number[w]

WrittenInv ==
  \A record \in written :
    \E i \in DOMAIN file :
      file[i] = [writer |-> record[1], number |-> record[2], newline |-> TRUE]

AInv == TypeOk /\ LockInv /\ FileInv /\ WrittenInv

LEMMA InitAInv == Init => AInv
<1> SUFFICES ASSUME Init
             PROVE  AInv
  OBVIOUS
<1>1. file \in Seq(Piece) /\ DOMAIN file = {} /\ Len(file) = 0
  BY DEF Init
<1> QED
  BY <1>1 DEF Init, AInv, TypeOk, LockInv, FileInv, WrittenInv

\* The steps that leave the file alone.
LEMMA FileStays ==
  ASSUME AInv, UNCHANGED <<file, written>>,
         number' \in [Writer -> Nat],
         \A w \in Writer :
           \/ number'[w] = number[w] /\ (pc'[w] \in {"acquire", "check", "write"}
                                           => pc[w] \in {"acquire", "check", "write"})
           \/ number'[w] > number[w]
  PROVE  FileInv' /\ WrittenInv'
<1>1. /\ file \in Seq(Piece) /\ number \in [Writer -> Nat]
      /\ \A i \in DOMAIN file : file[i] \in Piece
  BY DEF AInv, TypeOk
<1>2. WrittenInv'
  BY DEF AInv, WrittenInv
<1>3. ASSUME NEW w \in Writer, NEW i \in DOMAIN file, file[i].writer = w
      PROVE  /\ file[i].number <= number'[w]
             /\ pc'[w] \in {"acquire", "check", "write"} => file[i].number < number'[w]
  <2>1. file[i].number \in Nat /\ number[w] \in Nat /\ number'[w] \in Nat
    BY <1>1 DEF Piece
  <2>2. /\ file[i].number <= number[w]
        /\ pc[w] \in {"acquire", "check", "write"} => file[i].number < number[w]
    BY <1>3 DEF AInv, FileInv
  <2> QED
    BY <2>1, <2>2
<1> QED
  BY <1>2, <1>3 DEF AInv, FileInv

\* A piece of the thread that is at the write, and stays there no longer.
LEMMA PieceAdded ==
  ASSUME AInv, NEW w \in Writer, NEW newline \in BOOLEAN,
         pc[w] = "write", pc'[w] \in {"idle", "dead"},
         file' = Append(file, PieceOf(w, newline)),
         number' = number,
         \A x \in Writer : pc'[x] \in {"acquire", "check", "write"} => pc'[x] = pc[x],
         written' = written \/ (newline /\ written' = written \union {<<w, number[w]>>})
  PROVE  file' \in Seq(Piece) /\ FileInv' /\ WrittenInv'
<1>1. /\ file \in Seq(Piece) /\ number \in [Writer -> Nat] /\ written \subseteq Writer \X Nat
      /\ ~Torn /\ FileInv /\ WrittenInv
  BY DEF AInv, TypeOk, LockInv
<1> DEFINE piece == PieceOf(w, newline)
<1>2. /\ piece \in Piece /\ piece.writer = w /\ piece.number = number[w]
      /\ piece = [writer |-> w, number |-> number[w], newline |-> newline]
  BY <1>1 DEF PieceOf, Piece
<1> HIDE DEF piece
<1>3. /\ file' \in Seq(Piece) /\ Len(file') = Len(file) + 1 /\ Len(file) \in Nat
      /\ DOMAIN file = 1..Len(file) /\ DOMAIN file' = 1..(Len(file) + 1)
      /\ \A i \in 1..Len(file) : file'[i] = file[i] /\ file[i] \in Piece
      /\ file'[Len(file) + 1] = piece
  BY <1>1, <1>2 DEF piece
<1>4. \A i \in 1..Len(file) : file[i].newline
  <2>1. file # <<>> => file[Len(file)].newline
    BY <1>1 DEF Torn, Last
  <2> QED
    BY <1>1, <1>3, <2>1 DEF FileInv
<1>5. \A i \in 1..Len(file) : file[i].writer = w => file[i].number < number[w]
  BY <1>1, <1>3 DEF FileInv
<1>6. ASSUME NEW i \in DOMAIN file', NEW j \in DOMAIN file', i # j
      PROVE  file'[i].writer # file'[j].writer \/ file'[i].number # file'[j].number
  <2>1. CASE i \in 1..Len(file) /\ j \in 1..Len(file)
    BY <1>1, <1>3, <1>6, <2>1 DEF FileInv
  <2>2. \A k \in 1..Len(file) :
          file'[k].writer # piece.writer \/ file'[k].number # piece.number
    BY <1>1, <1>2, <1>3, <1>5 DEF Piece
  <2> QED
    BY <1>3, <1>6, <2>1, <2>2
<1>7. ASSUME NEW x \in Writer, NEW i \in DOMAIN file', file'[i].writer = x
      PROVE  /\ file'[i].number <= number'[x]
             /\ pc'[x] \in {"acquire", "check", "write"} => file'[i].number < number'[x]
  <2>1. CASE i \in 1..Len(file)
    BY <1>1, <1>3, <1>7, <2>1 DEF FileInv
  <2>2. CASE i = Len(file) + 1
    BY <1>1, <1>2, <1>3, <1>7, <2>2
  <2> QED
    BY <1>3, <2>1, <2>2
<1>8. FileInv'
  BY <1>3, <1>4, <1>6, <1>7 DEF FileInv
<1>9. ASSUME NEW record \in written'
      PROVE  \E i \in DOMAIN file' :
               file'[i] = [writer |-> record[1], number |-> record[2], newline |-> TRUE]
  <2>1. CASE record \in written
    BY <1>1, <1>3, <2>1 DEF WrittenInv
  <2>2. CASE newline /\ record = <<w, number[w]>>
    <3>1. record[1] = w /\ record[2] = number[w] /\ newline = TRUE
      BY <2>2
    <3>2. Len(file) + 1 \in DOMAIN file' /\ file'[Len(file) + 1] = piece
      BY <1>3
    <3> QED
      BY <1>2, <3>1, <3>2
  <2> QED
    BY <1>9, <2>1, <2>2
<1>10. WrittenInv'
  BY <1>9 DEF WrittenInv
<1> QED
  BY <1>3, <1>8, <1>10

\* The thread that holds the lock leaves it.
LEMMA OthersOut ==
  ASSUME AInv, OneLog, NEW w \in Writer, pc[w] \in {"check", "write"},
         NEW x \in Writer, pc[x] \in {"check", "write"}
  PROVE  x = w
BY DEF AInv, LockInv, OneLog

LEMMA StepKeeps ==
  ASSUME OneLog, AInv, [Next]_vars
  PROVE  AInv'
<1>1. /\ TypeOk /\ LockInv /\ FileInv /\ WrittenInv
      /\ ProcessOf \in [Writer -> Process] /\ Nobody \notin Writer
  BY WriterAssumption DEF AInv
<1>2. ASSUME NEW w \in Writer, Start(w)
      PROVE  AInv'
  <2>1. /\ UNCHANGED <<file, lock, written>> /\ pc[w] = "idle"
        /\ pc' = [pc EXCEPT ![w] = "acquire"]
        /\ number' = [number EXCEPT ![w] = @ + 1]
    BY <1>2 DEF Start, Goto
  <2>2. TypeOk'
    BY <1>1, <2>1 DEF TypeOk
  <2>3. LockInv'
    BY <1>1, <2>1 DEF TypeOk, LockInv, Torn
  <2>4. FileInv' /\ WrittenInv'
    BY <1>1, <2>1, <2>2, FileStays DEF TypeOk
  <2> QED
    BY <2>2, <2>3, <2>4 DEF AInv
<1>3. ASSUME NEW w \in Writer, Acquire(w) \/ CheckTail(w) \/ RefuseAppend(w)
      PROVE  AInv'
  <2>1. /\ UNCHANGED <<file, number, written>>
        /\ \/ /\ pc[w] = "acquire" /\ pc' = [pc EXCEPT ![w] = "check"]
              /\ lock[ProcessOf[w]] = Nobody /\ lock' = [lock EXCEPT ![ProcessOf[w]] = w]
           \/ pc[w] = "check" /\ pc' = [pc EXCEPT ![w] = "write"] /\ lock' = lock /\ ~Torn
           \/ /\ pc[w] = "check" /\ pc' = [pc EXCEPT ![w] = "idle"]
              /\ lock' = [lock EXCEPT ![ProcessOf[w]] = Nobody]
    BY <1>3 DEF Acquire, CheckTail, RefuseAppend, Goto, Unlock
  <2>2. TypeOk'
    BY <1>1, <2>1 DEF TypeOk
  <2>3. ASSUME NEW x \in Writer
        PROVE  /\ pc'[x] \in {"check", "write"} => lock'[ProcessOf[x]] = x
               /\ pc'[x] = "write" => ~Torn'
    <3>1. Torn' <=> Torn
      BY <2>1 DEF Torn
    <3>2. x # w /\ pc[x] \in {"check", "write"} => pc[w] = "acquire" /\ lock[ProcessOf[w]] = x
      BY <1>1, <2>1, OthersOut DEF LockInv, OneLog
    <3> QED
      BY <1>1, <2>1, <3>1, <3>2 DEF TypeOk, LockInv
  <2>4. FileInv' /\ WrittenInv'
    BY <1>1, <2>1, FileStays DEF TypeOk
  <2> QED
    BY <2>2, <2>3, <2>4 DEF AInv, LockInv
<1>4. ASSUME NEW w \in Writer, AppendLine(w) \/ WriteFails(w)
      PROVE  AInv'
  <2>1. /\ pc[w] = "write" /\ pc' = [pc EXCEPT ![w] = "idle"]
        /\ lock' = [lock EXCEPT ![ProcessOf[w]] = Nobody]
        /\ number' = number
        /\ \/ /\ file' = Append(file, PieceOf(w, TRUE))
              /\ written' = written \union {<<w, number[w]>>}
           \/ file' = Append(file, PieceOf(w, FALSE)) /\ written' = written
           \/ file' = file /\ written' = written
    BY <1>4 DEF AppendLine, WriteFails, Goto, Unlock
  <2>2. file' \in Seq(Piece) /\ FileInv' /\ WrittenInv'
    <3>1. CASE file' = file /\ written' = written
      BY <1>1, <2>1, <3>1, FileStays DEF TypeOk
    <3>2. pc'[w] = "idle" /\ \A x \in Writer : x # w => pc'[x] = pc[x]
      BY <1>1, <2>1 DEF TypeOk
    <3>3. CASE /\ file' = Append(file, PieceOf(w, TRUE))
               /\ written' = written \union {<<w, number[w]>>}
      BY <2>1, <3>2, <3>3, PieceAdded
    <3>4. CASE file' = Append(file, PieceOf(w, FALSE)) /\ written' = written
      BY <2>1, <3>2, <3>4, PieceAdded
    <3> QED
      BY <1>1, <2>1, <3>1, <3>3, <3>4 DEF TypeOk
  <2>3. TypeOk'
    <3>1. number[w] \in Nat
      BY <1>1 DEF TypeOk
    <3>2. written' \subseteq Writer \X Nat
      <4>1. <<w, number[w]>> \in Writer \X Nat
        BY <3>1
      <4>2. written' = written \/ written' = written \union {<<w, number[w]>>}
        BY <2>1
      <4>3. written \subseteq Writer \X Nat
        BY <1>1 DEF TypeOk
      <4> QED
        BY <4>1, <4>2, <4>3
    <3>3. pc' \in [Writer -> {"idle", "acquire", "check", "write", "dead"}]
          /\ lock' \in [Process -> Writer \union {Nobody}]
      BY <1>1, <2>1 DEF TypeOk
    <3> QED
      BY <1>1, <2>1, <2>2, <3>2, <3>3 DEF TypeOk
  <2>4. \A x \in Writer : pc'[x] \notin {"check", "write"}
    BY <1>1, <2>1, OthersOut DEF TypeOk
  <2> QED
    BY <2>2, <2>3, <2>4 DEF AInv, LockInv
<1>5. ASSUME NEW p \in Process, Crash(p)
      PROVE  AInv'
  <2> DEFINE threads == {w \in Writer : ProcessOf[w] = p}
             writing == {w \in threads : pc[w] = "write"}
  <2>1. /\ pc' = [w \in Writer |-> IF w \in threads THEN "dead" ELSE pc[w]]
        /\ lock' = [lock EXCEPT ![p] = Nobody]
        /\ UNCHANGED <<number, written>>
        /\ \/ file' = file
           \/ \E w \in writing, newline \in BOOLEAN : file' = Append(file, PieceOf(w, newline))
        /\ threads # {}
    BY <1>5 DEF Crash
  <2>2. threads = Writer
    BY <2>1 DEF OneLog
  <2>3. \A w \in Writer : pc'[w] = "dead"
    BY <2>1, <2>2
  <2>4. file' \in Seq(Piece) /\ FileInv' /\ WrittenInv'
    <3>1. CASE file' = file
      BY <1>1, <2>1, <2>3, <3>1, FileStays DEF TypeOk
    <3>2. ASSUME NEW w \in writing, NEW newline \in BOOLEAN,
                 file' = Append(file, PieceOf(w, newline))
          PROVE  file' \in Seq(Piece) /\ FileInv' /\ WrittenInv'
      BY <2>1, <2>3, <3>2, PieceAdded
    <3> QED
      BY <2>1, <3>1, <3>2
  <2>5. TypeOk'
    BY <1>1, <2>1, <2>4 DEF TypeOk
  <2> QED
    BY <2>3, <2>4, <2>5 DEF AInv, LockInv
<1>6. ASSUME NEW p \in Process, Restart(p)
      PROVE  AInv'
  <2>1. /\ pc' = [w \in Writer |-> IF ProcessOf[w] = p THEN "idle" ELSE pc[w]]
        /\ UNCHANGED <<file, lock, number, written>>
    BY <1>6 DEF Restart
  <2>2. TypeOk'
    BY <1>1, <2>1 DEF TypeOk
  <2>3. LockInv'
    BY <1>1, <2>1 DEF LockInv, Torn
  <2>4. FileInv' /\ WrittenInv'
    BY <1>1, <2>1, FileStays DEF TypeOk
  <2> QED
    BY <2>2, <2>3, <2>4 DEF AInv
<1>7. CASE UNCHANGED vars
  <2>1. UNCHANGED <<file, lock, pc, number, written>>
    BY <1>7 DEF vars
  <2> QED
    BY <1>1, <2>1 DEF AInv, TypeOk, LockInv, FileInv, WrittenInv, Torn
<1> QED
  BY <1>2, <1>3, <1>4, <1>5, <1>6, <1>7 DEF Next, Record

-----------------------------------------------------------------------------
(***************************************************************************)
(* The theorems                                                            *)
(***************************************************************************)

\* A record that record() returned for is on a line of its own, once, for
\* ever, whatever the other threads of the process and its restarts do.
THEOREM RecordsStayReadable ==
  ASSUME OneLog
  PROVE  Spec => []WrittenIsReadable
<1>1. Init => AInv
  BY InitAInv
<1>2. AInv /\ [Next]_vars => AInv'
  BY StepKeeps
<1>3. AInv => WrittenIsReadable
  <2> SUFFICES ASSUME AInv, NEW record \in written
               PROVE  \E i \in DOMAIN file :
                        /\ file[i] = [writer |-> record[1], number |-> record[2], newline |-> TRUE]
                        /\ i > 1 => file[i - 1].newline
                        /\ \A j \in DOMAIN file \ {i} :
                             ~(file[j].writer = record[1] /\ file[j].number = record[2])
    BY DEF WrittenIsReadable
  <2>1. PICK i \in DOMAIN file :
        file[i] = [writer |-> record[1], number |-> record[2], newline |-> TRUE]
    BY DEF AInv, WrittenInv
  <2>2. DOMAIN file = 1..Len(file) /\ Len(file) \in Nat
    BY DEF AInv, TypeOk
  <2>3. i > 1 => file[i - 1].newline
    BY <2>1, <2>2 DEF AInv, FileInv
  <2>4. file[i].writer = record[1] /\ file[i].number = record[2]
    BY <2>1
  <2>5. \A j \in DOMAIN file \ {i} : ~(file[j].writer = record[1] /\ file[j].number = record[2])
    BY <2>4 DEF AInv, FileInv
  <2> QED
    BY <2>1, <2>3, <2>5
<1> QED
  BY <1>1, <1>2, <1>3, PTL DEF Spec

\* With one process an incomplete record stays the last, bytes and all: what
\* two processes on one path can break (run audit_two_processes).
THEOREM TornStaysLast ==
  ASSUME OneLog
  PROVE  Spec => TornIsLast
<1>1. Init => AInv
  BY InitAInv
<1>2. AInv /\ [Next]_vars => AInv'
  BY StepKeeps
<1>3. ASSUME AInv, [Next]_vars, Torn
      PROVE  file' = file
  <2>1. \A w \in Writer : pc[w] # "write"
    BY <1>3 DEF AInv, LockInv
  <2>2. ASSUME NEW w \in Writer, Start(w) \/ Record(w)
        PROVE  file' = file
    BY <2>1, <2>2 DEF Start, Record, Acquire, CheckTail, RefuseAppend, AppendLine, WriteFails, Goto
  <2>3. ASSUME NEW p \in Process, Crash(p) \/ Restart(p)
        PROVE  file' = file
    BY <2>1, <2>3 DEF Crash, Restart
  <2> QED
    BY <1>3, <2>2, <2>3 DEF Next, vars
<1>4. AInv /\ [Next]_vars => [Torn => file' = file]_vars
  BY <1>3
<1> QED
  BY <1>1, <1>2, <1>4, PTL DEF Spec, TornIsLast

-----------------------------------------------------------------------------
(***************************************************************************)
(* The refinement.  The trail of a thread is computed from the file by a   *)
(* recursion over its pieces; by induction, a piece appended to the file   *)
(* appends at most its own record to the trail of its own thread.          *)
(***************************************************************************)

\* Induction over the naturals, of a set in place of a predicate.
LEMMA InductionOnNat ==
  ASSUME NEW S, 0 \in S, \A n \in Nat : n \in S => n + 1 \in S
  PROVE  \A n \in Nat : n \in S
<1> DEFINE Out == {n \in Nat : n \notin S}
           Before == OpToRel(<, Nat)
<1>1. SUFFICES ASSUME Out # {}
               PROVE  FALSE
  OBVIOUS
<1>2. \A k, n \in Nat : k < n => <<k, n>> \in Before
  BY DEF OpToRel
<1>3. IsWellFoundedOn(Before, Nat) /\ Out \subseteq Nat
  BY NatLessThanWellFounded
<1> HIDE DEF Before
<1>4. PICK n \in Out : \A k \in Out : <<k, n>> \notin Before
  <2> HIDE DEF Out
  <2> QED
    BY <1>1, <1>3, WFMin, Zenon
<1>5. n \in Nat /\ n # 0
  OBVIOUS
<1>6. n - 1 \in Nat /\ n - 1 < n
  BY <1>5
<1>7. n - 1 \notin Out
  BY <1>2, <1>4, <1>5, <1>6
<1>8. n - 1 \in S /\ (n - 1) + 1 = n
  BY <1>6, <1>7
<1> QED
  BY <1>4, <1>6, <1>8

\* g is the recursion of RecordsOf on the first n pieces of f.
IsTrail(g, f, w, n) ==
  g = [k \in 0..n |->
         IF k = 0 THEN <<>>
         ELSE IF f[k].writer = w /\ f[k].newline
              THEN Append(g[k - 1], f[k].number) ELSE g[k - 1]]

LEMMA TrailAt ==
  ASSUME NEW f, NEW w, NEW n, NEW g, IsTrail(g, f, w, n), NEW i \in 0..n
  PROVE  g[i] = IF i = 0 THEN <<>>
                ELSE IF f[i].writer = w /\ f[i].newline
                     THEN Append(g[i - 1], f[i].number) ELSE g[i - 1]
BY Zenon DEF IsTrail

LEMMA TrailExists ==
  ASSUME NEW f, NEW w, NEW n \in Nat
  PROVE  \E g : IsTrail(g, f, w, n)
<1> DEFINE Levels == {k \in Nat : \E g : IsTrail(g, f, w, k)}
           Level(g, k) == [i \in 0..k |->
                            IF i = 0 THEN <<>>
                            ELSE IF f[i].writer = w /\ f[i].newline
                                 THEN Append(g[i - 1], f[i].number) ELSE g[i - 1]]
<1>1. 0 \in Levels
  <2> DEFINE g == [i \in 0..0 |-> <<>>]
  <2>1. g = Level(g, 0)
    OBVIOUS
  <2> QED
    BY <2>1 DEF IsTrail
<1>2. ASSUME NEW k \in Nat, k \in Levels
      PROVE  k + 1 \in Levels
  <2>1. PICK g : IsTrail(g, f, w, k)
    BY <1>2
  <2> DEFINE h == Level(g, k + 1)
  <2>2. ASSUME NEW i \in 0..k
        PROVE  h[i] = g[i]
    <3>1. i \in 0..(k + 1)
      OBVIOUS
    <3>2. h[i] = IF i = 0 THEN <<>>
                 ELSE IF f[i].writer = w /\ f[i].newline
                      THEN Append(g[i - 1], f[i].number) ELSE g[i - 1]
      BY <3>1, Zenon
    <3> QED
      BY <2>1, <3>2, TrailAt
  <2>3. \A i \in 0..(k + 1) : i # 0 => h[i - 1] = g[i - 1]
    <3> HIDE DEF h
    <3>1. \A i \in 0..(k + 1) : i # 0 => i - 1 \in 0..k
      OBVIOUS
    <3> QED
      BY <2>2, <3>1
  <2> HIDE DEF h
  <2>4. Level(g, k + 1) = Level(h, k + 1)
    BY <2>3
  <2>5. IsTrail(h, f, w, k + 1)
    BY <2>4 DEF IsTrail, h
  <2> QED
    BY <2>5
<1> HIDE DEF Levels
<1>3. \A k \in Nat : k \in Levels
  BY <1>1, <1>2, InductionOnNat
<1> QED
  BY <1>3 DEF Levels

\* What comes after the first k pieces does not matter to them.
LEMMA TrailOfPrefix ==
  ASSUME NEW f, NEW e, NEW w, NEW n \in Nat, NEW m \in Nat, NEW k \in 0..n, k <= m,
         \A i \in 1..k : f[i] = e[i],
         NEW g, NEW h, IsTrail(g, f, w, n), IsTrail(h, e, w, m)
  PROVE  g[k] = h[k]
<1> DEFINE Same == {i \in Nat : i <= k => g[i] = h[i]}
<1>1. ASSUME NEW i \in 0..k
      PROVE  /\ i = 0 => g[i] = <<>> /\ h[i] = <<>>
             /\ i # 0 => /\ g[i] = IF f[i].writer = w /\ f[i].newline
                                   THEN Append(g[i - 1], f[i].number) ELSE g[i - 1]
                        /\ h[i] = IF e[i].writer = w /\ e[i].newline
                                   THEN Append(h[i - 1], e[i].number) ELSE h[i - 1]
  <2>1. i \in 0..n /\ i \in 0..m
    OBVIOUS
  <2> QED
    BY <2>1, TrailAt
<1>2. 0 \in Same
  BY <1>1
<1>3. ASSUME NEW i \in Nat, i \in Same
      PROVE  i + 1 \in Same
  <2> SUFFICES ASSUME i + 1 <= k
               PROVE  g[i + 1] = h[i + 1]
    OBVIOUS
  <2>1. i + 1 \in 1..k /\ (i + 1) - 1 = i
    OBVIOUS
  <2>2. g[i] = h[i] /\ f[i + 1] = e[i + 1]
    BY <1>3, <2>1
  <2> QED
    BY <1>1, <2>1, <2>2
<1> HIDE DEF Same
<1>4. \A i \in Nat : i \in Same
  BY <1>2, <1>3, InductionOnNat
<1> QED
  BY <1>4 DEF Same

LEMMA RecordsDef ==
  ASSUME NEW w, Len(file) \in Nat
  PROVE  \E g : IsTrail(g, file, w, Len(file)) /\ RecordsOf(w) = g[Len(file)]
<1> DEFINE upTo == CHOOSE g : IsTrail(g, file, w, Len(file))
<1>1. IsTrail(upTo, file, w, Len(file))
  BY TrailExists
<1>2. RecordsOf(w) = upTo[Len(file)]
  BY DEF RecordsOf, IsTrail
<1> QED
  BY <1>1, <1>2

LEMMA TrailOfLonger ==
  ASSUME NEW f, NEW e, NEW w, NEW n \in Nat, \A i \in 1..n : f[i] = e[i],
         NEW g, NEW h, IsTrail(g, f, w, n), IsTrail(h, e, w, n + 1)
  PROVE  h[n + 1] = IF e[n + 1].writer = w /\ e[n + 1].newline
                    THEN Append(g[n], e[n + 1].number) ELSE g[n]
<1> DEFINE m == n + 1
<1>1. m \in Nat /\ m # 0 /\ m - 1 = n /\ n <= m /\ m \in 0..m /\ n \in 0..n
  OBVIOUS
<1>2. IsTrail(h, e, w, m)
  OBVIOUS
<1> HIDE DEF m
<1>3. g[n] = h[n]
  BY <1>1, <1>2, TrailOfPrefix
<1>4. h[m] = IF e[m].writer = w /\ e[m].newline
             THEN Append(h[n], e[m].number) ELSE h[n]
  BY <1>1, <1>2, TrailAt
<1> QED
  BY <1>3, <1>4 DEF m

\* One piece more is at most one record more, and only of its own thread.
LEMMA RecordsAfterAppend ==
  ASSUME AInv, NEW w, NEW piece \in Piece, file' = Append(file, piece)
  PROVE  RecordsOf(w)' = IF piece.writer = w /\ piece.newline
                         THEN Append(RecordsOf(w), piece.number) ELSE RecordsOf(w)
<1>1. /\ Len(file) \in Nat /\ Len(file') = Len(file) + 1 /\ Len(file') \in Nat
      /\ \A i \in 1..Len(file) : file[i] = file'[i]
      /\ file'[Len(file) + 1] = piece
  BY DEF AInv, TypeOk
<1>2. PICK g : IsTrail(g, file, w, Len(file)) /\ RecordsOf(w) = g[Len(file)]
  BY <1>1, RecordsDef
<1>3. PICK h : IsTrail(h, file', w, Len(file) + 1) /\ RecordsOf(w)' = h[Len(file) + 1]
  <2> DEFINE upTo == CHOOSE h : IsTrail(h, file', w, Len(file'))
  <2>1. IsTrail(upTo, file', w, Len(file'))
    BY <1>1, TrailExists
  <2>2. RecordsOf(w)' = upTo[Len(file')]
    BY DEF RecordsOf, IsTrail
  <2> QED
    BY <1>1, <2>1, <2>2
<1>4. h[Len(file) + 1] = IF file'[Len(file) + 1].writer = w /\ file'[Len(file) + 1].newline
                         THEN Append(g[Len(file)], file'[Len(file) + 1].number)
                         ELSE g[Len(file)]
  <2> DEFINE n == Len(file)
             e == file'
  <2>1. /\ n \in Nat /\ IsTrail(g, file, w, n) /\ IsTrail(h, e, w, n + 1)
        /\ \A i \in 1..n : file[i] = e[i]
    BY <1>1, <1>2, <1>3
  <2> HIDE DEF n, e
  <2>2. h[n + 1] = IF e[n + 1].writer = w /\ e[n + 1].newline
                   THEN Append(g[n], e[n + 1].number) ELSE g[n]
    BY <2>1, TrailOfLonger
  <2> QED
    BY <2>2 DEF n, e
<1> QED
  BY <1>1, <1>2, <1>3, <1>4

\* The records of a thread are numbered from 1, within the bound.
NumberInv ==
  \A w \in Writer :
    /\ number[w] <= MaxRecords
    /\ pc[w] \in {"acquire", "check", "write"} => number[w] >= 1

LEMMA InitNumberInv == Init => NumberInv
BY WriterAssumption DEF Init, NumberInv

LEMMA StepKeepsNumbers == AInv /\ NumberInv /\ [Next]_vars => NumberInv'
<1> SUFFICES ASSUME AInv, NumberInv, [Next]_vars
             PROVE  NumberInv'
  OBVIOUS
<1>1. /\ number \in [Writer -> Nat] /\ MaxRecords \in Nat
      /\ pc \in [Writer -> {"idle", "acquire", "check", "write", "dead"}]
  BY WriterAssumption DEF AInv, TypeOk
<1>2. ASSUME NEW w \in Writer, Start(w)
      PROVE  NumberInv'
  <2>1. /\ number' = [number EXCEPT ![w] = number[w] + 1] /\ number[w] < MaxRecords
        /\ pc' = [pc EXCEPT ![w] = "acquire"]
    BY <1>2 DEF Start, Goto
  <2> QED
    BY <1>1, <2>1 DEF NumberInv
<1>3. ASSUME number' = number,
             \A x \in Writer : pc'[x] \in {"acquire", "check", "write"}
                               => pc[x] \in {"acquire", "check", "write"}
      PROVE  NumberInv'
  BY <1>3 DEF NumberInv
<1>4. ASSUME NEW w \in Writer, Record(w)
      PROVE  NumberInv'
  <2>1. /\ number' = number /\ pc[w] \in {"acquire", "check", "write"}
        /\ \E to \in {"check", "write", "idle"} : pc' = [pc EXCEPT ![w] = to]
    BY <1>4 DEF Record, Acquire, CheckTail, RefuseAppend, AppendLine, WriteFails, Goto
  <2> QED
    BY <1>1, <1>3, <2>1
<1>5. ASSUME NEW p \in Process, Crash(p) \/ Restart(p)
      PROVE  NumberInv'
  <2>1. /\ number' = number
        /\ \A x \in Writer : pc'[x] \in {"idle", "dead", pc[x]}
    BY <1>5 DEF Crash, Restart
  <2> QED
    BY <1>3, <2>1
<1>6. CASE UNCHANGED vars
  BY <1>3, <1>6 DEF vars
<1> QED
  BY <1>2, <1>4, <1>5, <1>6 DEF Next

\* A piece written by the thread at the write is a record of the trail, or
\* tears it.
LEMMA PieceRefines ==
  ASSUME AInv, NumberInv, NEW w \in Writer, NEW newline \in BOOLEAN,
         pc[w] = "write", file' = Append(file, PieceOf(w, newline))
  PROVE  Trail!TrailNext
<1> DEFINE trail == [x \in Writer |-> RecordsOf(x)]
           torn == [l \in {"file"} |-> Torn]
           logOf == [x \in Writer |-> "file"]
<1>1. /\ PieceOf(w, newline) \in Piece
      /\ PieceOf(w, newline).writer = w
      /\ PieceOf(w, newline).number = number[w]
      /\ PieceOf(w, newline).newline = newline
      /\ number[w] \in 1..MaxRecords
  BY WriterAssumption DEF AInv, TypeOk, NumberInv, PieceOf, Piece
<1>2. ~Torn
  BY DEF AInv, LockInv
<1>3. Torn' <=> ~newline
  <2>1. file' # <<>> /\ Last(file') = PieceOf(w, newline)
    BY <1>1 DEF Last, AInv, TypeOk
  <2> QED
    BY <1>1, <2>1 DEF Torn
<1>4. \A x \in Writer : RecordsOf(x)' = IF x = w /\ newline
                                        THEN Append(RecordsOf(x), number[w])
                                        ELSE RecordsOf(x)
  <2> DEFINE piece == PieceOf(w, newline)
  <2>1. \A x : RecordsOf(x)' = IF piece.writer = x /\ piece.newline
                               THEN Append(RecordsOf(x), piece.number) ELSE RecordsOf(x)
    BY <1>1, RecordsAfterAppend
  <2> QED
    BY <1>1, <2>1
<1>5. ~torn[logOf[w]]
  BY <1>2
<1>6. CASE newline
  <2>1. trail' = [trail EXCEPT ![w] = Append(@, number[w])]
    BY <1>4, <1>6
  <2>2. torn' = torn
    <3>1. Torn' <=> Torn
      BY <1>2, <1>3, <1>6
    <3> QED
      BY <3>1
  <2>3. Trail!Write(w, number[w])
    BY <1>5, <2>1, <2>2 DEF Trail!Write
  <2> QED
    BY <1>1, <2>3 DEF Trail!TrailNext
<1>7. CASE ~newline
  <2>1. trail' = trail
    BY <1>4, <1>7
  <2>2. torn' = [torn EXCEPT ![logOf[w]] = TRUE]
    BY <1>3, <1>7
  <2>3. Trail!Tear(w)
    BY <1>5, <2>1, <2>2 DEF Trail!Tear
  <2> QED
    BY <2>3 DEF Trail!TrailNext
<1> QED
  BY <1>6, <1>7

\* Every other step leaves the file, and with it the trail, as it is.
LEMMA StepRefines == AInv /\ NumberInv /\ [Next]_vars => [Trail!TrailNext]_(Trail!trailVars)
<1> SUFFICES ASSUME AInv, NumberInv, [Next]_vars
             PROVE  Trail!TrailNext \/ UNCHANGED Trail!trailVars
  OBVIOUS
<1>1. CASE file' = file
  <2>1. \A w \in Writer : RecordsOf(w)' = RecordsOf(w)
    BY <1>1 DEF RecordsOf
  <2>2. Torn' <=> Torn
    BY <1>1 DEF Torn
  <2> QED
    BY <2>1, <2>2 DEF Trail!trailVars
<1>2. CASE \E w \in Writer, newline \in BOOLEAN :
             pc[w] = "write" /\ file' = Append(file, PieceOf(w, newline))
  BY <1>2, PieceRefines
<1>3. ASSUME NEW w \in Writer, Start(w) \/ Record(w)
      PROVE  \/ file' = file
             \/ \E newline \in BOOLEAN :
                  pc[w] = "write" /\ file' = Append(file, PieceOf(w, newline))
  BY <1>3 DEF Start, Record, Acquire, CheckTail, RefuseAppend, AppendLine, WriteFails, Goto
<1>4. ASSUME NEW p \in Process, Crash(p) \/ Restart(p)
      PROVE  \/ file' = file
             \/ \E w \in Writer, newline \in BOOLEAN :
                  pc[w] = "write" /\ file' = Append(file, PieceOf(w, newline))
  BY <1>4 DEF Crash, Restart
<1>5. UNCHANGED vars => file' = file
  BY DEF vars
<1> QED
  BY <1>1, <1>2, <1>3, <1>4, <1>5 DEF Next

LEMMA InitRefines == Init => Trail!TrailInit
<1> SUFFICES ASSUME Init
             PROVE  Trail!TrailInit
  OBVIOUS
<1>1. file = <<>> /\ Len(file) = 0 /\ Len(file) \in Nat
  BY DEF Init
<1>2. \A w : RecordsOf(w) = <<>>
  <2> SUFFICES ASSUME NEW w
               PROVE  RecordsOf(w) = <<>>
    OBVIOUS
  <2>1. PICK g : IsTrail(g, file, w, Len(file)) /\ RecordsOf(w) = g[Len(file)]
    BY <1>1, RecordsDef
  <2>2. 0 \in 0..0
    OBVIOUS
  <2> QED
    BY <1>1, <2>1, <2>2, TrailAt
<1>3. [l \in {"file"} |-> Torn] = [l \in {"file"} |-> FALSE]
  <2>1. Torn <=> FALSE
    BY <1>1 DEF Torn
  <2> QED
    BY <2>1
<1>4. [w \in Writer |-> RecordsOf(w)] = [w \in Writer |-> <<>>]
  BY <1>2
<1> QED
  BY <1>3, <1>4 DEF Trail!TrailInit

\* With one process on its path the log is an audit trail: every record of a
\* thread is in it once, whole and in order, or its writer was told otherwise,
\* and an incomplete record ends it.
THEOREM LogImplementsTrail ==
  ASSUME OneLog
  PROVE  Spec => ImplementsTrail
<1>1. Init => AInv /\ NumberInv
  BY InitAInv, InitNumberInv
<1>2. AInv /\ NumberInv /\ [Next]_vars => (AInv /\ NumberInv)'
  BY StepKeeps, StepKeepsNumbers
<1> QED
  BY <1>1, <1>2, InitRefines, StepRefines, PTL DEF Spec, ImplementsTrail, Trail!TrailSpec
=============================================================================
