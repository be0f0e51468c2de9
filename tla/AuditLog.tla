------------------------------ MODULE AuditLog ------------------------------
(***************************************************************************)
(* JsonlAuditLog.record (audit.py): one JSON line per record, appended     *)
(* under a lock that the threads of a process share, after a look at the   *)
(* last byte of the file.  A process may die at any step, and a write may  *)
(* stop short of the newline.                                              *)
(*                                                                         *)
(* The file is the sequence of pieces written to it.  A piece without its  *)
(* newline is a torn record; whatever is appended after it lands on the    *)
(* same line.                                                              *)
(***************************************************************************)
EXTENDS Naturals, Sequences, SequencesExt

CONSTANTS
  Writer,      \* threads that append records
  Process,     \* processes that have the file open
  ProcessOf,   \* the process of each thread
  MaxRecords,  \* bound: records per thread
  Nobody       \* the lock is free

ASSUME WriterAssumption ==
  /\ ProcessOf \in [Writer -> Process]
  /\ Nobody \notin Writer
  /\ MaxRecords \in Nat

VARIABLES
  file,     \* the pieces in the file
  lock,     \* the thread that holds each process's lock
  pc,       \* where each thread is in record()
  number,   \* the record each thread is on
  written   \* history: the records whose writer was told they are written

vars == <<file, lock, pc, number, written>>

Init ==
  /\ file = <<>>
  /\ lock = [p \in Process |-> Nobody]
  /\ pc = [w \in Writer |-> "idle"]
  /\ number = [w \in Writer |-> 0]
  /\ written = {}

-----------------------------------------------------------------------------
Torn == file # <<>> /\ ~Last(file).newline

PieceOf(w, newline) == [writer |-> w, number |-> number[w], newline |-> newline]

Goto(w, from, to) == pc[w] = from /\ pc' = [pc EXCEPT ![w] = to]

Unlock(w) == lock' = [lock EXCEPT ![ProcessOf[w]] = Nobody]

Start(w) ==
  /\ number[w] < MaxRecords
  /\ Goto(w, "idle", "acquire")
  /\ number' = [number EXCEPT ![w] = @ + 1]
  /\ UNCHANGED <<file, lock, written>>

Acquire(w) ==
  /\ lock[ProcessOf[w]] = Nobody
  /\ Goto(w, "acquire", "check")
  /\ lock' = [lock EXCEPT ![ProcessOf[w]] = w]
  /\ UNCHANGED <<file, number, written>>

\* Mutant: the last byte is not looked at.
CheckNothing(w) ==
  /\ Goto(w, "check", "write")
  /\ UNCHANGED <<file, lock, number, written>>

\* Open the file and look at its last byte.
CheckTail(w) ==
  /\ ~Torn
  /\ Goto(w, "check", "write")
  /\ UNCHANGED <<file, lock, number, written>>

\* Mutant: the lock is not released.
RefuseLocked(w) ==
  /\ Goto(w, "check", "idle")
  /\ UNCHANGED <<file, lock, number, written>>

\* An incomplete final record, or a file that cannot be opened:
\* AuditWriteError with nothing written.
RefuseAppend(w) ==
  /\ Goto(w, "check", "idle")
  /\ Unlock(w)
  /\ UNCHANGED <<file, number, written>>

\* Mutant: the line is flushed, and written again on close.
AppendTwice(w) ==
  /\ Goto(w, "write", "idle")
  /\ file' = file \o <<PieceOf(w, TRUE), PieceOf(w, TRUE)>>
  /\ written' = written \union {<<w, number[w]>>}
  /\ Unlock(w)
  /\ UNCHANGED number

\* The line reaches the file when the handle is closed.
AppendLine(w) ==
  /\ Goto(w, "write", "idle")
  /\ file' = Append(file, PieceOf(w, TRUE))
  /\ written' = written \union {<<w, number[w]>>}
  /\ Unlock(w)
  /\ UNCHANGED number

\* OSError: AuditWriteError, with none or a part of the line in the file.
WriteFails(w) ==
  /\ Goto(w, "write", "idle")
  /\ file' \in {file, Append(file, PieceOf(w, FALSE))}
  /\ Unlock(w)
  /\ UNCHANGED <<number, written>>

\* The process of w dies: its threads with it, and if one of them was
\* writing, none, a part or all of the line is in the file.
Crash(p) ==
  LET threads == {w \in Writer : ProcessOf[w] = p}
      writing == {w \in threads : pc[w] = "write"}
  IN
  /\ \E w \in threads : pc[w] # "dead"
  /\ file' \in {file} \union {Append(file, PieceOf(w, newline)) :
                               w \in writing, newline \in BOOLEAN}
  /\ pc' = [w \in Writer |-> IF w \in threads THEN "dead" ELSE pc[w]]
  /\ lock' = [lock EXCEPT ![p] = Nobody]
  /\ UNCHANGED <<number, written>>

\* A new process opens the same path.
Restart(p) ==
  /\ \A w \in Writer : ProcessOf[w] = p => pc[w] = "dead"
  /\ pc' = [w \in Writer |-> IF ProcessOf[w] = p THEN "idle" ELSE pc[w]]
  /\ UNCHANGED <<file, lock, number, written>>

Record(w) ==
  Acquire(w) \/ CheckTail(w) \/ RefuseAppend(w) \/ AppendLine(w) \/ WriteFails(w)

Next ==
  \/ \E w \in Writer : Start(w) \/ Record(w)
  \/ \E p \in Process : Crash(p) \/ Restart(p)

Spec == Init /\ [][Next]_vars

\* A thread that can run runs; the lock is held for a bounded time.
FairSpec == Spec /\ \A w \in Writer : WF_vars(Record(w))

-----------------------------------------------------------------------------
\* The records of w that are in the file with their newline, in order.
RecordsOf(w) ==
  LET upTo[n \in 0..Len(file)] ==
        IF n = 0 THEN <<>>
        ELSE IF file[n].writer = w /\ file[n].newline
             THEN Append(upTo[n - 1], file[n].number) ELSE upTo[n - 1]
  IN upTo[Len(file)]

Trail == INSTANCE AuditTrail WITH
  Author <- Writer, Log <- {"file"}, LogOf <- [w \in Writer |-> "file"],
  Event <- 1..MaxRecords,
  trail <- [w \in Writer |-> RecordsOf(w)], torn <- [l \in {"file"} |-> Torn]

\* With one process the file is an audit trail: a torn record stays the last,
\* the file never changes again, and records are never lost or repeated.
ImplementsTrail == Trail!TrailSpec

\* A record that its writer believes written is on a line of its own, once,
\* whatever other threads and their failures did before and since.
WrittenIsReadable ==
  \A record \in written :
    \E i \in DOMAIN file :
      /\ file[i] = [writer |-> record[1], number |-> record[2], newline |-> TRUE]
      /\ i > 1 => file[i - 1].newline
      /\ \A j \in DOMAIN file \ {i} : ~(file[j].writer = record[1] /\ file[j].number = record[2])

\* Every record() returns or raises: no failure keeps the lock.
EveryRecordEnds ==
  \A w \in Writer :
    pc[w] = "acquire" ~> pc[w] \in {"idle", "dead"} /\ lock[ProcessOf[w]] # w

\* A log whose last record is incomplete is not appended to: "the writer
\* refuses to append, preserves its bytes" (docs/THREAT_MODEL.md).
TornIsLast == [][Torn => file' = file]_vars
=============================================================================
