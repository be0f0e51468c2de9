----------------------------- MODULE AuditTrail -----------------------------
(***************************************************************************)
(* What an audit log promises the code that writes evidence: a record is   *)
(* either in the log, whole and in order, or the writer is told that it is *)
(* not; and once a log ends in an incomplete record it never changes       *)
(* again.                                                                  *)
(*                                                                         *)
(* The trail is kept per author (a thread, or a call whose id the records  *)
(* carry); the order between authors is not promised.                      *)
(***************************************************************************)
EXTENDS Sequences

CONSTANTS
  Author,   \* who writes records
  Log,      \* the audit files
  LogOf,    \* the file each author writes to, in [Author -> Log]
  Event     \* what a record can say

VARIABLES
  trail,   \* the whole records of each author
  torn     \* the logs that end in an incomplete record

trailVars == <<trail, torn>>

TrailInit ==
  /\ trail = [a \in Author |-> <<>>]
  /\ torn = [l \in Log |-> FALSE]

\* Mutant: the last byte is not looked at.
WriteAnyway(a, event) ==
  /\ trail' = [trail EXCEPT ![a] = Append(@, event)]
  /\ UNCHANGED torn

\* The record is written, newline included.
Write(a, event) ==
  /\ ~torn[LogOf[a]]
  /\ trail' = [trail EXCEPT ![a] = Append(@, event)]
  /\ UNCHANGED torn

\* No byte is written: the log is torn, or cannot be opened or appended to.
Refuse(a) == UNCHANGED trailVars

\* Part of a record is written: the disk is full, or the process dies.
Tear(a) ==
  /\ ~torn[LogOf[a]]
  /\ torn' = [torn EXCEPT ![LogOf[a]] = TRUE]
  /\ UNCHANGED trail

TrailNext ==
  \E a \in Author : Tear(a) \/ \E event \in Event : Write(a, event)

TrailSpec == TrailInit /\ [][TrailNext]_trailVars
=============================================================================
