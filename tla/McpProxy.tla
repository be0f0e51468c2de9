------------------------------ MODULE McpProxy ------------------------------
(***************************************************************************)
(* McpStdioProxy (mcp_proxy.py): one asyncio loop between a client and the *)
(* wrapped MCP server.  Each client message has a task; a task runs alone  *)
(* until it awaits, and an action is one such stretch.                     *)
(*                                                                         *)
(* The gate is the component of module Firewall, seen from its caller: it  *)
(* refuses, fails before execution, or runs the operation (here: forward   *)
(* the message) and records its outcome, which may fail too.  The server   *)
(* is external: it reads the lines of its stdin, answers each any number   *)
(* of times, in any order and as late as it likes, and closes its pipes or *)
(* exits at any moment.  Its own requests, notifications and lines that no *)
(* request waits for pass through without touching this state.  A response *)
(* is in flight from the server only between two steps of the server, so   *)
(* reading it is one step with its sending.  Timers fire at any time.      *)
(***************************************************************************)
EXTENDS Naturals, Sequences

CONSTANTS
  Message,    \* the messages of the client, each sent once
  Calls,      \* those that are tools/call
  Malformed,  \* those that are rejected unread: undecodable or batch lines,
              \* aliases of tools/call, tools/call with bad parameters
  Id,         \* JSON-RPC ids of the client
  ClientId,   \* the id of each message; a client may use one again
  NoId,       \* the id of a message without one; a line that cannot be
              \* decoded counts as having the id null
  Garbled,    \* those that may hold a lone surrogate, or have a response that
              \* does: JSON can escape it, UTF-8 cannot encode it
  Nobody      \* the write lock is free

ASSUME MessageAssumption ==
  /\ Calls \subseteq Message
  /\ Malformed \subseteq Message
  /\ Garbled \subseteq Message
  /\ ClientId \in [Message -> Id \union {NoId}]
  /\ NoId \notin Id
  /\ Nobody \notin Message

VARIABLES
  mode,      \* where run() is
  pc,        \* where the task of each message is
  claimed,   \* _client_pending
  sequence,  \* _request_sequence
  internal,  \* the id each message carries towards the server, 0 if none
  pending,   \* pending: the future of each internal id
  writer,    \* who holds write_lock, or Nobody
  line,      \* what became of the line written for each message
  failure,   \* _child_failure is set
  closed,    \* the proxy closed the server's stdin
  broken,    \* the pipe to the server is lost
  exited,    \* the server's process is gone
  eof,       \* _read_child has ended
  answers,   \* history: what the client was told about each message
  escaped    \* history: internal ids that reached the client

taskVars == <<pc, claimed, answers>>
forwardVars == <<sequence, internal, pending>>
writeVars == <<writer, line>>
serverVars == <<broken, exited, eof>>
vars == <<mode, taskVars, forwardVars, writeVars, failure, closed, serverVars, escaped>>

Refusal == {"invalid", "duplicate", "policy_error", "not_executed"}

AnswerKind == Refusal \union {"result", "timeout", "unavailable", "audit_failed"}

Forwarding == {"writing", "draining", "aborting", "terminating", "waiting"}

Future == [state : {"open", "unavailable", "answered"}, of : Message \union {Nobody}]

Open == [state |-> "open", of |-> Nobody]

Unavailable == [state |-> "unavailable", of |-> Nobody]

Answered(m) == [state |-> "answered", of |-> m]

HasId(m) == ClientId[m] # NoId

InFlight(m) == pc[m] \in Forwarding \union {"gate"}

Raised(m) == pc[m] = "raised"

TypeOk ==
  /\ mode \in {"serving", "closing", "stopping", "returned"}
  /\ pc \in [Message -> Forwarding \union {"unread", "gate", "done", "raised", "cancelled"}]
  /\ claimed \subseteq Id
  /\ sequence \in Nat
  /\ internal \in [Message -> 0..sequence]
  /\ DOMAIN pending \subseteq 1..sequence
  /\ \A n \in DOMAIN pending : pending[n] \in Future
  /\ writer \in Message \union {Nobody}
  /\ line \in [Message -> {"none", "buffered", "dropped", "read"}]
  /\ failure \in BOOLEAN /\ closed \in BOOLEAN
  /\ broken \in BOOLEAN /\ exited \in BOOLEAN /\ eof \in BOOLEAN
  /\ answers \in [Message -> Seq([kind : AnswerKind, of : Message])]
  /\ escaped \subseteq 1..sequence

Init ==
  /\ mode = "serving"
  /\ pc = [m \in Message |-> "unread"]
  /\ claimed = {}
  /\ sequence = 0
  /\ internal = [m \in Message |-> 0]
  /\ pending = <<>>
  /\ writer = Nobody
  /\ line = [m \in Message |-> "none"]
  /\ failure = FALSE /\ closed = FALSE
  /\ broken = FALSE /\ exited = FALSE /\ eof = FALSE
  /\ answers = [m \in Message |-> <<>>]
  /\ escaped = {}

-----------------------------------------------------------------------------
(***************************************************************************)
(* The life of a task                                                      *)
(***************************************************************************)
\* Only a message with an id is answered.
Tell(m, kind, of) ==
  answers' = IF HasId(m)
             THEN [answers EXCEPT ![m] = Append(@, [kind |-> kind, of |-> of])]
             ELSE answers

\* Mutant: the client's id is never given back.
LeaveClaimed(m, end) ==
  /\ pc' = [pc EXCEPT ![m] = end]
  /\ UNCHANGED claimed
  /\ pending' = [n \in DOMAIN pending \ {internal[m]} |-> pending[n]]

\* The finally blocks: the internal id and the client's id are free again.
Leave(m, end) ==
  /\ pc' = [pc EXCEPT ![m] = end]
  /\ claimed' = claimed \ {ClientId[m]}
  /\ pending' = [n \in DOMAIN pending \ {internal[m]} |-> pending[n]]

\* forward() is over.  For a tools/call the gate records how; if it cannot,
\* the client is told so in place of the outcome.
Outcome(m, kind) == IF m \in Calls THEN {kind, "audit_failed"} ELSE {kind}

Conclude(m, kind, of) ==
  /\ Leave(m, "done")
  /\ \E told \in Outcome(m, kind) : Tell(m, told, of)

\* _forward_request up to the write; a message without id has no future.
Register(m) ==
  /\ pc' = [pc EXCEPT ![m] = "writing"]
  /\ IF HasId(m)
     THEN /\ sequence' = sequence + 1
          /\ internal' = [internal EXCEPT ![m] = sequence + 1]
          /\ pending' = [n \in DOMAIN pending \union {sequence + 1} |->
                           IF n = sequence + 1 THEN Open ELSE pending[n]]
     ELSE UNCHANGED forwardVars

\* encode_message raises in _forward_request, before the write: the number is
\* spent, and the future is popped again.
Misencodes(m) ==
  /\ m \in Garbled
  /\ HasId(m)
  /\ sequence' = sequence + 1
  /\ UNCHANGED internal

Arrives(m) == mode = "serving" /\ pc[m] = "unread"

Reject(m) ==
  /\ Arrives(m)
  /\ m \in Malformed
  /\ pc' = [pc EXCEPT ![m] = "done"]
  /\ Tell(m, "invalid", m)
  /\ UNCHANGED <<mode, claimed, forwardVars, writeVars, failure, closed, serverVars, escaped>>

Duplicate(m) == HasId(m) /\ ClientId[m] \in claimed

\* Mutant: the duplicate is dropped.
RejectDuplicateSilently(m) ==
  /\ Arrives(m)
  /\ m \notin Malformed
  /\ Duplicate(m)
  /\ pc' = [pc EXCEPT ![m] = "done"]
  /\ UNCHANGED <<mode, claimed, answers, forwardVars, writeVars, failure, closed, serverVars,
                 escaped>>

RejectDuplicate(m) ==
  /\ Arrives(m)
  /\ m \notin Malformed
  /\ Duplicate(m)
  /\ pc' = [pc EXCEPT ![m] = "done"]
  /\ Tell(m, "duplicate", m)
  /\ UNCHANGED <<mode, claimed, forwardVars, writeVars, failure, closed, serverVars, escaped>>

Claim(m) == claimed' = IF HasId(m) THEN claimed \union {ClientId[m]} ELSE claimed

ReceiveCall(m) ==
  /\ Arrives(m)
  /\ m \in Calls \ Malformed
  /\ ~Duplicate(m)
  /\ Claim(m)
  /\ pc' = [pc EXCEPT ![m] = "gate"]
  /\ UNCHANGED <<mode, answers, forwardVars, writeVars, failure, closed, serverVars, escaped>>

\* Anything else goes to the server as it is, unless the server was aborted.
\* Nothing catches what encode_message raises here.
ReceiveOther(m) ==
  /\ Arrives(m)
  /\ m \notin Calls \union Malformed
  /\ ~Duplicate(m)
  /\ IF failure
     THEN /\ pc' = [pc EXCEPT ![m] = "done"]
          /\ Tell(m, "unavailable", m)
          /\ UNCHANGED <<claimed, forwardVars>>
     ELSE \/ Claim(m) /\ Register(m) /\ UNCHANGED answers
          \/ /\ Misencodes(m)
             /\ pc' = [pc EXCEPT ![m] = "raised"]
             /\ UNCHANGED <<claimed, pending, answers>>
  /\ UNCHANGED <<mode, writeVars, failure, closed, serverVars, escaped>>

\* The policy, the approver, the store or the audit log stops the call.
GateRefuses(m) ==
  /\ pc[m] = "gate"
  /\ Leave(m, "done")
  /\ \E kind \in {"policy_error", "not_executed"} : Tell(m, kind, m)
  /\ UNCHANGED <<mode, sequence, internal, writeVars, failure, closed, serverVars, escaped>>

GateAdmits(m) ==
  /\ pc[m] = "gate"
  /\ IF failure
     THEN Conclude(m, "unavailable", m) /\ UNCHANGED <<sequence, internal>>
     ELSE \/ Register(m) /\ UNCHANGED <<claimed, answers>>
          \/ Misencodes(m) /\ Conclude(m, "not_executed", m)
  /\ UNCHANGED <<mode, writeVars, failure, closed, serverVars, escaped>>

-----------------------------------------------------------------------------
(***************************************************************************)
(* _write_child, under its timeout                                         *)
(***************************************************************************)
\* write() puts the whole line in the transport, which drops it once closed.
Write(m) ==
  /\ pc[m] = "writing"
  /\ writer = Nobody
  /\ writer' = m
  /\ pc' = [pc EXCEPT ![m] = "draining"]
  /\ line' = [line EXCEPT ![m] = IF closed THEN "dropped" ELSE "buffered"]
  /\ UNCHANGED <<mode, claimed, answers, forwardVars, failure, closed, serverVars, escaped>>

\* drain() returns: the buffer is below its limit, or nothing reported the
\* loss of the pipe yet.  A message without id is finished with that.
Drained(m) ==
  /\ pc[m] = "draining"
  /\ writer' = Nobody
  /\ IF HasId(m)
     THEN pc' = [pc EXCEPT ![m] = "waiting"] /\ UNCHANGED <<claimed, answers, pending>>
     ELSE Conclude(m, "result", m)
  /\ UNCHANGED <<mode, sequence, internal, line, failure, closed, serverVars, escaped>>

\* drain() raises ConnectionResetError: the gate's caller answers that nothing
\* was executed, but in _passthrough_client_message nothing catches it.
DrainFails(m) ==
  /\ pc[m] = "draining"
  /\ broken
  /\ writer' = Nobody
  /\ IF m \in Calls THEN Conclude(m, "not_executed", m)
                    ELSE Leave(m, "raised") /\ UNCHANGED answers
  /\ UNCHANGED <<mode, sequence, internal, line, failure, closed, serverVars, escaped>>

\* wait_for cancels the write or the wait for the lock, which is free before
\* the exception reaches the task: another write may come in between.
WriteTimesOut(m) ==
  /\ pc[m] \in {"writing", "draining"}
  /\ pc' = [pc EXCEPT ![m] = "aborting"]
  /\ writer' = IF writer = m THEN Nobody ELSE writer
  /\ UNCHANGED <<mode, claimed, answers, forwardVars, line, failure, closed, serverVars, escaped>>

\* Mutant: the stalled server is left alone.
AbortBeginsPolitely(m) ==
  /\ pc[m] = "aborting"
  /\ pc' = [pc EXCEPT ![m] = "terminating"]
  /\ failure' = TRUE
  /\ UNCHANGED <<mode, claimed, answers, forwardVars, writeVars, closed, serverVars, escaped>>

\* _abort_child closes stdin and terminates the server, then kills it.
AbortBegins(m) ==
  /\ pc[m] = "aborting"
  /\ pc' = [pc EXCEPT ![m] = "terminating"]
  /\ failure' = TRUE
  /\ closed' = TRUE
  /\ UNCHANGED <<mode, claimed, answers, forwardVars, writeVars, serverVars, escaped>>

AbortEnds(m) ==
  /\ pc[m] = "terminating"
  /\ exited
  /\ Conclude(m, "timeout", m)
  /\ UNCHANGED <<mode, sequence, internal, writeVars, failure, closed, serverVars, escaped>>

-----------------------------------------------------------------------------
(***************************************************************************)
(* The wait for the response, and _read_child                              *)
(***************************************************************************)
\* Nothing catches what encode_message raises in _write_client.
GetsResponse(m) ==
  /\ pc[m] = "waiting"
  /\ pending[internal[m]].state = "answered"
  /\ \/ Conclude(m, "result", pending[internal[m]].of)
     \/ m \in Garbled /\ Leave(m, "raised") /\ UNCHANGED answers
  /\ UNCHANGED <<mode, sequence, internal, writeVars, failure, closed, serverVars, escaped>>

GetsUnavailable(m) ==
  /\ pc[m] = "waiting"
  /\ pending[internal[m]].state = "unavailable"
  /\ Conclude(m, "unavailable", m)
  /\ UNCHANGED <<mode, sequence, internal, writeVars, failure, closed, serverVars, escaped>>

\* Mutant: the timeout of a call is an internal error like any other.
WaitTimesOutUntold(m) ==
  /\ pc[m] = "waiting"
  /\ Conclude(m, IF m \in Calls THEN "not_executed" ELSE "timeout", m)
  /\ UNCHANGED <<mode, sequence, internal, writeVars, failure, closed, serverVars, escaped>>

\* The timer may win although the response has just been read.
WaitTimesOut(m) ==
  /\ pc[m] = "waiting"
  /\ Conclude(m, "timeout", m)
  /\ UNCHANGED <<mode, sequence, internal, writeVars, failure, closed, serverVars, escaped>>

Awaited(m) == internal[m] \in DOMAIN pending /\ pending[internal[m]] = Open

\* Mutant: a response without a future passes through like any other line.
ReadResponseRaw(m) ==
  /\ ~eof
  /\ line[m] = "read"
  /\ HasId(m)
  /\ IF Awaited(m)
     THEN pending' = [pending EXCEPT ![internal[m]] = Answered(m)] /\ UNCHANGED escaped
     ELSE escaped' = escaped \union {internal[m]} /\ UNCHANGED pending
  /\ UNCHANGED <<mode, taskVars, sequence, internal, writeVars, failure, closed, serverVars>>

\* The server answers the line of m under the id it read there.  A response
\* that no future waits for is late, and dropped.
ReadResponse(m) ==
  /\ ~eof
  /\ line[m] = "read"
  /\ HasId(m)
  /\ pending' = IF Awaited(m) THEN [pending EXCEPT ![internal[m]] = Answered(m)] ELSE pending
  /\ UNCHANGED <<mode, taskVars, sequence, internal, writeVars, failure, closed, serverVars, escaped>>

\* The end of the server's stdout fails every future that is still open.
ReaderEnds ==
  /\ ~eof
  /\ eof' = TRUE
  /\ pending' = [n \in DOMAIN pending |-> IF pending[n] = Open THEN Unavailable ELSE pending[n]]
  /\ UNCHANGED <<mode, taskVars, sequence, internal, writeVars, failure, closed,
                 broken, exited, escaped>>

-----------------------------------------------------------------------------
(***************************************************************************)
(* The wrapped server                                                      *)
(***************************************************************************)
\* A line is whole in the pipe unless its writer still waits for room.
ServerReads(m) ==
  /\ line[m] = "buffered"
  /\ pc[m] # "draining"
  /\ ~broken /\ ~exited
  /\ line' = [line EXCEPT ![m] = "read"]
  /\ UNCHANGED <<mode, taskVars, forwardVars, writer, failure, closed, serverVars, escaped>>

PipeBreaks ==
  /\ ~broken
  /\ broken' = TRUE
  /\ UNCHANGED <<mode, taskVars, forwardVars, writeVars, failure, closed, exited, eof, escaped>>

Exit ==
  /\ ~exited
  /\ exited' = TRUE
  /\ UNCHANGED <<mode, taskVars, forwardVars, writeVars, failure, closed, broken, eof, escaped>>

-----------------------------------------------------------------------------
(***************************************************************************)
(* run                                                                     *)
(***************************************************************************)
ClientCloses ==
  /\ mode = "serving"
  /\ mode' = "closing"
  /\ UNCHANGED <<taskVars, forwardVars, writeVars, failure, closed, serverVars, escaped>>

\* Mutant: nobody waits for the tasks.
StopAtOnce ==
  /\ mode = "closing"
  /\ mode' = "stopping"
  /\ closed' = TRUE
  /\ UNCHANGED <<taskVars, forwardVars, writeVars, failure, serverVars, escaped>>

\* gather returns when every task has, or with the first exception.
Stop ==
  /\ mode = "closing"
  /\ (\A m \in Message : ~InFlight(m)) \/ (\E m \in Message : Raised(m))
  /\ mode' = "stopping"
  /\ closed' = TRUE
  /\ UNCHANGED <<taskVars, forwardVars, writeVars, failure, serverVars, escaped>>

\* The reader has ended and, unless an exception is on its way, so has the
\* process.  asyncio.run cancels the tasks that gather left behind.
Return ==
  /\ mode = "stopping"
  /\ eof
  /\ exited \/ \E m \in Message : Raised(m)
  /\ mode' = "returned"
  /\ pc' = [m \in Message |-> IF InFlight(m) THEN "cancelled" ELSE pc[m]]
  /\ claimed' = {}
  /\ pending' = <<>>
  /\ writer' = Nobody
  /\ UNCHANGED <<answers, sequence, internal, line, failure, closed, serverVars, escaped>>

-----------------------------------------------------------------------------
Receive(m) == Reject(m) \/ RejectDuplicate(m) \/ ReceiveCall(m) \/ ReceiveOther(m)

GateDecides(m) == GateRefuses(m) \/ GateAdmits(m)

Abort(m) == AbortBegins(m) \/ AbortEnds(m)

Wait(m) == GetsResponse(m) \/ GetsUnavailable(m) \/ WaitTimesOut(m)

Next ==
  \/ \E m \in Message :
       \/ Receive(m) \/ GateDecides(m)
       \/ Write(m) \/ Drained(m) \/ DrainFails(m) \/ WriteTimesOut(m)
       \/ Abort(m) \/ Wait(m)
       \/ ReadResponse(m) \/ ServerReads(m)
  \/ ReaderEnds \/ PipeBreaks \/ Exit
  \/ ClientCloses \/ Stop \/ Return

Spec == Init /\ [][Next]_vars

\* Timers fire, the gate decides (module Firewall), a killed server exits, and
\* a server whose stdin is closed exits by the convention of MCP over stdio.
FairSpec ==
  /\ Spec
  /\ \A m \in Message :
       WF_vars(GateDecides(m)) /\ WF_vars(WriteTimesOut(m)) /\ WF_vars(Abort(m))
                               /\ WF_vars(WaitTimesOut(m))
  /\ WF_vars(closed /\ Exit) /\ WF_vars(exited /\ ReaderEnds)
  /\ WF_vars(Stop) /\ WF_vars(Return)

-----------------------------------------------------------------------------
Ex == INSTANCE Exchange WITH executed <- {m \in Message : line[m] = "read"}

\* The proxy keeps its promise to the client: one answer per message at most,
\* a result only from the server's work on that message, even when ids are
\* used again and responses come late or twice, and "blocked", "duplicate" or
\* "not executed" only when the server never gets the message.
ImplementsExchange == Ex!ExchangeSpec

\* Every task that ends of itself answered its message, once; a task in
\* progress has not answered yet.
AnsweredOnce ==
  \A m \in Message :
    Len(answers[m]) = IF HasId(m) /\ pc[m] = "done" THEN 1 ELSE 0

\* _client_pending and pending hold what is in flight and nothing else: an id
\* of the client is claimed by one task and free as soon as that task ends,
\* no future outlives its request, and no response that comes too late for its
\* future reaches the client under its internal id.
TablesExact ==
  /\ claimed = {ClientId[m] : m \in {k \in Message : InFlight(k) /\ HasId(k)}}
  /\ DOMAIN pending =
       {internal[m] : m \in {k \in Message : pc[k] \in Forwarding /\ HasId(k)}}
  /\ escaped = {}
  /\ \A m, k \in Message :
       m # k /\ InFlight(m) /\ InFlight(k) /\ HasId(m) => ClientId[m] # ClientId[k]

\* run() returns only when the client has all its answers, unless a task raised:
\* at the loss of the pipe, when it passes messages through, or at text that
\* cannot be encoded.
ReturnsAnswered ==
  mode = "returned" =>
    \/ \A m \in Message : HasId(m) /\ pc[m] # "unread" => answers[m] # <<>>
    \/ \E m \in Message : Raised(m)

\* Whatever the server answers, as long as it exits when it is killed or loses
\* its stdin, every message leaves the proxy, and once the client closes its
\* side run() returns.
NothingHangs ==
  /\ \A m \in Message : InFlight(m) ~> ~InFlight(m)
  /\ mode = "closing" ~> mode = "returned"

\* "Child MCP server exits before responding: the pending request fails closed
\* with an error instead of hanging" (docs/THREAT_MODEL.md): a request whose
\* task is over was answered.
ExitIsReported == \A m \in Message : HasId(m) /\ Raised(m) => answers[m] # <<>>
=============================================================================
