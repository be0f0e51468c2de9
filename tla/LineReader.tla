----------------------------- MODULE LineReader -----------------------------
(***************************************************************************)
(* The two line readers of mcp_proxy.py, each called again and again until *)
(* it returns the end of the input: _read_line on the client's stdin       *)
(* (readline blocks until it has all it asked for) and _read_child_line on *)
(* the server's stdout (read returns what has arrived, so a chunk ends     *)
(* anywhere and may hold several lines).  Both skip a line longer than the *)
(* limit without keeping it in memory.                                     *)
(***************************************************************************)
EXTENDS Naturals, Sequences, FiniteSets, SequencesExt, FiniteSetsExt

CONSTANTS
  Byte,       \* the bytes that are told apart
  Newline,
  Limit,      \* max_line_bytes, which counts the newline
  DrainSize,  \* bytes asked for at a time while skipping: 65536
  MaxInput    \* bound: the length of an input

ASSUME ReaderAssumption ==
  /\ Newline \in Byte
  /\ {Limit, DrainSize} \subseteq Nat \ {0}
  /\ MaxInput \in Nat

VARIABLES
  stream,     \* which reader this is
  input,      \* all that will arrive, up to the end of the file
  position,   \* how much of it has been taken from the stream
  line,       \* line: the bytes of the line in progress
  remainder,  \* remainder: bytes behind the last line, of _read_child_line
  state,      \* between two calls, in a call, or past the last
  frames      \* history: what the calls returned

vars == <<stream, input, position, line, remainder, state, frames>>

\* What a call returns for a line that is too long.
Oversized == <<"oversized">>

Bytes(maximum) == UNION {[1..n -> Byte] : n \in 0..maximum}

Init ==
  /\ stream \in {"stdin", "child"}
  /\ input \in Bytes(MaxInput)
  /\ position = 0
  /\ line = <<>> /\ remainder = <<>>
  /\ state = "start"
  /\ frames = <<>>

-----------------------------------------------------------------------------
Coming == SubSeq(input, position + 1, Len(input))

AtEnd == Coming = <<>>

AtMost(s, size) == SubSeq(s, 1, Min({size, Len(s)}))

HasNewline(s) == Newline \in ToSet(s)

NewlineAt(s) == Min({i \in DOMAIN s : s[i] = Newline})

ThroughNewline(s) == SubSeq(s, 1, NewlineAt(s))

BehindNewline(s) == SubSeq(s, NewlineAt(s) + 1, Len(s))

\* What readline(size) returns of what is coming.
Readline(size) ==
  LET piece == AtMost(Coming, size) IN
  IF HasNewline(piece) THEN ThroughNewline(piece) ELSE piece

Frame(s, length) == IF length > Limit THEN Oversized ELSE s

\* The call returns a line or reports one that was too long.
ReturnFrame(frame, rest) ==
  /\ frames' = Append(frames, frame)
  /\ state' = "start"
  /\ line' = <<>>
  /\ remainder' = rest

\* The call returns the empty line: run and _read_child leave their loops.
ReturnEnd ==
  /\ state' = "ended"
  /\ line' = <<>>
  /\ UNCHANGED <<remainder, frames>>

-----------------------------------------------------------------------------
\* _read_line: one byte more than the limit tells a line that is too long.
ReadStdin ==
  /\ stream = "stdin" /\ state = "start"
  /\ LET piece == Readline(Limit + 1) IN
     /\ position' = position + Len(piece)
     /\ \/ piece = <<>> /\ ReturnEnd
        \/ /\ piece # <<>>
           /\ Len(piece) <= Limit \/ HasNewline(piece)
           /\ ReturnFrame(Frame(piece, Len(piece)), <<>>)
        \/ /\ Len(piece) > Limit /\ ~HasNewline(piece)
           /\ state' = "reading" /\ line' = piece
           /\ UNCHANGED <<remainder, frames>>
  /\ UNCHANGED <<stream, input>>

DrainStdin ==
  /\ stream = "stdin" /\ state = "reading"
  /\ LET piece == Readline(DrainSize) IN
     /\ position' = position + Len(piece)
     /\ IF piece = <<>> \/ HasNewline(piece)
        THEN ReturnFrame(Oversized, <<>>)
        ELSE line' = piece /\ UNCHANGED <<remainder, state, frames>>
  /\ UNCHANGED <<stream, input>>

-----------------------------------------------------------------------------
\* Mutant: what the last call left behind is lost.
StartAfresh ==
  /\ stream = "child" /\ state = "start"
  /\ state' = "reading"
  /\ remainder' = <<>>
  /\ UNCHANGED <<stream, input, position, line, frames>>

\* _read_child_line: a line in the remainder needs no read.
StartLine ==
  /\ stream = "child" /\ state = "start"
  /\ IF HasNewline(remainder)
     THEN ReturnFrame(Frame(ThroughNewline(remainder), Len(remainder)),
                      BehindNewline(remainder))
     ELSE /\ state' = "reading"
          /\ line' = remainder
          /\ remainder' = <<>>
          /\ UNCHANGED frames
  /\ UNCHANGED <<stream, input, position>>

Reading == stream = "child" /\ state = "reading"

\* read(size) returns at least one byte unless the input has ended.
Arrives(size) == {AtMost(Coming, n) : n \in 1..size} \ {<<>>}

\* Mutant: a whole block is asked for.
ReadBlock ==
  /\ Reading /\ Len(line) <= Limit
  /\ \E chunk \in Arrives(DrainSize) :
       /\ position' = position + Len(chunk)
       /\ IF HasNewline(chunk)
          THEN LET whole == line \o ThroughNewline(chunk) IN
               ReturnFrame(Frame(whole, Len(whole)), BehindNewline(chunk))
          ELSE line' = line \o chunk /\ UNCHANGED <<remainder, state, frames>>
  /\ UNCHANGED <<stream, input>>

ReadChunk ==
  /\ Reading /\ Len(line) <= Limit
  /\ \E chunk \in Arrives(Limit + 1 - Len(line)) :
       /\ position' = position + Len(chunk)
       /\ IF HasNewline(chunk)
          THEN LET whole == line \o ThroughNewline(chunk) IN
               ReturnFrame(Frame(whole, Len(whole)), BehindNewline(chunk))
          ELSE line' = line \o chunk /\ UNCHANGED <<remainder, state, frames>>
  /\ UNCHANGED <<stream, input>>

ReadEnd ==
  /\ Reading /\ Len(line) <= Limit
  /\ AtEnd
  /\ IF line = <<>> THEN ReturnEnd ELSE ReturnFrame(line, <<>>)
  /\ UNCHANGED <<stream, input, position>>

DrainChunk ==
  /\ Reading /\ Len(line) > Limit
  /\ \E chunk \in Arrives(DrainSize) :
       /\ position' = position + Len(chunk)
       /\ IF HasNewline(chunk)
          THEN ReturnFrame(Oversized, BehindNewline(chunk))
          ELSE UNCHANGED <<line, remainder, state, frames>>
  /\ UNCHANGED <<stream, input>>

\* Mutant: the loop goes on at the end of the input.
DrainOn == Reading /\ Len(line) > Limit /\ AtEnd /\ UNCHANGED vars

DrainEnd ==
  /\ Reading /\ Len(line) > Limit
  /\ AtEnd
  /\ ReturnFrame(Oversized, <<>>)
  /\ UNCHANGED <<stream, input, position>>

Next ==
  \/ ReadStdin \/ DrainStdin
  \/ StartLine \/ ReadChunk \/ ReadEnd \/ DrainChunk \/ DrainEnd

\* What was sent arrives, and so does its end.
Spec == Init /\ [][Next]_vars /\ WF_vars(Next)

-----------------------------------------------------------------------------
(***************************************************************************)
(* The reference: the input cut behind its newlines                        *)
(***************************************************************************)
\* Where a line ends: at a newline, or with the input.
Ends == {e \in DOMAIN input : input[e] = Newline \/ e = Len(input)}

EndsUpTo(p) == {e \in Ends : e <= p}

\* How many lines end there or before.
Rank(p) == Cardinality(EndsUpTo(p))

\* Where the line before ends.
EndBefore(e) == Max({0} \union EndsUpTo(e - 1))

LineEnding(e) == SubSeq(input, EndBefore(e) + 1, e)

\* However the bytes arrive, the reader returns every line that fits the
\* limit, whole and in order, and reports every other: nothing is lost and the
\* line after a long one is not damaged ("the stream stays frame-aligned",
\* docstring of _read_line; "instead of being lost; the same applies while
\* draining an oversized line", docstring of _read_child_line).
FramesExact ==
  /\ Len(frames) <= Cardinality(Ends)
  /\ \A e \in Ends : Rank(e) <= Len(frames) =>
        frames[Rank(e)] = Frame(LineEnding(e), Len(LineEnding(e)))
  /\ state = "ended" => Len(frames) = Cardinality(Ends)

\* A line that is too long never accumulates ("bounding the memory it can
\* use").
MemoryBounded ==
  \A kept \in {line, remainder} : Len(kept) <= Max({Limit + 1, DrainSize})

\* The end of the input ends the reader, also inside a line too long.
ReaderEnds == <>(state = "ended")
=============================================================================
