-------------------------- MODULE LineReaderProofs --------------------------
(***************************************************************************)
(* However the bytes arrive, the two readers of the proxy cut them into    *)
(* the lines that were sent, for every alphabet, input and limit.          *)
(***************************************************************************)
EXTENDS LineReader, SequenceTheorems, FiniteSetTheorems, WellFoundedInduction, TLAPS

-----------------------------------------------------------------------------
(***************************************************************************)
(* Stretches of a sequence                                                 *)
(***************************************************************************)

\* Every set of naturals that is not empty has a least element.
LEMMA LeastOfNat ==
  ASSUME NEW S, S \subseteq Nat, S # {}
  PROVE  \E n \in S : \A k \in S : n <= k
<1> DEFINE Below == OpToRel(<, Nat)
<1>1. \A k, n \in Nat : k < n => <<k, n>> \in Below
  BY DEF OpToRel
<1>2. IsWellFoundedOn(Below, Nat)
  BY NatLessThanWellFounded
<1> HIDE DEF Below
<1>3. PICK n \in S : \A k \in S : <<k, n>> \notin Below
  BY <1>2, WFMin, Zenon
<1>4. ASSUME NEW k \in S
      PROVE  n <= k
  <2>1. n \in Nat /\ k \in Nat /\ ~(k < n)
    BY <1>1, <1>3
  <2> QED
    BY <2>1
<1> QED
  BY <1>3, <1>4

\* The bytes of s behind place a, up to place b.
Stretch(s, a, b) == SubSeq(s, a + 1, b)

LEMMA StretchIs ==
  ASSUME NEW s \in Seq(Byte), NEW a \in Nat, NEW b \in a..Len(s)
  PROVE  /\ Stretch(s, a, b) \in Seq(Byte)
         /\ Len(Stretch(s, a, b)) = b - a
         /\ \A i \in 1..b - a : Stretch(s, a, b)[i] = s[a + i]
<1>1. \A i \in a + 1..b : s[i] \in Byte
  BY ElementOfSeq
<1>2. a + 1 \in Int /\ b \in Int /\ b - (a + 1) + 1 = b - a
  OBVIOUS
<1>3. /\ SubSeq(s, a + 1, b) \in Seq(Byte)
      /\ Len(SubSeq(s, a + 1, b)) = IF a + 1 <= b THEN b - (a + 1) + 1 ELSE 0
      /\ \A i \in 1..b - (a + 1) + 1 : SubSeq(s, a + 1, b)[i] = s[a + 1 + i - 1]
  BY <1>1, <1>2, SubSeqProperties
<1>4. Len(SubSeq(s, a + 1, b)) = b - a
  BY <1>3
<1>5. \A i \in 1..b - a : a + 1 + i - 1 = a + i
  OBVIOUS
<1> QED
  BY <1>2, <1>3, <1>4, <1>5 DEF Stretch

LEMMA StretchUnique ==
  ASSUME NEW s \in Seq(Byte), NEW a \in Nat, NEW b \in a..Len(s),
         NEW t \in Seq(Byte), Len(t) = b - a, \A i \in 1..b - a : t[i] = s[a + i]
  PROVE  t = Stretch(s, a, b)
<1>1. /\ Stretch(s, a, b) \in Seq(Byte) /\ Len(Stretch(s, a, b)) = Len(t)
      /\ \A i \in 1..Len(t) : t[i] = Stretch(s, a, b)[i]
  BY StretchIs
<1> QED
  BY <1>1, SeqEqual, Zenon

LEMMA StretchOfStretch ==
  ASSUME NEW s \in Seq(Byte), NEW a \in Nat, NEW b \in a..Len(s),
         NEW c \in 0..b - a, NEW d \in c..b - a
  PROVE  Stretch(Stretch(s, a, b), c, d) = Stretch(s, a + c, a + d)
<1> DEFINE t == Stretch(s, a, b)
<1>1. t \in Seq(Byte) /\ Len(t) = b - a /\ \A i \in 1..b - a : t[i] = s[a + i]
  BY StretchIs
<1> HIDE DEF t
<1>2. c \in Nat /\ d \in c..Len(t)
  BY <1>1
<1>3. /\ Stretch(t, c, d) \in Seq(Byte)
      /\ Len(Stretch(t, c, d)) = d - c
      /\ \A i \in 1..d - c : Stretch(t, c, d)[i] = t[c + i]
  BY <1>1, <1>2, StretchIs
<1>4. \A i \in 1..d - c : c + i \in 1..b - a /\ a + (c + i) = a + c + i
  OBVIOUS
<1>5. \A i \in 1..d - c : Stretch(t, c, d)[i] = s[a + c + i]
  BY <1>1, <1>3, <1>4
<1>6. a + c \in Nat /\ a + d \in a + c..Len(s) /\ (a + d) - (a + c) = d - c
  OBVIOUS
<1>7. Stretch(t, c, d) = Stretch(s, a + c, a + d)
  BY <1>3, <1>5, <1>6, StretchUnique
<1> QED
  BY <1>7 DEF t

LEMMA StretchesJoin ==
  ASSUME NEW s \in Seq(Byte), NEW a \in Nat, NEW b \in a..Len(s), NEW c \in b..Len(s)
  PROVE  Stretch(s, a, b) \o Stretch(s, b, c) = Stretch(s, a, c)
<1> DEFINE t == Stretch(s, a, b)  u == Stretch(s, b, c)
<1>1. t \in Seq(Byte) /\ Len(t) = b - a /\ \A i \in 1..b - a : t[i] = s[a + i]
  BY StretchIs
<1>2. u \in Seq(Byte) /\ Len(u) = c - b /\ \A i \in 1..c - b : u[i] = s[b + i]
  <2>1. b \in Nat /\ c \in b..Len(s)
    OBVIOUS
  <2> QED
    BY <2>1, StretchIs
<1> HIDE DEF t, u
<1>3. /\ t \o u \in Seq(Byte)
      /\ Len(t \o u) = Len(t) + Len(u)
      /\ \A i \in 1..Len(t) + Len(u) :
            (t \o u)[i] = IF i <= Len(t) THEN t[i] ELSE u[i - Len(t)]
  BY <1>1, <1>2, ConcatProperties
<1>4. ASSUME NEW i \in 1..c - a
      PROVE  (t \o u)[i] = s[a + i]
  <2>1. i \in 1..Len(t) + Len(u) /\ i \in Int /\ b - a \in Nat
    BY <1>1, <1>2
  <2>2. CASE i <= b - a
    BY <1>1, <1>2, <1>3, <2>1, <2>2
  <2>3. CASE i > b - a
    <3>1. i - (b - a) \in 1..c - b /\ b + (i - (b - a)) = a + i
      BY <2>3
    <3>2. (t \o u)[i] = u[i - (b - a)]
      BY <1>1, <1>3, <2>1, <2>3
    <3> QED
      BY <1>2, <3>1, <3>2
  <2> QED
    BY <2>1, <2>2, <2>3
<1>5. c \in a..Len(s) /\ Len(t \o u) = c - a
  BY <1>1, <1>2, <1>3
<1>6. t \o u = Stretch(s, a, c)
  BY <1>3, <1>4, <1>5, StretchUnique
<1> QED
  BY <1>6 DEF t, u

-----------------------------------------------------------------------------
(***************************************************************************)
(* What the helpers of the readers return                                  *)
(***************************************************************************)
LEMMA NewlineIs ==
  ASSUME NEW s \in Seq(Byte), HasNewline(s)
  PROVE  /\ NewlineAt(s) \in 1..Len(s)
         /\ s[NewlineAt(s)] = Newline
         /\ \A k \in 1..NewlineAt(s) - 1 : s[k] # Newline
<1> DEFINE N == {i \in DOMAIN s : s[i] = Newline}
<1>1. DOMAIN s = 1..Len(s) /\ Len(s) \in Nat
  BY LenProperties
<1>2. N \subseteq Nat /\ N # {}
  BY <1>1 DEF HasNewline, ToSet
<1>3. PICK n \in N : \A k \in N : n <= k
  BY <1>2, LeastOfNat, Zenon
<1>4. NewlineAt(s) \in N /\ \A k \in N : NewlineAt(s) <= k
  BY <1>3, Zenon DEF NewlineAt, Min
<1>5. ASSUME NEW k \in 1..NewlineAt(s) - 1
      PROVE  k \in DOMAIN s /\ k \notin N
  <2>1. NewlineAt(s) \in 1..Len(s)
    BY <1>1, <1>4 DEF N
  <2> HIDE DEF NewlineAt
  <2>2. k \in 1..Len(s) /\ ~(NewlineAt(s) <= k)
    BY <1>1, <2>1
  <2> QED
    BY <1>1, <1>4, <2>2, Zenon
<1> QED
  BY <1>1, <1>4, <1>5

LEMMA NoNewline ==
  ASSUME NEW s \in Seq(Byte), ~HasNewline(s)
  PROVE  \A k \in 1..Len(s) : s[k] # Newline
BY LenProperties DEF HasNewline, ToSet

LEMMA CutIs ==
  ASSUME NEW s \in Seq(Byte), HasNewline(s)
  PROVE  /\ ThroughNewline(s) = Stretch(s, 0, NewlineAt(s))
         /\ BehindNewline(s) = Stretch(s, NewlineAt(s), Len(s))
BY DEF ThroughNewline, BehindNewline, Stretch

\* A prefix of what is coming is a stretch of the input behind the position.
LEMMA PieceIs ==
  ASSUME NEW size \in Nat, input \in Seq(Byte), position \in 0..Len(input)
  PROVE  \E to \in position..Len(input) :
           /\ AtMost(Coming, size) = Stretch(input, position, to)
           /\ to - position <= size
           /\ to - position < size => to = Len(input)
<1> DEFINE n == Len(input) - position
           m == IF size <= n THEN size ELSE n
           to == position + m
<1>1. n \in Nat /\ m \in 0..n /\ to \in position..Len(input)
  OBVIOUS
<1>2. Coming = Stretch(input, position, Len(input)) /\ Len(Coming) = n
  BY StretchIs DEF Coming, Stretch
<1>3. Min({size, n}) = m
  <2>1. m \in {size, n} /\ \A y \in {size, n} : m <= y
    BY <1>1
  <2>2. \A x \in {size, n} : (\A y \in {size, n} : x <= y) => x = m
    BY <1>1
  <2> HIDE DEF m, n
  <2> QED
    BY <2>1, <2>2 DEF Min
<1>4. AtMost(Coming, size) = Stretch(Coming, 0, m)
  <2>1. AtMost(Coming, size) = SubSeq(Coming, 1, Min({size, n}))
    BY <1>2 DEF AtMost
  <2>2. 0 + 1 = 1
    OBVIOUS
  <2> QED
    BY <1>3, <2>1, <2>2, Zenon DEF Stretch
<1>5. Stretch(Coming, 0, m) = Stretch(input, position + 0, to)
  <2>1. position \in Nat /\ Len(input) \in position..Len(input) /\ 0 \in 0..n /\ m \in 0..n
    BY <1>1
  <2> QED
    BY <1>2, <2>1, StretchOfStretch
<1>6. position + 0 = position
  OBVIOUS
<1>7. to - position <= size /\ (to - position < size => to = Len(input))
  OBVIOUS
<1> HIDE DEF to
<1> QED
  BY <1>1, <1>4, <1>5, <1>6, <1>7

-----------------------------------------------------------------------------
(***************************************************************************)
(* The ends of the lines and their ranks                                   *)
(***************************************************************************)
LEMMA EndsAre ==
  ASSUME input \in Seq(Byte), NEW e \in Ends
  PROVE  e \in Nat /\ 1 <= e /\ e <= Len(input)
BY LenProperties DEF Ends

LEMMA EndsAreFinite ==
  ASSUME input \in Seq(Byte), NEW p
  PROVE  /\ Ends \subseteq 1..Len(input)
         /\ IsFiniteSet(Ends) /\ Cardinality(Ends) \in Nat
         /\ IsFiniteSet(EndsUpTo(p)) /\ Rank(p) \in Nat /\ Rank(p) <= Cardinality(Ends)
<1>1. Ends \subseteq 1..Len(input) /\ Len(input) \in Nat
  BY LenProperties DEF Ends
<1>2. IsFiniteSet(1..Len(input))
  BY <1>1, FS_Interval
<1>3. IsFiniteSet(Ends) /\ EndsUpTo(p) \in SUBSET Ends
  BY <1>1, <1>2, FS_Subset DEF EndsUpTo
<1>4. IsFiniteSet(EndsUpTo(p)) /\ Cardinality(EndsUpTo(p)) <= Cardinality(Ends)
  BY <1>3, FS_Subset
<1> QED
  BY <1>1, <1>3, <1>4, FS_CardinalityType DEF Rank

\* Ends have different ranks, in their order.
LEMMA RankGrows ==
  ASSUME input \in Seq(Byte), NEW p \in Nat, NEW e \in Ends, p < e
  PROVE  Rank(p) + 1 <= Rank(e)
<1>1. e \in Nat /\ e \notin EndsUpTo(p)
  BY EndsAre DEF EndsUpTo
<1>2. EndsUpTo(p) \union {e} \in SUBSET EndsUpTo(e)
  <2>1. ASSUME NEW d \in EndsUpTo(p)
        PROVE  d \in Ends /\ d <= e
    <3>1. d \in Ends /\ d \in Nat /\ d <= p
      BY EndsAre DEF EndsUpTo
    <3> QED
      BY <1>1, <3>1
  <2>2. e \in EndsUpTo(e)
    BY <1>1 DEF EndsUpTo
  <2>3. \A d \in EndsUpTo(p) : d \in EndsUpTo(e)
    BY <2>1 DEF EndsUpTo
  <2> QED
    BY <2>2, <2>3
<1>3. Cardinality(EndsUpTo(p) \union {e}) = Cardinality(EndsUpTo(p)) + 1
  BY <1>1, EndsAreFinite, FS_AddElement
<1>4. Cardinality(EndsUpTo(p) \union {e}) <= Cardinality(EndsUpTo(e))
  BY <1>2, EndsAreFinite, FS_Subset
<1> QED
  BY <1>3, <1>4 DEF Rank

\* No newline comes behind b up to p.
Quiet(b, p) == \A k \in b + 1..p : input[k] # Newline

\* e ends the line that begins behind b.
Follows(b, e) == b < e /\ e \in Ends /\ Quiet(b, e - 1)

LEMMA NoEndBetween ==
  ASSUME input \in Seq(Byte), NEW b \in Nat, NEW e \in Ends, Follows(b, e), NEW d \in Ends
  PROVE  d <= b \/ d >= e
BY EndsAreFinite, LenProperties DEF Follows, Quiet, Ends

LEMMA RankOfNext ==
  ASSUME input \in Seq(Byte), NEW b \in Nat, NEW e \in Ends, Follows(b, e)
  PROVE  Rank(e) = Rank(b) + 1
<1>1. e \in Nat /\ e \notin EndsUpTo(b) /\ b < e
  BY EndsAre DEF EndsUpTo, Follows
<1>2. \A d \in Ends : d <= e <=> d <= b \/ d = e
  BY <1>1, NoEndBetween, EndsAre
<1>3. EndsUpTo(e) = EndsUpTo(b) \union {e}
  BY <1>2 DEF EndsUpTo
<1> QED
  BY <1>1, <1>3, EndsAreFinite, FS_AddElement DEF Rank

LEMMA LineBehind ==
  ASSUME input \in Seq(Byte), NEW b \in Nat, b = 0 \/ b \in Ends, NEW e \in Ends,
         Follows(b, e)
  PROVE  LineEnding(e) = Stretch(input, b, e)
<1> DEFINE B == {0} \union EndsUpTo(e - 1)
<1>1. e \in Nat /\ b < e
  BY EndsAre DEF Follows
<1>2. b \in B /\ \A y \in B : b >= y
  <2>1. b \in B
    BY <1>1 DEF EndsUpTo
  <2>2. ASSUME NEW y \in EndsUpTo(e - 1)
        PROVE  b >= y
    <3>1. y \in Ends /\ y <= e - 1 /\ y \in Nat
      BY EndsAre DEF EndsUpTo
    <3> QED
      BY <1>1, <3>1, NoEndBetween
  <2> QED
    BY <2>1, <2>2
<1>3. \A x \in B : x \in Nat
  BY EndsAre DEF EndsUpTo
<1> HIDE DEF B
<1>4. \A x \in B : (\A y \in B : x >= y) => x = b
  BY <1>2, <1>3
<1>5. Max(B) = b
  BY <1>2, <1>4 DEF Max
<1> QED
  BY <1>5 DEF B, EndBefore, LineEnding, Stretch

-----------------------------------------------------------------------------
(***************************************************************************)
(* What has been returned                                                  *)
(***************************************************************************)
Expected(e) == Frame(LineEnding(e), Len(LineEnding(e)))

\* f are the frames of the lines that end at b or before.
Returned(f, b) ==
  /\ Len(f) = Rank(b)
  /\ \A e \in EndsUpTo(b) : f[Rank(e)] = Expected(e)

LEMMA OneMoreReturned ==
  ASSUME input \in Seq(Byte), NEW b \in Nat, b = 0 \/ b \in Ends, NEW e \in Ends,
         Follows(b, e), NEW S, NEW f \in Seq(S), Returned(f, b), NEW frame \in S,
         frame = Frame(Stretch(input, b, e), e - b)
  PROVE  Returned(Append(f, frame), e)
<1>1. Rank(e) = Rank(b) + 1 /\ Rank(b) \in Nat
  BY RankOfNext, EndsAreFinite
<1>2. e \in 1..Len(input) /\ b < e /\ b \in 0..Len(input)
  BY EndsAre DEF Follows
<1>3. Len(Stretch(input, b, e)) = e - b
  <2>1. e \in b..Len(input)
    BY <1>2
  <2> QED
    BY <2>1, StretchIs
<1>4. frame = Expected(e)
  BY <1>3, LineBehind DEF Expected
<1>5. /\ Len(Append(f, frame)) = Len(f) + 1
      /\ \A i \in 1..Len(f) : Append(f, frame)[i] = f[i]
      /\ Append(f, frame)[Len(f) + 1] = frame
  BY AppendProperties
<1>6. ASSUME NEW d \in EndsUpTo(e)
      PROVE  Append(f, frame)[Rank(d)] = Expected(d)
  <2>1. d \in Ends /\ d <= e /\ d \in Nat
    BY EndsAre DEF EndsUpTo
  <2>2. CASE d = e
    BY <1>1, <1>4, <1>5, <2>2 DEF Returned
  <2>3. CASE d # e
    <3>1. d <= b
      BY <1>2, <2>1, <2>3, NoEndBetween
    <3>2. d \in EndsUpTo(b)
      BY <2>1, <3>1 DEF EndsUpTo
    <3>3. d - 1 \in Nat /\ Rank(d - 1) \in Nat /\ Rank(d) \in Nat
      BY <2>1, EndsAreFinite
    <3>4. 1 <= Rank(d)
      BY <2>1, <3>3, RankGrows
    <3>5. Rank(d) <= Rank(b)
      BY <1>1, <2>1, <3>1, <3>3, RankGrows DEF Returned
    <3> QED
      BY <1>1, <1>5, <3>2, <3>3, <3>4, <3>5 DEF Returned
  <2> QED
    BY <2>2, <2>3
<1> QED
  BY <1>1, <1>5, <1>6 DEF Returned

-----------------------------------------------------------------------------
(***************************************************************************)
(* The inductive invariant                                                 *)
(***************************************************************************)
FrameSet == Seq(Byte) \union {Oversized}

TypeInv ==
  /\ stream \in {"stdin", "child"}
  /\ input \in Seq(Byte)
  /\ position \in 0..Len(input)
  /\ line \in Seq(Byte) /\ remainder \in Seq(Byte)
  /\ state \in {"start", "reading", "ended"}
  /\ frames \in Seq(FrameSet)

Bound == Max({Limit + 1, DrainSize})

KeptInv == Len(line) <= Bound /\ Len(remainder) <= Bound

\* The lines up to b have been returned; what is behind b is held back, or is
\* the line in progress, of which nothing need be kept once it is too long.
ProgressInv(b) ==
  /\ b \in 0..position
  /\ b = 0 \/ b \in Ends
  /\ Returned(frames, b)
  /\ state = "start" => line = <<>> /\ remainder = Stretch(input, b, position)
  /\ state = "reading" =>
       /\ Quiet(b, position)
       /\ IF stream = "child" /\ Len(line) <= Limit
          THEN line = Stretch(input, b, position)
          ELSE position - b > Limit
  /\ state = "ended" => b = Len(input)

\* A remainder never holds as much as a line too long.
Aligned == stream = "stdin" \/ DrainSize <= Limit + 1

ReaderInv ==
  /\ TypeInv
  /\ KeptInv
  /\ stream = "stdin" \/ state = "reading" => remainder = <<>>
  /\ Aligned => Len(remainder) <= Limit /\ \E b \in Nat : ProgressInv(b)

LEMMA BoundIs == Bound \in Nat /\ Limit + 1 <= Bound /\ DrainSize <= Bound
<1>1. Limit \in Nat /\ DrainSize \in Nat
  BY ReaderAssumption
<1>2. CASE Limit + 1 <= DrainSize
  <2>1. \A x \in {Limit + 1, DrainSize} :
           (\A y \in {Limit + 1, DrainSize} : x >= y) => x = DrainSize
    BY <1>1, <1>2
  <2>2. \A y \in {Limit + 1, DrainSize} : DrainSize >= y
    BY <1>1, <1>2
  <2>3. Bound = DrainSize
    BY <2>1, <2>2 DEF Bound, Max
  <2> QED
    BY <1>1, <1>2, <2>3
<1>3. CASE Limit + 1 > DrainSize
  <2>1. \A x \in {Limit + 1, DrainSize} :
           (\A y \in {Limit + 1, DrainSize} : x >= y) => x = Limit + 1
    BY <1>1, <1>3
  <2>2. \A y \in {Limit + 1, DrainSize} : Limit + 1 >= y
    BY <1>1, <1>3
  <2>3. Bound = Limit + 1
    BY <2>1, <2>2 DEF Bound, Max
  <2> QED
    BY <1>1, <1>3, <2>3
<1> QED
  BY <1>1, <1>2, <1>3

\* The reference does not change with the input at rest.
LEMMA InputAtRest ==
  ASSUME input' = input
  PROVE  /\ Ends' = Ends
         /\ \A f, b : Returned(f, b)' <=> Returned(f, b)
         /\ \A b, p : Quiet(b, p)' <=> Quiet(b, p)
<1>1. Ends' = Ends
  BY DEF Ends
<1>2. \A p : EndsUpTo(p)' = EndsUpTo(p) /\ Rank(p)' = Rank(p)
  BY <1>1 DEF EndsUpTo, Rank
<1>3. \A e : Expected(e)' = Expected(e)
  BY <1>2 DEF Expected, LineEnding, EndBefore, Frame, Oversized
<1>4. \A f, b : Returned(f, b)' <=> Returned(f, b)
  BY <1>2, <1>3 DEF Returned
<1> QED
  BY <1>1, <1>4 DEF Quiet

LEMMA ReaderStart == Init => ReaderInv
<1> SUFFICES ASSUME Init
             PROVE  ReaderInv
  OBVIOUS
<1>1. input \in Seq(Byte) /\ Len(input) \in Nat
  BY DEF Init, Bytes
<1>2. TypeInv
  BY <1>1 DEF Init, TypeInv
<1>3. Len(<<>>) = 0
  OBVIOUS
<1>4. KeptInv
  BY <1>3, BoundIs DEF Init, KeptInv
<1>5. EndsUpTo(0) = {}
  BY <1>1, EndsAre DEF EndsUpTo
<1>6. Returned(<<>>, 0)
  BY <1>3, <1>5, FS_EmptySet DEF Returned, Rank
<1>7. Stretch(input, 0, 0) = <<>>
  BY SubSeqEmpty DEF Stretch
<1>8. ProgressInv(0)
  BY <1>1, <1>6, <1>7 DEF Init, ProgressInv
<1>9. Len(remainder) <= Limit
  BY <1>3, ReaderAssumption DEF Init
<1> QED
  BY <1>2, <1>4, <1>8, <1>9 DEF Init, ReaderInv

\* e ends the line in progress, and frame is what becomes of it.
Completes(b, e, frame, rest, to) ==
  /\ b \in Nat /\ (b = 0 \/ b \in Ends)
  /\ Returned(frames, b)
  /\ e \in Ends /\ Follows(b, e) /\ e <= to
  /\ frame = Frame(Stretch(input, b, e), e - b)
  /\ rest = Stretch(input, e, to)
  /\ Len(rest) <= Limit

LEMMA ReturnKeeps ==
  ASSUME ReaderInv, NEW frame \in FrameSet, NEW rest \in Seq(Byte),
         ReturnFrame(frame, rest), UNCHANGED <<stream, input>>,
         position' \in 0..Len(input), Len(rest) <= Bound,
         stream = "stdin" => rest = <<>>,
         Aligned => \E b, e \in Nat : Completes(b, e, frame, rest, position')
  PROVE  ReaderInv'
<1>1. TypeInv'
  <2>1. frames' \in Seq(FrameSet)
    BY AppendProperties DEF ReaderInv, TypeInv, ReturnFrame
  <2> QED
    BY <2>1 DEF ReaderInv, TypeInv, ReturnFrame
<1>2. KeptInv'
  <2>1. Len(<<>>) = 0 /\ Bound' = Bound
    BY DEF Bound
  <2> QED
    BY <2>1, BoundIs DEF KeptInv, ReturnFrame
<1>3. (stream = "stdin" \/ state = "reading" => remainder = <<>>)'
  BY DEF ReturnFrame
<1>4. ASSUME Aligned'
      PROVE  (Len(remainder) <= Limit /\ \E b \in Nat : ProgressInv(b))'
  <2>1. PICK b, e \in Nat : Completes(b, e, frame, rest, position')
    BY <1>4 DEF Aligned
  <2>2. input \in Seq(Byte) /\ frames \in Seq(FrameSet)
    BY DEF ReaderInv, TypeInv
  <2>3. Returned(frames', e)
    BY <2>1, <2>2, OneMoreReturned DEF Completes, ReturnFrame
  <2>4. Returned(frames, e)' /\ Ends' = Ends
    BY <2>3, InputAtRest DEF Returned
  <2>5. e \in 0..position'
    BY <2>1 DEF Completes
  <2>6. ProgressInv(e)'
    BY <2>1, <2>4, <2>5 DEF ProgressInv, Completes, ReturnFrame
  <2> QED
    BY <2>1, <2>6 DEF Completes, ReturnFrame
<1> QED
  BY <1>1, <1>2, <1>3, <1>4 DEF ReaderInv

\* The call goes on, with more of its line taken.
LEMMA GoOnKeeps ==
  ASSUME ReaderInv, UNCHANGED <<stream, input, frames>>, state' = "reading",
         line' \in Seq(Byte), Len(line') <= Bound, remainder' = <<>>,
         position' \in 0..Len(input),
         Aligned => \E b \in 0..position' :
           /\ b = 0 \/ b \in Ends
           /\ Returned(frames, b) /\ Quiet(b, position')
           /\ IF stream = "child" /\ Len(line') <= Limit
              THEN line' = Stretch(input, b, position')
              ELSE position' - b > Limit
  PROVE  ReaderInv'
<1>1. TypeInv'
  BY DEF ReaderInv, TypeInv
<1>2. KeptInv' /\ Len(remainder') = 0
  <2>1. Len(<<>>) = 0 /\ Bound' = Bound
    BY DEF Bound
  <2> QED
    BY <2>1, BoundIs DEF KeptInv
<1>3. ASSUME Aligned'
      PROVE  (Len(remainder) <= Limit /\ \E b \in Nat : ProgressInv(b))'
  <2>1. PICK b \in 0..position' :
           /\ b = 0 \/ b \in Ends
           /\ Returned(frames, b) /\ Quiet(b, position')
           /\ IF stream = "child" /\ Len(line') <= Limit
              THEN line' = Stretch(input, b, position')
              ELSE position' - b > Limit
    BY <1>3 DEF Aligned
  <2>2. Ends' = Ends /\ Returned(frames, b)'
    BY <2>1, InputAtRest DEF Returned
  <2>3. Quiet(b, position)'
    BY <2>1 DEF Quiet
  <2>4. ProgressInv(b)'
    BY <2>1, <2>2, <2>3 DEF ProgressInv, Stretch
  <2>5. b \in Nat /\ Limit \in Nat
    BY ReaderAssumption DEF ReaderInv, TypeInv
  <2> QED
    BY <1>2, <2>4, <2>5
<1> QED
  BY <1>1, <1>2, <1>3 DEF ReaderInv

LEMMA EndKeeps ==
  ASSUME ReaderInv, UNCHANGED <<stream, input>>, ReturnEnd,
         position' \in 0..Len(input),
         Aligned => /\ Len(input) = 0 \/ Len(input) \in Ends
                    /\ Returned(frames, Len(input))
                    /\ position' = Len(input)
  PROVE  ReaderInv'
<1>1. TypeInv'
  BY DEF ReaderInv, TypeInv, ReturnEnd
<1>2. KeptInv'
  <2>1. Len(<<>>) = 0 /\ Bound' = Bound
    BY DEF Bound
  <2> QED
    BY <2>1, BoundIs DEF KeptInv, ReaderInv, ReturnEnd
<1>3. ASSUME Aligned'
      PROVE  (Len(remainder) <= Limit /\ \E b \in Nat : ProgressInv(b))'
  <2>1. Ends' = Ends /\ Returned(frames, Len(input))' /\ Len(input) \in Nat
    BY <1>3, InputAtRest DEF Returned, Aligned, ReturnEnd, ReaderInv, TypeInv
  <2>2. ProgressInv(Len(input))'
    BY <1>3, <2>1 DEF ProgressInv, Aligned, ReturnEnd
  <2> QED
    BY <1>3, <2>1, <2>2 DEF ReaderInv, ReturnEnd, Aligned
<1> QED
  BY <1>1, <1>2, <1>3 DEF ReaderInv, ReturnEnd

-----------------------------------------------------------------------------
(***************************************************************************)
(* What is taken                                                           *)
(***************************************************************************)

\* Cutting a stretch behind its first newline cuts the input there.
LEMMA CutStretch ==
  ASSUME input \in Seq(Byte), NEW a \in Nat, NEW to \in a..Len(input), NEW t,
         t = Stretch(input, a, to), HasNewline(t)
  PROVE  \E e \in a + 1..to :
           /\ ThroughNewline(t) = Stretch(input, a, e)
           /\ BehindNewline(t) = Stretch(input, e, to)
           /\ e \in Ends /\ Follows(a, e)
           /\ input[e] = Newline
<1> DEFINE n == NewlineAt(t)
           e == a + n
<1>1. /\ t \in Seq(Byte) /\ Len(t) = to - a
      /\ \A i \in 1..to - a : t[i] = input[a + i]
  BY StretchIs
<1>2. n \in 1..to - a /\ t[n] = Newline /\ \A k \in 1..n - 1 : t[k] # Newline
  BY <1>1, NewlineIs
<1>3. ThroughNewline(t) = Stretch(t, 0, n) /\ BehindNewline(t) = Stretch(t, n, to - a)
  BY <1>1, CutIs
<1> HIDE DEF n
<1>4. /\ to \in Nat /\ to - a \in Nat /\ n \in Nat
      /\ 0 \in 0..to - a /\ n \in 0..to - a /\ to - a \in n..to - a
      /\ a + 0 = a /\ a + (to - a) = to /\ e \in a + 1..to
  BY <1>2
<1>5. Stretch(t, 0, n) = Stretch(input, a + 0, a + n)
  BY <1>4, StretchOfStretch
<1>6. Stretch(t, n, to - a) = Stretch(input, a + n, a + (to - a))
  BY <1>4, StretchOfStretch
<1>7. input[e] = Newline /\ e \in Ends
  BY <1>1, <1>2, <1>4, LenProperties DEF Ends
<1>8. Quiet(a, e - 1)
  <2>1. ASSUME NEW k \in a + 1..e - 1
        PROVE  input[k] # Newline
    <3>1. k - a \in 1..n - 1 /\ k - a \in 1..to - a /\ a + (k - a) = k
      BY <1>2, <1>4
    <3> QED
      BY <1>1, <1>2, <3>1
  <2> QED
    BY <2>1 DEF Quiet
<1>9. Follows(a, e)
  BY <1>4, <1>7, <1>8 DEF Follows
<1> HIDE DEF e
<1> QED
  BY <1>3, <1>4, <1>5, <1>6, <1>7, <1>9 DEF e

LEMMA QuietStretch ==
  ASSUME input \in Seq(Byte), NEW a \in Nat, NEW to \in a..Len(input), NEW t,
         t = Stretch(input, a, to), ~HasNewline(t)
  PROVE  Quiet(a, to)
<1>1. /\ t \in Seq(Byte) /\ Len(t) = to - a
      /\ \A i \in 1..to - a : t[i] = input[a + i]
  BY StretchIs
<1>2. \A i \in 1..to - a : t[i] # Newline
  BY <1>1, NoNewline
<1>3. ASSUME NEW k \in a + 1..to
      PROVE  input[k] # Newline
  <2>1. k - a \in 1..to - a /\ a + (k - a) = k
    OBVIOUS
  <2> QED
    BY <1>1, <1>2, <2>1
<1> QED
  BY <1>3 DEF Quiet

LEMMA QuietJoin ==
  ASSUME NEW a \in Nat, NEW b \in Nat, NEW c \in Int, Quiet(a, b), Quiet(b, c)
  PROVE  Quiet(a, c)
<1>1. \A k \in a + 1..c : k \in a + 1..b \/ k \in b + 1..c
  OBVIOUS
<1> QED
  BY <1>1 DEF Quiet

\* The end of the input ends a line too.
LEMMA FollowsLast ==
  ASSUME input \in Seq(Byte), NEW b \in Nat, b < Len(input), Quiet(b, Len(input))
  PROVE  Len(input) \in Ends /\ Follows(b, Len(input))
BY LenProperties DEF Ends, Follows, Quiet

LEMMA FrameType ==
  ASSUME NEW s \in Seq(Byte), NEW n
  PROVE  Frame(s, n) \in FrameSet /\ Oversized \in FrameSet
BY DEF Frame, FrameSet

LEMMA EmptyStretch ==
  ASSUME NEW a \in Nat
  PROVE  Stretch(input, a, a) = <<>> /\ <<>> \in Seq(Byte) /\ Len(<<>>) = 0
BY SubSeqEmpty DEF Stretch

LEMMA ArrivesIs ==
  ASSUME TypeInv, NEW size \in Nat, NEW chunk \in Arrives(size)
  PROVE  \E to \in position + 1..Len(input) :
           /\ chunk = Stretch(input, position, to)
           /\ chunk \in Seq(Byte) /\ Len(chunk) = to - position
           /\ to - position <= size
<1>1. PICK n \in 1..size : chunk = AtMost(Coming, n) /\ chunk # <<>>
  BY DEF Arrives
<1>2. n \in Nat
  OBVIOUS
<1>3. input \in Seq(Byte) /\ position \in 0..Len(input) /\ position \in Nat
  BY DEF TypeInv
<1>4. PICK to \in position..Len(input) :
         AtMost(Coming, n) = Stretch(input, position, to) /\ to - position <= n
  BY <1>2, <1>3, PieceIs
<1>5. to # position
  BY <1>1, <1>3, <1>4, EmptyStretch
<1>6. chunk \in Seq(Byte) /\ Len(chunk) = to - position
  BY <1>1, <1>3, <1>4, StretchIs
<1> QED
  BY <1>1, <1>3, <1>4, <1>5, <1>6

LEMMA ReadlineIs ==
  ASSUME TypeInv, NEW size \in Nat
  PROVE  \E to \in position..Len(input) :
           /\ Readline(size) = Stretch(input, position, to)
           /\ Readline(size) \in Seq(Byte) /\ Len(Readline(size)) = to - position
           /\ to - position <= size
           /\ HasNewline(Readline(size)) => to \in Ends /\ Follows(position, to)
           /\ ~HasNewline(Readline(size)) =>
                 Quiet(position, to) /\ (to - position < size => to = Len(input))
<1> DEFINE piece == AtMost(Coming, size)
<1>1. input \in Seq(Byte) /\ position \in 0..Len(input) /\ position \in Nat
  BY DEF TypeInv
<1>2. PICK to \in position..Len(input) :
         /\ piece = Stretch(input, position, to)
         /\ to - position <= size
         /\ to - position < size => to = Len(input)
  BY <1>1, PieceIs
<1> HIDE DEF piece
<1>3. CASE HasNewline(piece)
  <2>1. PICK e \in position + 1..to :
           /\ ThroughNewline(piece) = Stretch(input, position, e)
           /\ e \in Ends /\ Follows(position, e) /\ input[e] = Newline
    BY <1>1, <1>2, <1>3, CutStretch
  <2>2. Readline(size) = Stretch(input, position, e)
    BY <1>3, <2>1 DEF Readline, piece
  <2>3. e \in position..Len(input) /\ e - position <= size
    BY <1>1, <1>2
  <2>4. /\ Readline(size) \in Seq(Byte) /\ Len(Readline(size)) = e - position
        /\ \A i \in 1..e - position : Readline(size)[i] = input[position + i]
    BY <1>1, <2>2, <2>3, StretchIs
  <2>5. e - position \in 1..e - position /\ position + (e - position) = e
    BY <1>1
  <2>6. HasNewline(Readline(size))
    BY <2>1, <2>4, <2>5, LenProperties DEF HasNewline, ToSet
  <2> QED
    BY <2>1, <2>2, <2>3, <2>4, <2>6
<1>4. CASE ~HasNewline(piece)
  <2>1. Readline(size) = piece
    BY <1>4 DEF Readline, piece
  <2>2. Quiet(position, to)
    BY <1>1, <1>2, <1>4, QuietStretch
  <2>3. piece \in Seq(Byte) /\ Len(piece) = to - position
    BY <1>1, <1>2, StretchIs
  <2> QED
    BY <1>2, <1>4, <2>1, <2>2, <2>3
<1> QED
  BY <1>3, <1>4

-----------------------------------------------------------------------------
(***************************************************************************)
(* Every step keeps the invariant                                          *)
(***************************************************************************)
LEMMA StdinStart ==
  ASSUME ReaderInv, stream = "stdin", state = "start"
  PROVE  /\ position = 0 \/ position \in Ends
         /\ Returned(frames, position)
<1>1. PICK b \in Nat : ProgressInv(b)
  BY DEF ReaderInv, Aligned
<1>2. /\ input \in Seq(Byte) /\ position \in b..Len(input)
      /\ Stretch(input, b, position) = <<>>
  BY <1>1 DEF ReaderInv, TypeInv, ProgressInv
<1>3. position - b = 0
  BY <1>2, StretchIs, EmptyStretch
<1>4. b = position
  BY <1>2, <1>3
<1> QED
  BY <1>1, <1>4 DEF ProgressInv

LEMMA ReadStdinKeeps == ReaderInv /\ ReadStdin => ReaderInv'
<1> SUFFICES ASSUME ReaderInv, ReadStdin
             PROVE  ReaderInv'
  OBVIOUS
<1> DEFINE piece == Readline(Limit + 1)
<1>1. /\ TypeInv /\ input \in Seq(Byte) /\ position \in 0..Len(input)
      /\ position \in Nat /\ Len(input) \in Nat /\ frames \in Seq(FrameSet)
  BY LenProperties DEF ReaderInv, TypeInv
<1>2. Limit \in Nat /\ Limit + 1 \in Nat
  BY ReaderAssumption
<1>3. PICK to \in position..Len(input) :
         /\ piece = Stretch(input, position, to)
         /\ piece \in Seq(Byte) /\ Len(piece) = to - position
         /\ to - position <= Limit + 1
         /\ HasNewline(piece) => to \in Ends /\ Follows(position, to)
         /\ ~HasNewline(piece) =>
               Quiet(position, to) /\ (to - position < Limit + 1 => to = Len(input))
  BY <1>1, <1>2, ReadlineIs
<1>4. /\ position = 0 \/ position \in Ends
      /\ Returned(frames, position)
  BY StdinStart DEF ReadStdin
<1>5. position' = position + Len(piece)
  BY DEF ReadStdin
<1>6. position' = to /\ to \in 0..Len(input)
  BY <1>1, <1>3, <1>5
<1>7. UNCHANGED <<stream, input>> /\ stream = "stdin"
  BY DEF ReadStdin
<1>8. \/ piece = <<>> /\ ReturnEnd
      \/ /\ piece # <<>>
         /\ Len(piece) <= Limit \/ HasNewline(piece)
         /\ ReturnFrame(Frame(piece, Len(piece)), <<>>)
      \/ /\ Len(piece) > Limit /\ ~HasNewline(piece)
         /\ state' = "reading" /\ line' = piece
         /\ UNCHANGED <<remainder, frames>>
  BY DEF ReadStdin
<1> HIDE DEF piece
<1>9. CASE piece = <<>> /\ ReturnEnd
  <2>1. to = position
    BY <1>1, <1>3, <1>9, EmptyStretch
  <2>2. ~HasNewline(piece)
    BY <1>9 DEF HasNewline, ToSet
  <2>3. to = Len(input)
    BY <1>1, <1>2, <1>3, <2>1, <2>2
  <2> QED
    BY <1>1, <1>4, <1>6, <1>7, <1>9, <2>1, <2>3, EndKeeps
<1>10. CASE /\ piece # <<>>
            /\ Len(piece) <= Limit \/ HasNewline(piece)
            /\ ReturnFrame(Frame(piece, Len(piece)), <<>>)
  <2>1. position < to
    BY <1>1, <1>3, <1>10, EmptyStretch
  <2>2. to \in Ends /\ Follows(position, to)
    <3>1. CASE ~HasNewline(piece)
      <4>1. to = Len(input) /\ Quiet(position, to)
        BY <1>1, <1>2, <1>3, <1>10, <3>1
      <4> QED
        BY <1>1, <2>1, <4>1, FollowsLast
    <3> QED
      BY <1>3, <3>1
  <2>3. <<>> = Stretch(input, to, to) /\ <<>> \in Seq(Byte) /\ Len(<<>>) = 0 /\ to \in Nat
    BY <1>6, EmptyStretch
  <2>4. Frame(piece, Len(piece)) = Frame(Stretch(input, position, to), to - position)
    BY <1>3
  <2>5. Completes(position, to, Frame(piece, Len(piece)), <<>>, to)
    BY <1>1, <1>2, <1>4, <2>2, <2>3, <2>4 DEF Completes
  <2>6. Frame(piece, Len(piece)) \in FrameSet
    BY <1>3, FrameType
  <2>7. Len(<<>>) <= Bound
    BY <2>3, BoundIs
  <2> QED
    BY <1>1, <1>6, <1>7, <1>10, <2>3, <2>5, <2>6, <2>7, ReturnKeeps
<1>11. CASE /\ Len(piece) > Limit /\ ~HasNewline(piece)
            /\ state' = "reading" /\ line' = piece
            /\ UNCHANGED <<remainder, frames>>
  <2>1. remainder' = <<>>
    BY <1>7, <1>11 DEF ReaderInv
  <2>2. Len(line') <= Bound /\ line' \in Seq(Byte)
    BY <1>1, <1>2, <1>3, <1>11, BoundIs
  <2>3. position \in 0..position' /\ Quiet(position, position') /\ position' - position > Limit
    BY <1>1, <1>3, <1>6, <1>11
  <2> QED
    BY <1>4, <1>6, <1>7, <1>11, <2>1, <2>2, <2>3, GoOnKeeps
<1> QED
  BY <1>8, <1>9, <1>10, <1>11

LEMMA DrainStdinKeeps == ReaderInv /\ DrainStdin => ReaderInv'
<1> SUFFICES ASSUME ReaderInv, DrainStdin
             PROVE  ReaderInv'
  OBVIOUS
<1> DEFINE piece == Readline(DrainSize)
<1>1. /\ TypeInv /\ input \in Seq(Byte) /\ position \in 0..Len(input)
      /\ position \in Nat /\ Len(input) \in Nat /\ frames \in Seq(FrameSet)
  BY LenProperties DEF ReaderInv, TypeInv
<1>2. Limit \in Nat /\ DrainSize \in Nat /\ DrainSize > 0
  BY ReaderAssumption
<1>3. PICK to \in position..Len(input) :
         /\ piece = Stretch(input, position, to)
         /\ piece \in Seq(Byte) /\ Len(piece) = to - position
         /\ to - position <= DrainSize
         /\ HasNewline(piece) => to \in Ends /\ Follows(position, to)
         /\ ~HasNewline(piece) =>
               Quiet(position, to) /\ (to - position < DrainSize => to = Len(input))
  BY <1>1, <1>2, ReadlineIs
<1>4. stream = "stdin" /\ state = "reading" /\ UNCHANGED <<stream, input>>
  BY DEF DrainStdin
<1>5. PICK b \in Nat : ProgressInv(b)
  BY <1>4 DEF ReaderInv, Aligned
<1>6. /\ b = 0 \/ b \in Ends
      /\ Returned(frames, b) /\ Quiet(b, position) /\ position - b > Limit
  BY <1>4, <1>5 DEF ProgressInv
<1>7. position' = position + Len(piece)
  BY DEF DrainStdin
<1>8. position' = to /\ to \in 0..Len(input) /\ to \in Nat
  BY <1>1, <1>3, <1>7
<1>9. IF piece = <<>> \/ HasNewline(piece)
      THEN ReturnFrame(Oversized, <<>>)
      ELSE line' = piece /\ UNCHANGED <<remainder, state, frames>>
  BY DEF DrainStdin
<1> HIDE DEF piece
<1>10. CASE piece = <<>> \/ HasNewline(piece)
  <2>1. to \in Ends /\ Follows(b, to)
    <3>1. CASE HasNewline(piece)
      <4>1. Follows(position, to) /\ to \in Ends /\ to - 1 \in Int
        BY <1>3, <1>8, <3>1
      <4>2. Quiet(b, to - 1) /\ b < to
        BY <1>1, <1>2, <1>6, <4>1, QuietJoin DEF Follows
      <4> QED
        BY <4>1, <4>2 DEF Follows
    <3>2. CASE ~HasNewline(piece)
      <4>1. to = position /\ to = Len(input)
        BY <1>1, <1>2, <1>3, <1>10, <3>2, EmptyStretch
      <4>2. b < Len(input) /\ Quiet(b, Len(input))
        BY <1>1, <1>2, <1>6, <4>1
      <4> QED
        BY <1>1, <4>1, <4>2, FollowsLast
    <3> QED
      BY <3>1, <3>2
  <2>2. <<>> = Stretch(input, to, to) /\ <<>> \in Seq(Byte) /\ Len(<<>>) = 0
    BY <1>8, EmptyStretch
  <2>3. Oversized = Frame(Stretch(input, b, to), to - b)
    <3>1. to - b > Limit
      BY <1>1, <1>2, <1>3, <1>6
    <3> QED
      BY <3>1 DEF Frame
  <2>4. Completes(b, to, Oversized, <<>>, to)
    BY <1>2, <1>6, <1>8, <2>1, <2>2, <2>3 DEF Completes
  <2>5. Oversized \in FrameSet /\ Len(<<>>) <= Bound
    BY <1>3, <2>2, FrameType, BoundIs
  <2> QED
    BY <1>4, <1>8, <1>9, <1>10, <2>2, <2>4, <2>5, ReturnKeeps
<1>11. CASE ~(piece = <<>> \/ HasNewline(piece))
  <2>1. remainder' = <<>> /\ state' = "reading" /\ frames' = frames /\ line' = piece
    BY <1>4, <1>9, <1>11 DEF ReaderInv
  <2>2. Len(line') <= Bound /\ line' \in Seq(Byte)
    BY <1>1, <1>2, <1>3, <2>1, BoundIs
  <2>3. b \in 0..position' /\ position' - b > Limit
    BY <1>1, <1>2, <1>3, <1>6, <1>8
  <2>4. Quiet(b, position')
    BY <1>1, <1>3, <1>6, <1>8, <1>11, QuietJoin
  <2> QED
    BY <1>4, <1>6, <1>8, <2>1, <2>2, <2>3, <2>4, GoOnKeeps
<1> QED
  BY <1>10, <1>11

LEMMA StartLineKeeps == ReaderInv /\ StartLine => ReaderInv'
<1> SUFFICES ASSUME ReaderInv, StartLine
             PROVE  ReaderInv'
  OBVIOUS
<1>1. /\ input \in Seq(Byte) /\ position \in 0..Len(input) /\ position \in Nat
      /\ remainder \in Seq(Byte) /\ Len(remainder) \in Nat
      /\ frames \in Seq(FrameSet) /\ Limit \in Nat
  BY LenProperties, ReaderAssumption DEF ReaderInv, TypeInv
<1>2. stream = "child" /\ state = "start" /\ UNCHANGED <<stream, input, position>>
  BY DEF StartLine
<1>3. Len(remainder) <= Bound
  BY DEF ReaderInv, KeptInv
<1>4. CASE HasNewline(remainder)
  <2> DEFINE frame == Frame(ThroughNewline(remainder), Len(remainder))
             rest == BehindNewline(remainder)
  <2>1. ReturnFrame(frame, rest)
    BY <1>4 DEF StartLine
  <2>2. /\ NewlineAt(remainder) \in 1..Len(remainder)
        /\ ThroughNewline(remainder) = Stretch(remainder, 0, NewlineAt(remainder))
        /\ rest = Stretch(remainder, NewlineAt(remainder), Len(remainder))
    BY <1>1, <1>4, NewlineIs, CutIs
  <2>3. /\ ThroughNewline(remainder) \in Seq(Byte)
        /\ rest \in Seq(Byte) /\ Len(rest) <= Len(remainder)
    <3>1. /\ NewlineAt(remainder) \in Nat /\ NewlineAt(remainder) \in 0..Len(remainder)
          /\ Len(remainder) \in NewlineAt(remainder)..Len(remainder) /\ 0 \in Nat
      BY <1>1, <2>2
    <3>2. Stretch(remainder, 0, NewlineAt(remainder)) \in Seq(Byte)
      BY <1>1, <3>1, StretchIs
    <3>3. /\ Stretch(remainder, NewlineAt(remainder), Len(remainder)) \in Seq(Byte)
          /\ Len(Stretch(remainder, NewlineAt(remainder), Len(remainder)))
               = Len(remainder) - NewlineAt(remainder)
      BY <1>1, <3>1, StretchIs
    <3> QED
      BY <1>1, <2>2, <3>1, <3>2, <3>3
  <2>4. frame \in FrameSet
    BY <2>3, FrameType
  <2>5. ASSUME Aligned
        PROVE  \E b, e \in Nat : Completes(b, e, frame, rest, position')
    <3>1. PICK b \in Nat : ProgressInv(b) /\ Len(remainder) <= Limit
      BY <2>5 DEF ReaderInv
    <3>2. /\ b \in 0..position /\ position \in b..Len(input)
          /\ b = 0 \/ b \in Ends
          /\ Returned(frames, b) /\ remainder = Stretch(input, b, position)
      BY <1>1, <1>2, <3>1 DEF ProgressInv
    <3>3. Len(remainder) = position - b
      BY <1>1, <3>2, StretchIs
    <3>4. PICK e \in b + 1..position :
             /\ ThroughNewline(remainder) = Stretch(input, b, e)
             /\ rest = Stretch(input, e, position)
             /\ e \in Ends /\ Follows(b, e)
      BY <1>1, <1>4, <3>2, CutStretch
    <3>5. frame = Frame(Stretch(input, b, e), e - b)
      BY <1>1, <3>1, <3>3, <3>4 DEF Frame
    <3>6. e \in Nat /\ e <= position' /\ Len(rest) <= Limit
      BY <1>1, <1>2, <2>3, <3>1, <3>4
    <3>7. Completes(b, e, frame, rest, position')
      BY <1>2, <3>1, <3>2, <3>4, <3>5, <3>6 DEF Completes
    <3> QED
      BY <3>6, <3>7
  <2> HIDE DEF frame, rest
  <2>6. Len(rest) <= Bound /\ position' \in 0..Len(input)
    BY <1>1, <1>2, <1>3, <2>3, BoundIs
  <2> QED
    BY <1>2, <2>1, <2>3, <2>4, <2>5, <2>6, ReturnKeeps
<1>5. CASE ~HasNewline(remainder)
  <2>1. /\ state' = "reading" /\ line' = remainder /\ remainder' = <<>>
        /\ frames' = frames
    BY <1>5 DEF StartLine
  <2>2. ASSUME Aligned
        PROVE  \E b \in 0..position' :
                 /\ b = 0 \/ b \in Ends
                 /\ Returned(frames, b) /\ Quiet(b, position')
                 /\ IF stream = "child" /\ Len(line') <= Limit
                    THEN line' = Stretch(input, b, position')
                    ELSE position' - b > Limit
    <3>1. PICK b \in Nat : ProgressInv(b) /\ Len(remainder) <= Limit
      BY <2>2 DEF ReaderInv
    <3>2. /\ b \in 0..position /\ position \in b..Len(input)
          /\ b = 0 \/ b \in Ends
          /\ Returned(frames, b) /\ remainder = Stretch(input, b, position)
      BY <1>1, <1>2, <3>1 DEF ProgressInv
    <3>3. Quiet(b, position)
      BY <1>1, <1>5, <3>2, QuietStretch
    <3> QED
      BY <1>2, <2>1, <3>1, <3>2, <3>3
  <2> QED
    BY <1>1, <1>2, <1>3, <2>1, <2>2, GoOnKeeps
<1> QED
  BY <1>4, <1>5

LEMMA AtEndIs ==
  ASSUME TypeInv, AtEnd
  PROVE  position = Len(input)
<1>1. /\ input \in Seq(Byte) /\ position \in Nat
      /\ Len(input) \in position..Len(input)
  BY LenProperties DEF TypeInv
<1>2. Coming = Stretch(input, position, Len(input))
  BY DEF Coming, Stretch
<1>3. Len(Coming) = Len(input) - position
  BY <1>1, <1>2, StretchIs
<1>4. Len(Coming) = 0
  BY DEF AtEnd
<1> QED
  BY <1>1, <1>3, <1>4

LEMMA ReadingIs ==
  ASSUME ReaderInv, Reading, Aligned
  PROVE  \E b \in Nat :
           /\ b \in 0..position /\ (b = 0 \/ b \in Ends)
           /\ Returned(frames, b) /\ Quiet(b, position)
           /\ Len(line) <= Limit => /\ line = Stretch(input, b, position)
                                   /\ Len(line) = position - b
           /\ Len(line) > Limit => position - b > Limit
<1>1. PICK b \in Nat : ProgressInv(b)
  BY DEF ReaderInv
<1>2. /\ input \in Seq(Byte) /\ position \in b..Len(input)
      /\ Len(line) \in Nat /\ Limit \in Nat /\ b \in 0..position
  BY <1>1, LenProperties, ReaderAssumption DEF ReaderInv, TypeInv, ProgressInv
<1>3. Len(Stretch(input, b, position)) = position - b
  BY <1>2, StretchIs
<1> QED
  BY <1>1, <1>2, <1>3 DEF ProgressInv, Reading

LEMMA ReadChunkKeeps == ReaderInv /\ ReadChunk => ReaderInv'
<1> SUFFICES ASSUME ReaderInv, ReadChunk
             PROVE  ReaderInv'
  OBVIOUS
<1>1. /\ TypeInv /\ input \in Seq(Byte) /\ position \in 0..Len(input)
      /\ position \in Nat /\ Len(input) \in Nat
      /\ line \in Seq(Byte) /\ Len(line) \in Nat
      /\ frames \in Seq(FrameSet) /\ Limit \in Nat
  BY LenProperties, ReaderAssumption DEF ReaderInv, TypeInv
<1>2. /\ Reading /\ Len(line) <= Limit /\ UNCHANGED <<stream, input>>
      /\ stream = "child" /\ state = "reading"
  BY DEF ReadChunk, Reading
<1>3. PICK chunk \in Arrives(Limit + 1 - Len(line)) :
         /\ position' = position + Len(chunk)
         /\ IF HasNewline(chunk)
            THEN LET whole == line \o ThroughNewline(chunk) IN
                 ReturnFrame(Frame(whole, Len(whole)), BehindNewline(chunk))
            ELSE line' = line \o chunk /\ UNCHANGED <<remainder, state, frames>>
  BY DEF ReadChunk
<1>4. PICK to \in position + 1..Len(input) :
         /\ chunk = Stretch(input, position, to)
         /\ chunk \in Seq(Byte) /\ Len(chunk) = to - position
         /\ to - position <= Limit + 1 - Len(line)
  <2>1. Limit + 1 - Len(line) \in Nat
    BY <1>1, <1>2
  <2> QED
    BY <1>1, <2>1, ArrivesIs
<1>5. position' = to /\ to \in 0..Len(input) /\ to \in position..Len(input) /\ to \in Nat
  BY <1>1, <1>3, <1>4
<1>6. CASE HasNewline(chunk)
  <2> DEFINE whole == line \o ThroughNewline(chunk)
             rest == BehindNewline(chunk)
  <2>1. ReturnFrame(Frame(whole, Len(whole)), rest)
    BY <1>3, <1>6
  <2>2. PICK e \in position + 1..to :
           /\ ThroughNewline(chunk) = Stretch(input, position, e)
           /\ rest = Stretch(input, e, to)
           /\ e \in Ends /\ Follows(position, e)
    BY <1>1, <1>4, <1>5, <1>6, CutStretch
  <2>3. e \in Nat /\ e \in position..Len(input) /\ to \in e..Len(input)
    BY <1>1, <1>5
  <2>4. /\ ThroughNewline(chunk) \in Seq(Byte)
        /\ rest \in Seq(Byte) /\ Len(rest) = to - e
    BY <1>1, <2>2, <2>3, StretchIs
  <2>5. whole \in Seq(Byte)
    BY <1>1, <2>4, ConcatProperties
  <2>6. Frame(whole, Len(whole)) \in FrameSet
    BY <2>5, FrameType
  <2>7. Len(rest) <= Limit
    BY <1>1, <1>4, <2>3, <2>4
  <2>8. ASSUME Aligned
        PROVE  \E b, d \in Nat :
                 Completes(b, d, Frame(whole, Len(whole)), rest, position')
    <3>1. PICK b \in Nat :
             /\ b \in 0..position /\ (b = 0 \/ b \in Ends)
             /\ Returned(frames, b) /\ Quiet(b, position)
             /\ line = Stretch(input, b, position)
      BY <1>2, <2>8, ReadingIs
    <3>2. position \in b..Len(input)
      BY <1>1, <3>1
    <3>3. whole = Stretch(input, b, e)
      <4>1. Stretch(input, b, position) \o Stretch(input, position, e)
              = Stretch(input, b, e)
        BY <1>1, <2>3, <3>2, StretchesJoin
      <4> QED
        BY <2>2, <3>1, <4>1
    <3>4. Len(whole) = e - b
      <4>1. e \in b..Len(input)
        BY <1>1, <2>3, <3>1
      <4> QED
        BY <1>1, <3>3, <4>1, StretchIs
    <3>5. Follows(b, e)
      <4>1. Quiet(b, e - 1) /\ b < e
        BY <1>1, <2>2, <2>3, <3>1, QuietJoin DEF Follows
      <4> QED
        BY <2>2, <4>1 DEF Follows
    <3> HIDE DEF whole, rest
    <3>6. Completes(b, e, Frame(whole, Len(whole)), rest, position')
      BY <1>5, <2>2, <2>3, <2>7, <3>1, <3>3, <3>4, <3>5 DEF Completes
    <3> QED
      BY <2>3, <3>6
  <2> HIDE DEF whole, rest
  <2>9. Len(rest) <= Bound /\ stream # "stdin"
    BY <1>1, <1>2, <2>3, <2>4, <2>7, BoundIs
  <2> QED
    BY <1>2, <1>5, <2>1, <2>4, <2>6, <2>8, <2>9, ReturnKeeps
<1>7. CASE ~HasNewline(chunk)
  <2>1. /\ line' = line \o chunk /\ state' = "reading"
        /\ remainder' = remainder /\ frames' = frames
    BY <1>2, <1>3, <1>7
  <2>2. line' \in Seq(Byte) /\ Len(line') = Len(line) + (to - position)
    BY <1>1, <1>4, <2>1, ConcatProperties
  <2>3. Len(line') <= Bound
    BY <1>1, <1>4, <2>2, BoundIs
  <2>4. remainder = <<>>
    BY <1>2 DEF ReaderInv
  <2>5. ASSUME Aligned
        PROVE  \E b \in 0..position' :
                 /\ b = 0 \/ b \in Ends
                 /\ Returned(frames, b) /\ Quiet(b, position')
                 /\ IF stream = "child" /\ Len(line') <= Limit
                    THEN line' = Stretch(input, b, position')
                    ELSE position' - b > Limit
    <3>1. PICK b \in Nat :
             /\ b \in 0..position /\ (b = 0 \/ b \in Ends)
             /\ Returned(frames, b) /\ Quiet(b, position)
             /\ line = Stretch(input, b, position) /\ Len(line) = position - b
      BY <1>2, <2>5, ReadingIs
    <3>2. position \in b..Len(input)
      BY <1>1, <3>1
    <3>3. line' = Stretch(input, b, to)
      <4>1. Stretch(input, b, position) \o Stretch(input, position, to)
              = Stretch(input, b, to)
        BY <1>1, <1>5, <3>2, StretchesJoin
      <4> QED
        BY <1>4, <2>1, <3>1, <4>1
    <3>4. Quiet(position, to)
      BY <1>1, <1>4, <1>5, <1>7, QuietStretch
    <3>5. Quiet(b, to) /\ Len(line') = to - b
      BY <1>1, <1>5, <2>2, <3>1, <3>4, QuietJoin
    <3> QED
      BY <1>1, <1>2, <1>5, <2>2, <3>1, <3>3, <3>5
  <2> QED
    BY <1>2, <1>5, <2>1, <2>2, <2>3, <2>4, <2>5, GoOnKeeps
<1> QED
  BY <1>6, <1>7

LEMMA ReadEndKeeps == ReaderInv /\ ReadEnd => ReaderInv'
<1> SUFFICES ASSUME ReaderInv, ReadEnd
             PROVE  ReaderInv'
  OBVIOUS
<1>1. /\ TypeInv /\ input \in Seq(Byte) /\ position \in 0..Len(input)
      /\ position \in Nat /\ Len(input) \in Nat
      /\ line \in Seq(Byte) /\ Len(line) \in Nat
      /\ frames \in Seq(FrameSet) /\ Limit \in Nat
  BY LenProperties, ReaderAssumption DEF ReaderInv, TypeInv
<1>2. /\ Reading /\ Len(line) <= Limit /\ UNCHANGED <<stream, input, position>>
      /\ stream = "child" /\ state = "reading" /\ AtEnd
      /\ IF line = <<>> THEN ReturnEnd ELSE ReturnFrame(line, <<>>)
  BY DEF ReadEnd, Reading
<1>3. position = Len(input)
  BY <1>1, <1>2, AtEndIs
<1>4. ASSUME Aligned
      PROVE  \E b \in Nat :
               /\ b \in 0..position /\ (b = 0 \/ b \in Ends)
               /\ Returned(frames, b) /\ Quiet(b, position)
               /\ line = Stretch(input, b, position) /\ Len(line) = position - b
  BY <1>2, <1>4, ReadingIs
<1>5. CASE line = <<>>
  <2>1. ASSUME Aligned
        PROVE  /\ Len(input) = 0 \/ Len(input) \in Ends
               /\ Returned(frames, Len(input))
    <3>1. PICK b \in Nat : /\ b \in 0..position /\ (b = 0 \/ b \in Ends)
                           /\ Returned(frames, b) /\ Len(line) = position - b
      BY <1>4, <2>1
    <3>2. Len(line) = 0
      BY <1>5
    <3>3. b = Len(input)
      BY <1>1, <1>3, <3>1, <3>2
    <3> QED
      BY <3>1, <3>3
  <2> QED
    BY <1>1, <1>2, <1>3, <1>5, <2>1, EndKeeps
<1>6. CASE line # <<>>
  <2>1. <<>> = Stretch(input, position, position) /\ <<>> \in Seq(Byte) /\ Len(<<>>) = 0
    BY <1>1, EmptyStretch
  <2>2. line \in FrameSet /\ Len(<<>>) <= Bound
    BY <1>1, <2>1, BoundIs DEF FrameSet
  <2>3. ASSUME Aligned
        PROVE  \E b, e \in Nat : Completes(b, e, line, <<>>, position')
    <3>1. PICK b \in Nat :
             /\ b \in 0..position /\ (b = 0 \/ b \in Ends)
             /\ Returned(frames, b) /\ Quiet(b, position)
             /\ line = Stretch(input, b, position) /\ Len(line) = position - b
      BY <1>4, <2>3
    <3>2. b # position
      BY <1>1, <1>6, <2>1, <3>1
    <3>3. position \in Ends /\ Follows(b, position)
      BY <1>1, <1>3, <3>1, <3>2, FollowsLast
    <3>4. line = Frame(Stretch(input, b, position), position - b)
      BY <1>1, <1>2, <3>1 DEF Frame
    <3>5. Completes(b, position, line, <<>>, position')
      BY <1>1, <1>2, <2>1, <3>1, <3>3, <3>4 DEF Completes
    <3> QED
      BY <1>1, <3>5
  <2> QED
    BY <1>1, <1>2, <1>6, <2>1, <2>2, <2>3, ReturnKeeps
<1> QED
  BY <1>5, <1>6

LEMMA DrainChunkKeeps == ReaderInv /\ DrainChunk => ReaderInv'
<1> SUFFICES ASSUME ReaderInv, DrainChunk
             PROVE  ReaderInv'
  OBVIOUS
<1>1. /\ TypeInv /\ input \in Seq(Byte) /\ position \in 0..Len(input)
      /\ position \in Nat /\ Len(input) \in Nat
      /\ line \in Seq(Byte) /\ Len(line) \in Nat
      /\ frames \in Seq(FrameSet) /\ Limit \in Nat /\ DrainSize \in Nat
  BY LenProperties, ReaderAssumption DEF ReaderInv, TypeInv
<1>2. /\ Reading /\ Len(line) > Limit /\ UNCHANGED <<stream, input>>
      /\ stream = "child" /\ state = "reading"
  BY DEF DrainChunk, Reading
<1>3. PICK chunk \in Arrives(DrainSize) :
         /\ position' = position + Len(chunk)
         /\ IF HasNewline(chunk)
            THEN ReturnFrame(Oversized, BehindNewline(chunk))
            ELSE UNCHANGED <<line, remainder, state, frames>>
  BY DEF DrainChunk
<1>4. PICK to \in position + 1..Len(input) :
         /\ chunk = Stretch(input, position, to)
         /\ chunk \in Seq(Byte) /\ Len(chunk) = to - position
         /\ to - position <= DrainSize
  BY <1>1, ArrivesIs
<1>5. position' = to /\ to \in 0..Len(input) /\ to \in position..Len(input) /\ to \in Nat
  BY <1>1, <1>3, <1>4
<1>6. ASSUME Aligned
      PROVE  \E b \in Nat :
               /\ b \in 0..position /\ (b = 0 \/ b \in Ends)
               /\ Returned(frames, b) /\ Quiet(b, position) /\ position - b > Limit
  BY <1>2, <1>6, ReadingIs
<1>7. CASE HasNewline(chunk)
  <2> DEFINE rest == BehindNewline(chunk)
  <2>1. ReturnFrame(Oversized, rest)
    BY <1>3, <1>7
  <2>2. PICK e \in position + 1..to :
           rest = Stretch(input, e, to) /\ e \in Ends /\ Follows(position, e)
    BY <1>1, <1>4, <1>5, <1>7, CutStretch
  <2>3. e \in Nat /\ to \in e..Len(input)
    BY <1>1, <1>5
  <2>4. rest \in Seq(Byte) /\ Len(rest) = to - e
    BY <1>1, <2>2, <2>3, StretchIs
  <2> HIDE DEF rest
  <2>5. Oversized \in FrameSet /\ Len(rest) <= Bound
    BY <1>1, <1>4, <2>3, <2>4, BoundIs DEF FrameSet
  <2>6. ASSUME Aligned
        PROVE  \E b, d \in Nat : Completes(b, d, Oversized, rest, position')
    <3>1. PICK b \in Nat :
             /\ b \in 0..position /\ (b = 0 \/ b \in Ends)
             /\ Returned(frames, b) /\ Quiet(b, position) /\ position - b > Limit
      BY <1>6, <2>6
    <3>2. e - b > Limit /\ b < e
      BY <1>1, <2>2, <2>3, <3>1
    <3>3. Oversized = Frame(Stretch(input, b, e), e - b)
      BY <3>2 DEF Frame
    <3>4. Quiet(b, e - 1)
      BY <1>1, <2>2, <2>3, <3>1, QuietJoin DEF Follows
    <3>5. Follows(b, e)
      BY <2>2, <3>2, <3>4 DEF Follows
    <3>6. Len(rest) <= Limit
      BY <1>1, <1>2, <1>4, <2>3, <2>4, <2>6 DEF Aligned
    <3>7. Completes(b, e, Oversized, rest, position')
      BY <1>5, <2>2, <2>3, <3>1, <3>3, <3>5, <3>6 DEF Completes
    <3> QED
      BY <2>3, <3>7
  <2>7. stream # "stdin"
    BY <1>2
  <2> QED
    BY <1>2, <1>5, <2>1, <2>4, <2>5, <2>6, <2>7, ReturnKeeps
<1>8. CASE ~HasNewline(chunk)
  <2>1. /\ line' = line /\ state' = "reading" /\ frames' = frames /\ remainder' = <<>>
    BY <1>2, <1>3, <1>8 DEF ReaderInv
  <2>2. Len(line') <= Bound
    BY <2>1 DEF ReaderInv, KeptInv
  <2>3. ASSUME Aligned
        PROVE  \E b \in 0..position' :
                 /\ b = 0 \/ b \in Ends
                 /\ Returned(frames, b) /\ Quiet(b, position')
                 /\ IF stream = "child" /\ Len(line') <= Limit
                    THEN line' = Stretch(input, b, position')
                    ELSE position' - b > Limit
    <3>1. PICK b \in Nat :
             /\ b \in 0..position /\ (b = 0 \/ b \in Ends)
             /\ Returned(frames, b) /\ Quiet(b, position) /\ position - b > Limit
      BY <1>6, <2>3
    <3>2. Quiet(position, to)
      BY <1>1, <1>4, <1>5, <1>8, QuietStretch
    <3>3. Quiet(b, to)
      BY <1>1, <1>5, <3>1, <3>2, QuietJoin
    <3>4. b \in 0..position' /\ position' - b > Limit /\ ~(Len(line') <= Limit)
      BY <1>1, <1>2, <1>4, <1>5, <2>1, <3>1
    <3> QED
      BY <1>5, <3>1, <3>3, <3>4
  <2> QED
    BY <1>1, <1>2, <1>5, <2>1, <2>2, <2>3, GoOnKeeps
<1> QED
  BY <1>7, <1>8

LEMMA DrainEndKeeps == ReaderInv /\ DrainEnd => ReaderInv'
<1> SUFFICES ASSUME ReaderInv, DrainEnd
             PROVE  ReaderInv'
  OBVIOUS
<1>1. /\ TypeInv /\ input \in Seq(Byte) /\ position \in 0..Len(input)
      /\ position \in Nat /\ Len(input) \in Nat
      /\ frames \in Seq(FrameSet) /\ Limit \in Nat
  BY LenProperties, ReaderAssumption DEF ReaderInv, TypeInv
<1>2. /\ Reading /\ Len(line) > Limit /\ UNCHANGED <<stream, input, position>>
      /\ stream = "child" /\ AtEnd /\ ReturnFrame(Oversized, <<>>)
  BY DEF DrainEnd, Reading
<1>3. position = Len(input)
  BY <1>1, <1>2, AtEndIs
<1>4. <<>> = Stretch(input, position, position) /\ <<>> \in Seq(Byte) /\ Len(<<>>) = 0
  BY <1>1, EmptyStretch
<1>5. Oversized \in FrameSet /\ Len(<<>>) <= Bound
  BY <1>4, BoundIs DEF FrameSet
<1>6. ASSUME Aligned
      PROVE  \E b, e \in Nat : Completes(b, e, Oversized, <<>>, position')
  <2>1. PICK b \in Nat :
           /\ b \in 0..position /\ (b = 0 \/ b \in Ends)
           /\ Returned(frames, b) /\ Quiet(b, position) /\ position - b > Limit
    BY <1>2, <1>6, ReadingIs
  <2>2. position \in Ends /\ Follows(b, position)
    BY <1>1, <1>3, <2>1, FollowsLast
  <2>3. Oversized = Frame(Stretch(input, b, position), position - b)
    BY <2>1 DEF Frame
  <2>4. Completes(b, position, Oversized, <<>>, position')
    BY <1>1, <1>2, <1>4, <2>1, <2>2, <2>3 DEF Completes
  <2> QED
    BY <1>1, <2>4
<1> QED
  BY <1>1, <1>2, <1>4, <1>5, <1>6, ReturnKeeps

LEMMA ReaderStep == ReaderInv /\ [Next]_vars => ReaderInv'
<1> SUFFICES ASSUME ReaderInv, [Next]_vars
             PROVE  ReaderInv'
  OBVIOUS
<1>1. CASE UNCHANGED vars
  <2>1. TypeInv' /\ KeptInv' /\ Bound' = Bound
    BY <1>1 DEF ReaderInv, TypeInv, KeptInv, Bound, vars
  <2>2. ASSUME NEW b \in Nat, ProgressInv(b)
        PROVE  ProgressInv(b)'
    <3>1. input' = input /\ Ends' = Ends /\ Returned(frames, b)' /\ Quiet(b, position)' = Quiet(b, position)
      BY <1>1, <2>2, InputAtRest DEF vars, ProgressInv, Returned, Quiet
    <3> QED
      BY <1>1, <2>2, <3>1 DEF ProgressInv, vars, Stretch
  <2> QED
    BY <1>1, <2>1, <2>2 DEF ReaderInv, Aligned, vars
<1> QED
  BY <1>1, ReadStdinKeeps, DrainStdinKeeps, StartLineKeeps, ReadChunkKeeps, ReadEndKeeps,
     DrainChunkKeeps, DrainEndKeeps DEF Next

-----------------------------------------------------------------------------
(***************************************************************************)
(* What follows from it                                                    *)
(***************************************************************************)
LEMMA FramesAre == ReaderInv => (Aligned => FramesExact)
<1> SUFFICES ASSUME ReaderInv, Aligned
             PROVE  FramesExact
  OBVIOUS
<1>1. PICK b \in Nat : ProgressInv(b)
  BY DEF ReaderInv
<1>2. input \in Seq(Byte) /\ Returned(frames, b)
  BY <1>1 DEF ReaderInv, TypeInv, ProgressInv
<1>3. Rank(b) \in Nat /\ Rank(b) <= Cardinality(Ends) /\ Len(frames) = Rank(b)
  BY <1>2, EndsAreFinite DEF Returned
<1>4. ASSUME NEW e \in Ends, Rank(e) <= Len(frames)
      PROVE  frames[Rank(e)] = Frame(LineEnding(e), Len(LineEnding(e)))
  <2>1. e \in Nat /\ Rank(e) \in Nat
    BY <1>2, EndsAre, EndsAreFinite
  <2>2. e <= b
    BY <1>2, <1>3, <1>4, <2>1, RankGrows
  <2> QED
    BY <1>2, <2>2 DEF Returned, EndsUpTo, Expected
<1>5. ASSUME state = "ended"
      PROVE  Len(frames) = Cardinality(Ends)
  <2>1. b = Len(input)
    BY <1>1, <1>5 DEF ProgressInv
  <2>2. EndsUpTo(b) = Ends
    BY <1>2, <2>1, EndsAre DEF EndsUpTo
  <2> QED
    BY <1>3, <2>2 DEF Rank
<1> QED
  BY <1>3, <1>4, <1>5 DEF FramesExact

\* The reader of the client's messages returns exactly their lines, for every
\* limit, and so does the reader of the server's, wherever its chunks end, if
\* the block read while draining is not larger than the limit allows (64 MiB
\* against 65536 bytes by default): FramesExact of _read_line and
\* _read_child_line.  The condition is needed: see the run
\* line_reader_small_limit.
THEOREM LinesAreExact == Spec => [](Aligned => FramesExact)
<1>1. Spec => []ReaderInv
  BY ReaderStart, ReaderStep, PTL DEF Spec
<1> QED
  BY <1>1, FramesAre, PTL

\* Neither reader holds back more than one byte over the limit, or one block
\* of the draining, whatever is sent: MemoryBounded for every limit.
THEOREM ReaderMemoryBounded == Spec => []MemoryBounded
<1>1. Spec => []ReaderInv
  BY ReaderStart, ReaderStep, PTL DEF Spec
<1>2. ReaderInv => MemoryBounded
  BY DEF ReaderInv, KeptInv, Bound, MemoryBounded
<1> QED
  BY <1>1, <1>2, PTL

=============================================================================
