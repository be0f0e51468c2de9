-------------------------- MODULE CommandLineProofs --------------------------
(***************************************************************************)
(* Proofs about the commands that take no part in a run.                   *)
(***************************************************************************)
EXTENDS CommandLine, FiniteSetTheorems, SequenceTheorems, WellFoundedInduction, TLAPS

\* Every set of naturals that is not empty has a least element.
LEMMA LeastOfNat ==
  ASSUME NEW S, S \subseteq Nat, S # {}
  PROVE  \E n \in S : \A k \in S : n <= k
<1> DEFINE Before == OpToRel(<, Nat)
<1>1. \A k, n \in Nat : k < n => <<k, n>> \in Before
  BY DEF OpToRel
<1>2. IsWellFoundedOn(Before, Nat)
  BY NatLessThanWellFounded
<1> HIDE DEF Before
<1>3. PICK n \in S : \A k \in S : <<k, n>> \notin Before
  BY <1>2, WFMin, Zenon
<1>4. ASSUME NEW k \in S
      PROVE  n <= k
  <2>1. n \in Nat /\ k \in Nat /\ ~(k < n)
    BY <1>1, <1>3
  <2> QED
    BY <2>1
<1> QED
  BY <1>3, <1>4

\* Induction over the naturals, of a set in place of a predicate.
LEMMA InductionOnNat ==
  ASSUME NEW S, 0 \in S, \A n \in Nat : n \in S => n + 1 \in S
  PROVE  \A n \in Nat : n \in S
<1> DEFINE Out == {n \in Nat : n \notin S}
<1>1. SUFFICES ASSUME Out # {}
               PROVE  FALSE
  OBVIOUS
<1>2. PICK n \in Out : \A k \in Out : n <= k
  BY <1>1, LeastOfNat
<1>3. n - 1 \in Nat /\ n - 1 \notin Out
  BY <1>2
<1> QED
  BY <1>2, <1>3

-----------------------------------------------------------------------------
(***************************************************************************)
(* check.  What compile() accepts, match() can convert: the validation of  *)
(* a field and its use agree about its type.                               *)
(***************************************************************************)
LEMMA ValidIsUsable ==
  ASSUME NEW type, NEW v, Valid(type, v)
  PROVE  Usable(type, v)
<1>1. CASE type = "text"
  BY <1>1 DEF Valid, Usable, NonEmptyText
<1>2. CASE type = "texts"
  BY <1>2 DEF Valid, Usable, NonEmptyText
<1>3. CASE type = "affix"
  BY <1>3 DEF Valid, Usable, NonEmptyText
<1>4. CASE type = "decimal"
  BY <1>4 DEF Valid, Usable
<1>5. CASE type \notin {"text", "texts", "affix", "decimal"}
  BY <1>5 DEF Usable
<1> QED
  BY <1>1, <1>2, <1>3, <1>4, <1>5

\* No operator has two fields of one name.
LEMMA FieldsAreNamedOnce ==
  ASSUME NEW operator \in DOMAIN Fields,
         NEW i \in DOMAIN Fields[operator], NEW j \in DOMAIN Fields[operator],
         Fields[operator][i][1] = Fields[operator][j][1]
  PROVE  i = j
  BY DEF Fields

LEMMA CompiledFieldIsUsable ==
  ASSUME NEW p, Compile(p), NEW i \in DOMAIN Fields[p.operator],
         Fields[p.operator][i][1] \in DOMAIN p.fields
  PROVE  Usable(Fields[p.operator][i][2], p.fields[Fields[p.operator][i][1]])
<1>1. p.operator \in DOMAIN Fields
  BY DEF Compile
<1>2. PICK field \in ToSet(Fields[p.operator]) :
        /\ field[1] = Fields[p.operator][i][1]
        /\ Valid(field[2], p.fields[Fields[p.operator][i][1]])
  BY DEF Compile
<1>3. PICK j \in DOMAIN Fields[p.operator] : field = Fields[p.operator][j]
  BY DEF ToSet
<1>4. i = j
  BY <1>1, <1>2, <1>3, FieldsAreNamedOnce
<1> QED
  BY <1>2, <1>3, <1>4, ValidIsUsable

-----------------------------------------------------------------------------
(***************************************************************************)
(* lint.  A pattern is followed from character to character of a name, so  *)
(* that one pattern covers another is shown by induction over the name:    *)
(* what the covered one reaches, the covering one reaches too.             *)
(***************************************************************************)

\* A recursion over 0..n whose steps stay in V has a solution.
LEMMA RecursionExists ==
  ASSUME NEW V, NEW base \in V, NEW n \in Nat, NEW succ \in [1..n -> [V -> V]]
  PROVE  \E g \in [0..n -> V] : g[0] = base /\ \A i \in 1..n : g[i] = succ[i][g[i - 1]]
<1> DEFINE Solves(g, m) == g[0] = base /\ \A i \in 1..m : g[i] = succ[i][g[i - 1]]
           Solved == {m \in Nat : m <= n => \E g \in [0..m -> V] : Solves(g, m)}
<1>1. 0 \in Solved
  <2> DEFINE g == [i \in 0..0 |-> base]
  <2>1. g \in [0..0 -> V] /\ Solves(g, 0)
    OBVIOUS
  <2> QED
    BY <2>1
<1>2. ASSUME NEW m \in Nat, m \in Solved, m + 1 <= n
      PROVE  \E h \in [0..(m + 1) -> V] : Solves(h, m + 1)
  <2>1. PICK g \in [0..m -> V] : Solves(g, m)
    BY <1>2
  <2> DEFINE h == [i \in 0..(m + 1) |-> IF i <= m THEN g[i] ELSE succ[m + 1][g[m]]]
  <2>2. g[m] \in V /\ m + 1 \in 1..n
    BY <1>2
  <2>3. succ[m + 1][g[m]] \in V
    BY <2>2
  <2>4. h \in [0..(m + 1) -> V]
    BY <2>3
  <2>5. h[0] = base
    BY <2>1
  <2>6. ASSUME NEW i \in 1..(m + 1)
        PROVE  h[i] = succ[i][h[i - 1]]
    <3>1. i - 1 \in 0..m /\ h[i - 1] = g[i - 1]
      OBVIOUS
    <3>2. CASE i <= m
      BY <2>1, <3>1, <3>2
    <3>3. CASE i = m + 1
      <4>1. h[m + 1] = succ[m + 1][g[m]] /\ i - 1 = m /\ h[m] = g[m]
        BY <3>1, <3>3
      <4> QED
        BY <3>3, <4>1
    <3> QED
      BY <3>2, <3>3
  <2> HIDE DEF h
  <2> QED
    BY <2>4, <2>5, <2>6
<1>3. \A m \in Nat : m \in Solved => m + 1 \in Solved
  BY <1>2
<1> HIDE DEF Solved
<1>4. n \in Solved
  BY <1>1, <1>3, InductionOnNat
<1> QED
  BY <1>4 DEF Solved

\* What follows the positions reached by n - 1 characters.
Follow(p, s, n, reached) == OverStars(p, UNION {Led(p, i, s[n]) : i \in reached})

\* r is the recursion of Reached on the first n characters.
IsReached(r, p, s, n) ==
  r = [k \in 0..n |->
         OverStars(p, IF k = 0 THEN {1} ELSE UNION {Led(p, i, s[k]) : i \in r[k - 1]})]

LEMMA ReachedExists ==
  ASSUME NEW p, NEW s, NEW n \in Nat
  PROVE  \E r : IsReached(r, p, s, n)
<1> DEFINE V == SUBSET (1..(Len(p) + 1))
           base == OverStars(p, {1})
           succ == [k \in 1..n |-> [reached \in V |-> Follow(p, s, k, reached)]]
<1>1. base \in V
  BY DEF OverStars
<1>2. \A k, reached : Follow(p, s, k, reached) \in V
  BY DEF Follow, OverStars
<1>3. succ \in [1..n -> [V -> V]]
  BY <1>2
<1>4. \A k \in 1..n, reached \in V : succ[k][reached] = Follow(p, s, k, reached)
  OBVIOUS
<1> HIDE DEF V, base, succ
<1>5. \E r \in [0..n -> V] : r[0] = base /\ \A k \in 1..n : r[k] = succ[k][r[k - 1]]
  BY <1>1, <1>3, RecursionExists
<1>6. PICK r \in [0..n -> V] : r[0] = base /\ \A k \in 1..n : r[k] = succ[k][r[k - 1]]
  BY <1>5
<1>7. ASSUME NEW k \in 0..n
      PROVE  r[k] = OverStars(p, IF k = 0 THEN {1} ELSE UNION {Led(p, i, s[k]) : i \in r[k - 1]})
  <2>1. CASE k = 0
    BY <1>6, <2>1 DEF base
  <2>2. CASE k # 0
    <3>1. k \in 1..n /\ k - 1 \in 0..n
      BY <2>2
    <3>2. r[k - 1] \in V
      BY <1>6, <3>1
    <3>3. r[k] = Follow(p, s, k, r[k - 1])
      BY <1>4, <1>6, <3>1, <3>2
    <3> QED
      BY <2>2, <3>3 DEF Follow
  <2> QED
    BY <2>1, <2>2
<1>8. r = [k \in 0..n |-> r[k]]
  BY <1>6
<1>9. IsReached(r, p, s, n)
  BY <1>7, <1>8, Zenon DEF IsReached
<1> QED
  BY <1>9

LEMMA ReachedAt ==
  ASSUME NEW p, NEW s, Len(s) \in Nat
  PROVE  /\ Reached(p, s)[0] = OverStars(p, {1})
         /\ \A n \in 1..Len(s) : Reached(p, s)[n] = Follow(p, s, n, Reached(p, s)[n - 1])
         /\ \A n \in 0..Len(s) : Reached(p, s)[n] \subseteq 1..(Len(p) + 1)
<1> DEFINE r == Reached(p, s)
<1>1. r = CHOOSE f : IsReached(f, p, s, Len(s))
  BY Zenon DEF Reached, IsReached
<1>2. IsReached(r, p, s, Len(s))
  BY <1>1, ReachedExists, Zenon
<1> HIDE DEF r
<1>3. ASSUME NEW n \in 0..Len(s)
      PROVE  r[n] = OverStars(p, IF n = 0 THEN {1} ELSE UNION {Led(p, i, s[n]) : i \in r[n - 1]})
  BY <1>2, Zenon DEF IsReached
<1>4. r[0] = OverStars(p, {1})
  <2>1. 0 \in 0..Len(s)
    OBVIOUS
  <2> QED
    BY <1>3, <2>1
<1>5. ASSUME NEW n \in 1..Len(s)
      PROVE  r[n] = Follow(p, s, n, r[n - 1])
  <2>1. n \in 0..Len(s) /\ n # 0
    OBVIOUS
  <2> QED
    BY <1>3, <2>1 DEF Follow
<1>6. \A n \in 0..Len(s) : r[n] \subseteq 1..(Len(p) + 1)
  BY <1>3 DEF OverStars
<1> QED
  BY <1>4, <1>5, <1>6 DEF r

\* What b reaches of a pattern that is the first k characters of another and a
\* star, as long as a is what that other reaches.
Ahead(a, b, k) ==
  \A i \in a : /\ i <= k => i \in b
               /\ i > k => k + 1 \in b /\ k + 2 \in b

LEMMA OverStarsAhead ==
  ASSUME NEW p, NEW q, NEW k \in Nat, Len(p) \in Nat, k <= Len(p), Len(q) = k + 1,
         \A i \in 1..k : q[i] = p[i], q[k + 1] = "*",
         NEW a \in SUBSET (1..(Len(p) + 1)), NEW b,
         \A i \in a : (i <= k => i \in b) /\ (i > k => k + 1 \in b)
  PROVE  Ahead(OverStars(p, a), OverStars(q, b), k)
<1> SUFFICES ASSUME NEW j \in OverStars(p, a)
             PROVE  /\ j <= k => j \in OverStars(q, b)
                    /\ j > k => k + 1 \in OverStars(q, b) /\ k + 2 \in OverStars(q, b)
  BY DEF Ahead
<1>1. j \in 1..(Len(p) + 1)
  BY DEF OverStars
<1>2. PICK i \in a : i <= j /\ \A m \in i..(j - 1) : p[m] = "*"
  BY DEF OverStars
<1>3. i \in 1..(Len(p) + 1)
  BY <1>2
<1>4. ASSUME j <= k
      PROVE  j \in OverStars(q, b)
  <2>1. i \in b /\ j \in 1..(Len(q) + 1)
    BY <1>1, <1>2, <1>3, <1>4
  <2>2. \A m \in i..(j - 1) : m \in 1..k /\ p[m] = "*"
    BY <1>1, <1>2, <1>3, <1>4
  <2>3. \A m \in i..(j - 1) : q[m] = "*"
    BY <2>2
  <2> QED
    BY <1>2, <2>1, <2>3 DEF OverStars
<1>5. ASSUME j > k
      PROVE  k + 1 \in OverStars(q, b) /\ k + 2 \in OverStars(q, b)
  <2>1. PICK h \in b : h \in 1..(k + 1) /\ \A m \in h..k : q[m] = "*"
    <3>1. CASE i <= k
      <4>1. \A m \in i..k : m \in 1..k /\ m \in i..(j - 1)
        BY <1>1, <1>3, <1>5
      <4>2. \A m \in i..k : q[m] = "*"
        BY <1>2, <4>1
      <4> QED
        BY <1>3, <3>1, <4>2
    <3>2. CASE i > k
      <4>1. k + 1 \in b /\ k + 1 \in 1..(k + 1) /\ (k + 1)..k = {}
        BY <3>2
      <4> QED
        BY <4>1
    <3> QED
      BY <1>3, <3>1, <3>2
  <2>2. \A m \in h..(k + 1) : q[m] = "*"
    <3>1. \A m \in h..(k + 1) : m \in h..k \/ m = k + 1
      BY <2>1
    <3> QED
      BY <2>1, <3>1
  <2>3. /\ k + 1 \in 1..(Len(q) + 1) /\ k + 2 \in 1..(Len(q) + 1)
        /\ h <= k + 1 /\ h <= k + 2 /\ (k + 1) - 1 = k /\ (k + 2) - 1 = k + 1
    BY <2>1
  <2> QED
    BY <2>1, <2>2, <2>3 DEF OverStars
<1> QED
  BY <1>4, <1>5

LEMMA LedAhead ==
  ASSUME NEW p, NEW q, NEW c, NEW k \in Nat, Len(p) \in Nat, k <= Len(p), Len(q) = k + 1,
         \A i \in 1..k : q[i] = p[i], q[k + 1] = "*", \A i \in 1..Len(p) : p[i] # "[",
         NEW a \in SUBSET (1..(Len(p) + 1)), NEW b, Ahead(a, b, k)
  PROVE  LET led == UNION {Led(q, i, c) : i \in b} IN
         \A j \in UNION {Led(p, i, c) : i \in a} :
           j \in 1..(Len(p) + 1) /\ (j <= k => j \in led) /\ (j > k => k + 1 \in led)
<1> DEFINE led == UNION {Led(q, i, c) : i \in b}
<1> SUFFICES ASSUME NEW i \in a, NEW j \in Led(p, i, c)
             PROVE  j \in 1..(Len(p) + 1) /\ (j <= k => j \in led) /\ (j > k => k + 1 \in led)
  OBVIOUS
<1>1. i \in 1..Len(p)
  BY DEF Led
<1>2. Closing(p, i) = {}
  BY <1>1 DEF Closing
<1>3. j = i \/ j = i + 1
  BY <1>2 DEF Led
<1>4. CASE i <= k
  <2>1. q[i] = p[i] /\ p[i] # "[" /\ i \in b
    BY <1>1, <1>4 DEF Ahead
  <2>2. Closing(q, i) = {}
    BY <2>1 DEF Closing
  <2>3. Led(q, i, c) = Led(p, i, c)
    BY <1>1, <1>2, <1>4, <2>1, <2>2 DEF Led
  <2>4. j \in led
    BY <2>1, <2>3
  <2>5. j > k => j = k + 1
    BY <1>1, <1>3, <1>4
  <2> QED
    BY <1>1, <1>3, <2>4, <2>5
<1>5. CASE i > k
  <2>1. k + 1 \in b
    BY <1>5 DEF Ahead
  <2>2. Led(q, k + 1, c) = {k + 1}
    BY DEF Led
  <2>3. k + 1 \in led
    BY <2>1, <2>2
  <2> QED
    BY <1>1, <1>3, <1>5, <2>3
<1> QED
  BY <1>1, <1>4, <1>5

\* Every name that a pattern without classes matches is matched by what that
\* pattern starts with and a star.
LEMMA PrefixCovers ==
  ASSUME NEW p, NEW q, NEW s, NEW k \in Nat, Len(p) \in Nat, Len(s) \in Nat,
         k <= Len(p), Len(q) = k + 1,
         \A i \in 1..k : q[i] = p[i], q[k + 1] = "*", \A i \in 1..Len(p) : p[i] # "[",
         GlobMatch(p, s)
  PROVE  GlobMatch(q, s)
<1> DEFINE a == Reached(p, s)
           b == Reached(q, s)
           Follows == {n \in Nat : n <= Len(s) => Ahead(a[n], b[n], k)}
<1>1. /\ a[0] = OverStars(p, {1}) /\ b[0] = OverStars(q, {1})
      /\ \A n \in 1..Len(s) : /\ a[n] = Follow(p, s, n, a[n - 1])
                             /\ b[n] = Follow(q, s, n, b[n - 1])
      /\ \A n \in 0..Len(s) : a[n] \in SUBSET (1..(Len(p) + 1))
  BY ReachedAt
<1>2. Len(p) + 1 \in a[Len(s)]
  BY DEF GlobMatch
<1>3. SUFFICES Len(q) + 1 \in b[Len(s)]
  BY DEF GlobMatch
<1> HIDE DEF a, b
<1>4. 0 \in Follows
  <2>1. {1} \in SUBSET (1..(Len(p) + 1))
    OBVIOUS
  <2>2. \A i \in {1} : (i <= k => i \in {1}) /\ (i > k => k + 1 \in {1})
    OBVIOUS
  <2>3. Ahead(OverStars(p, {1}), OverStars(q, {1}), k)
    BY <2>1, <2>2, OverStarsAhead
  <2> QED
    BY <1>1, <2>3
<1>5. ASSUME NEW n \in Nat, n \in Follows
      PROVE  n + 1 \in Follows
  <2> DEFINE m == n + 1
             u == UNION {Led(p, i, s[m]) : i \in a[n]}
             v == UNION {Led(q, i, s[m]) : i \in b[n]}
  <2>1. SUFFICES ASSUME m <= Len(s)
                 PROVE  Ahead(a[m], b[m], k)
    OBVIOUS
  <2>2. m \in 1..Len(s) /\ m - 1 = n /\ n \in 0..Len(s)
    BY <2>1
  <2>3. a[n] \in SUBSET (1..(Len(p) + 1)) /\ Ahead(a[n], b[n], k)
    BY <1>1, <1>5, <2>2
  <2>4. a[m] = Follow(p, s, m, a[n]) /\ b[m] = Follow(q, s, m, b[n])
    BY <1>1, <2>2
  <2> HIDE DEF m
  <2>5. a[m] = OverStars(p, u) /\ b[m] = OverStars(q, v)
    BY <2>4 DEF Follow
  <2>6. \A j \in u : j \in 1..(Len(p) + 1) /\ (j <= k => j \in v) /\ (j > k => k + 1 \in v)
    BY <2>3, LedAhead
  <2> HIDE DEF u, v
  <2>7. Ahead(OverStars(p, u), OverStars(q, v), k)
    BY <2>6, OverStarsAhead
  <2> QED
    BY <2>5, <2>7
<1> HIDE DEF Follows
<1>6. Len(s) \in Follows
  BY <1>4, <1>5, InductionOnNat
<1>7. Ahead(a[Len(s)], b[Len(s)], k)
  BY <1>6 DEF Follows
<1>8. Len(p) + 1 > k /\ Len(q) + 1 = k + 2
  OBVIOUS
<1> QED
  BY <1>2, <1>7, <1>8 DEF Ahead

\* A pattern of letters and question marks is compared character by character.
LEMMA PlainMatch ==
  ASSUME NEW p, NEW s, Len(p) \in Nat, Len(s) \in Nat,
         \A i \in 1..Len(p) : p[i] \notin {"*", "["}
  PROVE  GlobMatch(p, s) <=> Len(s) = Len(p) /\ \A i \in 1..Len(p) : p[i] \in {"?", s[i]}
<1> DEFINE r == Reached(p, s)
           At(n, j) == j = n + 1 /\ n <= Len(p) /\ \A i \in 1..n : p[i] \in {"?", s[i]}
           Exact == {n \in Nat : n <= Len(s) => \A j : j \in r[n] <=> At(n, j)}
<1>1. /\ r[0] = OverStars(p, {1})
      /\ \A n \in 1..Len(s) : r[n] = Follow(p, s, n, r[n - 1])
      /\ \A n \in 0..Len(s) : r[n] \subseteq 1..(Len(p) + 1)
  BY ReachedAt
<1>2. GlobMatch(p, s) <=> Len(p) + 1 \in r[Len(s)]
  BY DEF GlobMatch
<1> HIDE DEF r
<1>3. ASSUME NEW u, u \subseteq 1..(Len(p) + 1)
      PROVE  OverStars(p, u) = u
  <2>1. ASSUME NEW j \in 1..(Len(p) + 1), NEW i \in u, i <= j, \A m \in i..(j - 1) : p[m] = "*"
        PROVE  i = j
    <3>1. i \in 1..(Len(p) + 1)
      BY <1>3
    <3>2. SUFFICES ASSUME i < j PROVE FALSE
      BY <2>1, <3>1
    <3>3. i \in i..(j - 1) /\ i \in 1..Len(p)
      BY <3>1, <3>2
    <3> QED
      BY <2>1, <3>3
  <2>2. ASSUME NEW j \in u
        PROVE  j <= j /\ j..(j - 1) = {}
    BY <1>3
  <2> QED
    BY <1>3, <2>1, <2>2 DEF OverStars
<1>4. ASSUME NEW i \in 1..Len(p), NEW c
      PROVE  Led(p, i, c) = {j \in {i + 1} : p[i] \in {"?", c}}
  <2>1. Closing(p, i) = {}
    BY DEF Closing
  <2> QED
    BY <2>1 DEF Led
<1>5. 0 \in Exact
  <2>1. r[0] = {1}
    BY <1>1, <1>3
  <2> QED
    BY <2>1
<1>6. ASSUME NEW n \in Nat, n \in Exact
      PROVE  n + 1 \in Exact
  <2> DEFINE m == n + 1
             u == UNION {Led(p, i, s[m]) : i \in r[n]}
  <2>1. SUFFICES ASSUME m <= Len(s)
                 PROVE  \A j : j \in r[m] <=> At(m, j)
    OBVIOUS
  <2>2. m \in 1..Len(s) /\ m - 1 = n /\ n \in 0..Len(s)
    BY <2>1
  <2>3. r[m] = OverStars(p, u)
    BY <1>1, <2>2 DEF Follow
  <2>4. \A i : i \in r[n] <=> At(n, i)
    BY <1>6, <2>2
  <2>5. CASE m \in r[n] /\ m <= Len(p)
    <3>1. r[n] = {m} /\ m \in 1..Len(p)
      BY <2>4, <2>5
    <3>2. u = {j \in {m + 1} : p[m] \in {"?", s[m]}}
      BY <1>4, <3>1
    <3>3. r[m] = u
      BY <1>3, <2>3, <3>1, <3>2
    <3>4. \A i \in 1..m : i \in 1..n \/ i = m
      OBVIOUS
    <3>5. \A i \in 1..n : p[i] \in {"?", s[i]}
      BY <2>4, <2>5
    <3>6. m \in 1..m
      BY <3>1
    <3> HIDE DEF m, u
    <3> QED
      BY <3>1, <3>2, <3>3, <3>4, <3>5, <3>6
  <2>6. CASE ~(m \in r[n] /\ m <= Len(p))
    <3>1. \A i \in r[n] : i = m /\ i > Len(p)
      BY <2>4, <2>6
    <3>2. \A i \in r[n] : Led(p, i, s[m]) = {}
      BY <3>1 DEF Led
    <3>3. r[m] = {}
      BY <1>3, <2>3, <3>2
    <3>4. ~(m <= Len(p) /\ \A i \in 1..m : p[i] \in {"?", s[i]})
      BY <2>4, <2>6
    <3> QED
      BY <3>3, <3>4
  <2> QED
    BY <2>5, <2>6
<1> HIDE DEF Exact
<1>7. Len(s) \in Exact
  BY <1>5, <1>6, InductionOnNat
<1>8. Len(p) + 1 \in r[Len(s)] <=> At(Len(s), Len(p) + 1)
  BY <1>7 DEF Exact
<1> QED
  BY <1>2, <1>8

\* What _glob_covers answers is right for patterns without classes.
LEMMA CoversMeansMatches ==
  ASSUME NEW broad \in Seq(STRING), NEW specific \in Seq(STRING), NEW s \in Seq(STRING),
         ~HasClass(broad), ~HasClass(specific),
         GlobCovers(broad, specific), GlobMatch(specific, s)
  PROVE  GlobMatch(broad, s)
<1>1. Len(broad) \in Nat /\ Len(specific) \in Nat /\ Len(s) \in Nat
  OBVIOUS
<1>2. /\ \A i \in 1..Len(broad) : broad[i] # "["
      /\ \A i \in 1..Len(specific) : specific[i] # "["
  BY DEF HasClass, ToSet
<1>3. CASE broad = <<"*">>
  <2>1. Len(broad) = 0 + 1 /\ broad[0 + 1] = "*" /\ 0 \in Nat
    BY <1>3
  <2>2. \A i \in 1..0 : broad[i] = specific[i]
    OBVIOUS
  <2>3. 0 <= Len(specific)
    BY <1>1
  <2> QED
    BY <1>1, <1>2, <2>1, <2>2, <2>3, PrefixCovers
<1>4. CASE broad = specific
  BY <1>4
<1>5. CASE "*" \in ToSet(broad) /\ Last(broad) = "*" /\ IsPrefix(Front(broad), specific)
  <2> DEFINE k == Len(broad) - 1
  <2>1. Len(broad) > 0
    BY <1>1, <1>5 DEF ToSet
  <2>2. k \in Nat /\ Len(broad) = k + 1 /\ broad[k + 1] = "*"
    BY <1>1, <1>5, <2>1 DEF Last
  <2>3. Front(broad) = SubSeq(broad, 1, k) /\ Len(SubSeq(broad, 1, k)) = k
    BY <2>2 DEF Front
  <2>4. k <= Len(specific) /\ SubSeq(broad, 1, k) = SubSeq(specific, 1, k)
    BY <1>1, <1>5, <2>2, <2>3 DEF IsPrefix
  <2>5. \A i \in 1..k : broad[i] = specific[i]
    BY <2>2, <2>4
  <2> HIDE DEF k
  <2> QED
    BY <1>1, <1>2, <2>2, <2>4, <2>5, PrefixCovers
<1>6. CASE "*" \notin ToSet(broad) /\ "*" \notin ToSet(specific) /\ GlobMatch(broad, specific)
  <2>1. /\ \A i \in 1..Len(broad) : broad[i] \notin {"*", "["}
        /\ \A i \in 1..Len(specific) : specific[i] \notin {"*", "["}
    BY <1>2, <1>6 DEF ToSet
  <2>2. Len(specific) = Len(broad) /\ \A i \in 1..Len(broad) : broad[i] \in {"?", specific[i]}
    BY <1>1, <1>6, <2>1, PlainMatch
  <2>3. Len(s) = Len(specific) /\ \A i \in 1..Len(specific) : specific[i] \in {"?", s[i]}
    BY <1>1, <2>1, PlainMatch
  <2>4. Len(s) = Len(broad) /\ \A i \in 1..Len(broad) : broad[i] \in {"?", s[i]}
    BY <2>2, <2>3
  <2> QED
    BY <1>1, <2>1, <2>4, PlainMatch
<1> QED
  BY <1>3, <1>4, <1>5, <1>6 DEF GlobCovers

\* The linter reports what it finds in the policy it was given.
LintInv ==
  findings # {} =>
    /\ policy \in Policies
    /\ findings = PolicyFindings \union
                  UNION {RuleWarnings(i) \union RuleErrors(i) : i \in DOMAIN policy.rules}

LEMMA LintInvariant == Spec => []LintInv
<1>1. Init => LintInv
  BY DEF Init, NoLint, LintInit, LintInv
<1>2. Spec => [](command \in {"lint", "doctor"} => policy \in Policies)
  <2> DEFINE Given == command \in {"lint", "doctor"} => policy \in Policies
  <2>1. Init => Given
    BY DEF Init, LintInit
  <2>2. Given /\ [Next]_allVars => Given'
    BY DEF Next, Check, PolicyLint, Doctor, Benchmark, Exits, LintPolicy, cliVars, lintVars, allVars
  <2> QED
    BY <2>1, <2>2, PTL DEF Spec
<1>3. LintInv /\ (command \in {"lint", "doctor"} => policy \in Policies) /\ [Next]_allVars => LintInv'
  <2> SUFFICES ASSUME LintInv, command \in {"lint", "doctor"} => policy \in Policies, [Next]_allVars
               PROVE  LintInv'
    OBVIOUS
  <2>1. CASE LintPolicy /\ command \in {"lint", "doctor"}
    BY <2>1 DEF LintPolicy, LintInv, PolicyFindings, RuleWarnings, RuleErrors, Policies
  <2>2. CASE UNCHANGED lintVars
    <3>1. policy' = policy /\ findings' = findings
      BY <2>2 DEF lintVars
    <3>2. PolicyFindings' = PolicyFindings
      BY <3>1 DEF PolicyFindings
    <3>3. \A i : RuleWarnings(i)' = RuleWarnings(i)
      BY <3>1 DEF RuleWarnings
    <3>4. \A i : RuleErrors(i)' = RuleErrors(i)
      BY <3>1 DEF RuleErrors
    <3> QED
      BY <3>1, <3>2, <3>3, <3>4 DEF LintInv
  <2> QED
    BY <2>1, <2>2 DEF Next, Check, PolicyLint, Doctor, Benchmark, Runs, allVars
<1> QED
  BY <1>1, <1>2, <1>3, PTL DEF Spec

LEMMA DeadBehindAnother ==
  ASSUME policy \in Policies, NEW i \in DOMAIN policy.rules, NEW j \in 1..(i - 1),
         \A c \in Calls : RuleMatches(policy.rules[i], c) => RuleMatches(policy.rules[j], c)
  PROVE  Dead(i)
BY DEF Dead, Decides

LEMMA PlainFindings == LintInv => PlainFlaggedIsDead
<1> SUFFICES ASSUME LintInv, NEW f \in findings,
                    \/ f[1] = "shadowed_equivalent"
                    \/ /\ f[1] = "approval_shadowed_by_allow"
                       /\ \A i \in 1..f[2] : ~HasClass(policy.rules[i].tool)
             PROVE  Dead(f[2])
  BY DEF PlainFlaggedIsDead
<1>1. policy \in Policies
  BY DEF LintInv
<1>2. PICK i \in DOMAIN policy.rules : f \in RuleErrors(i)
  <2>1. f \notin PolicyFindings
    BY DEF PolicyFindings
  <2>2. \A i \in DOMAIN policy.rules : f \notin RuleWarnings(i)
    BY DEF RuleWarnings
  <2> QED
    BY <2>1, <2>2 DEF LintInv
<1>3. f[2] = i
  BY <1>2 DEF RuleErrors
<1>4. PICK j \in 1..(i - 1) :
        \/ f[1] = "shadowed_equivalent" /\ Equivalent(policy.rules[j], policy.rules[i])
        \/ f[1] = "approval_shadowed_by_allow" /\ HidesApproval(policy.rules[j], policy.rules[i])
  BY <1>2 DEF RuleErrors
<1>5. PICK n \in 1..MaxRules : policy.rules \in [1..n -> Rule]
  BY <1>1 DEF Policies
<1>6. /\ i \in 1..n /\ j \in 1..n /\ i \in 1..i /\ j \in 1..i
      /\ policy.rules[i] \in Rule /\ policy.rules[j] \in Rule
  BY <1>4, <1>5
<1>7. CASE Equivalent(policy.rules[j], policy.rules[i])
  BY <1>1, <1>3, <1>7, DeadBehindAnother DEF Equivalent, RuleMatches
<1>8. CASE f[1] = "approval_shadowed_by_allow" /\ HidesApproval(policy.rules[j], policy.rules[i])
  <2> DEFINE broad == policy.rules[j].tool
             specific == policy.rules[i].tool
  <2>1. /\ broad \in Pattern /\ specific \in Pattern
        /\ broad \in Seq(STRING) /\ specific \in Seq(STRING)
    BY <1>6, TextAssumption DEF Rule
  <2>2. ~HasClass(broad) /\ ~HasClass(specific) /\ GlobCovers(broad, specific)
        /\ policy.rules[j].arguments = "none"
    BY <1>3, <1>6, <1>8 DEF HidesApproval
  <2>3. ASSUME NEW c \in Calls, RuleMatches(policy.rules[i], c)
        PROVE  RuleMatches(policy.rules[j], c)
    <3> DEFINE s == c.name
    <3>1. s \in Name /\ s \in Seq(STRING)
      BY TextAssumption DEF Calls
    <3>2. GlobMatch(specific, s)
      BY <2>3 DEF RuleMatches, Matched
    <3>3. GlobMatch(broad, s)
      <4> HIDE DEF broad, specific, s
      <4> QED
        BY <2>1, <2>2, <3>1, <3>2, CoversMeansMatches
    <3> QED
      BY <2>1, <2>2, <3>1, <3>3 DEF RuleMatches, Matched
  <2> QED
    BY <1>1, <1>3, <1>4, <2>3, DeadBehindAnother
<1> QED
  BY <1>4, <1>7, <1>8

\* For every set of patterns, names and rules: a rule that the linter calls
\* unreachable, and no class is near, decides no call (lint_policy).
THEOREM FlaggedRulesAreDead == Spec => []PlainFlaggedIsDead
BY LintInvariant, PlainFindings, PTL

-----------------------------------------------------------------------------
(***************************************************************************)
(* benchmark.  From its loading to its hash a file keeps the contents that *)
(* were loaded, unless it slipped.                                         *)
(***************************************************************************)
Loaded == {"hash_policy", "hash_cases", "write_json", "write_markdown", "gate"}

Hashed == {"write_json", "write_markdown", "gate"}

IsPair(r) == r = [policy |-> r.policy, cases |-> r.cases]

PolicyKept(reading) == loaded.policy = reading.policy \/ "policy" \in slipped

CasesKept(reading) == loaded.cases = reading.cases \/ "cases" \in slipped

DriftInv ==
  /\ IsPair(at) /\ IsPair(loaded) /\ IsPair(hashed)
  /\ step \in {"load_cases", "hash_policy"} => PolicyKept(at)
  /\ step \in {"hash_policy", "hash_cases"} => CasesKept(at)
  /\ step \in Hashed \union {"hash_cases"} => PolicyKept(hashed)
  /\ step \in Hashed => CasesKept(hashed)
  /\ "json" \in written => /\ PolicyKept(hashed) /\ CasesKept(hashed)
                           /\ step \in {"write_markdown", "gate", "done"}

LEMMA DriftInit == Init => DriftInv
BY DEF Init, DriftInv, NoBenchmark, BenchmarkInit, IsPair, Neither, Frozen, Hashed

LEMMA DriftStep == DriftInv /\ [Next]_allVars => DriftInv'
<1> SUFFICES ASSUME DriftInv, [Next]_allVars
             PROVE  DriftInv'
  OBVIOUS
<1> USE DEF DriftInv, IsPair, Hashed, PolicyKept, CasesKept
<1>1. CASE UNCHANGED <<at, step, loaded, hashed, written, slipped>>
  BY <1>1
<1>2. CASE UNCHANGED <<at, slipped>> /\ HashPolicy
  BY <1>2 DEF HashPolicy, Goto
<1>3. CASE UNCHANGED <<at, slipped>> /\ HashCases
  BY <1>3 DEF HashCases, Goto, Ends
<1>4. CASE UNCHANGED <<at, slipped>> /\ LoadPolicy
  BY <1>4 DEF LoadPolicy, Goto, Ends
<1>5. CASE UNCHANGED <<at, slipped>> /\ LoadCases
  BY <1>5 DEF LoadCases, Goto, Ends
<1>6. CASE UNCHANGED <<at, slipped>> /\ Replay
  BY <1>6 DEF Replay, Ends
<1>7. CASE UNCHANGED <<at, slipped>> /\ WriteReport
  BY <1>7 DEF WriteReport, Write, Goto, Ends
<1>8. CASE UNCHANGED <<at, slipped>> /\ CheckThresholds
  BY <1>8 DEF CheckThresholds, Ends
<1>9. CASE Edit
  <2>1. UNCHANGED <<step, loaded, hashed, written>> /\ IsPair(at')
    BY <1>9 DEF Edit
  <2>2. /\ at'.policy # at.policy /\ step \in {"load_cases", "hash_policy"} => "policy" \in slipped'
        /\ at'.cases # at.cases /\ step \in {"hash_policy", "hash_cases"} => "cases" \in slipped'
        /\ slipped \subseteq slipped'
    BY <1>9 DEF Edit
  <2> QED
    BY <2>1, <2>2
<1>10. CASE Check \/ PolicyLint \/ Doctor
  BY <1>1, <1>10 DEF Check, PolicyLint, Doctor, Exits
<1> QED
  BY <1>1, <1>2, <1>3, <1>4, <1>5, <1>6, <1>7, <1>8, <1>9, <1>10
     DEF Next, Benchmark, BenchmarkStep, allVars, benchmarkVars

\* A report under the hashes of the freeze manifest was computed from the
\* frozen files, but for a file edited between its loading and its hash, when
\* the edit may be undone in time (benchmark with --verify-freeze).
THEOREM ReportsTellDrift == Spec => []ReportTellsDrift
<1>1. DriftInv => ReportTellsDrift
  BY DEF DriftInv, ReportTellsDrift, PolicyKept, CasesKept
<1> QED
  BY <1>1, DriftInit, DriftStep, PTL DEF Spec

-----------------------------------------------------------------------------
(***************************************************************************)
(* benchmark and replay.  The metrics count what the reference compares.   *)
(***************************************************************************)
LEMMA RuleKinds ==
  ASSUME NEW p \in Contents, NEW c
  PROVE  P(p)!RuleDecision(c).kind \in Kinds
<1>1. p.default \in Kinds /\ p.rules \in Seq(CaseRule)
  BY DEF Contents
<1>2. CASE \E i \in DOMAIN p.rules : P(p)!IsFirstMatch(i, c)
  <2> DEFINE i == CHOOSE j \in DOMAIN p.rules : P(p)!IsFirstMatch(j, c)
  <2>1. i \in DOMAIN p.rules
    BY <1>2
  <2>2. P(p)!RuleDecision(c).kind = p.rules[i].decision
    BY <1>2 DEF P!RuleDecision
  <2> HIDE DEF i
  <2>3. p.rules[i].decision \in Kinds
    <3>1. p.rules[i] \in CaseRule
      BY <1>1, <2>1
    <3> QED
      BY <3>1 DEF CaseRule
  <2> QED
    BY <2>2, <2>3
<1>3. CASE ~\E i \in DOMAIN p.rules : P(p)!IsFirstMatch(i, c)
  BY <1>1, <1>3 DEF P!RuleDecision
<1> QED
  BY <1>2, <1>3

\* A benchmark's policy limits the number of calls and nothing else.
Full(p, used) == p.max_calls # Absent /\ used >= p.max_calls

LEMMA EvaluateIs ==
  ASSUME NEW p, NEW u, NEW c
  PROVE  P(p)!Evaluate(u, c).kind
           = IF Full(p, u.tool_calls) THEN "block" ELSE P(p)!RuleDecision(c).kind
BY DEF P!Evaluate, P!BudgetSpent, P!Exhausted, P!CostExceeded, Full

LEMMA CountedIs ==
  ASSUME NEW p, NEW u \in P(p)!Usage, NEW c \in CaseCall
  PROVE  /\ Counted(p, u, c) \in P(p)!Usage
         /\ Counted(p, u, c).tool_calls
              = IF ~Full(p, u.tool_calls) /\ P(p)!RuleDecision(c).kind = "allow"
                THEN u.tool_calls + 1 ELSE u.tool_calls
<1>1. u.tool_calls \in Nat
  BY DEF P!Usage
<1>2. P(p)!Record(u, c) \in P(p)!Usage /\ P(p)!Record(u, c).tool_calls = u.tool_calls + 1
  <2>1. c.name \in Tools /\ P(p)!FingerprintOf(c) \in P(p)!Fingerprint /\ c.estimated_cost_usd \in Nat
    BY DEF CaseCall, P!FingerprintOf, P!Fingerprint
  <2>2. u.tool_calls + 1 \in Nat /\ u.estimated_cost_usd + c.estimated_cost_usd \in Nat
    BY <2>1 DEF P!Usage
  <2>3. [u.calls_by_tool EXCEPT ![c.name] = @ + 1] \in [Tools -> Nat]
    BY <2>1 DEF P!Usage
  <2>4. [u.calls_by_fingerprint EXCEPT ![P(p)!FingerprintOf(c)] = @ + 1]
          \in [P(p)!Fingerprint -> Nat]
    BY <2>1 DEF P!Usage
  <2> QED
    BY <2>2, <2>3, <2>4 DEF P!Usage, P!Record
<1> QED
  BY <1>1, <1>2, EvaluateIs DEF Counted

LEMMA EmptyUsageIs ==
  ASSUME NEW p
  PROVE  P(p)!EmptyUsage \in P(p)!Usage /\ P(p)!EmptyUsage.tool_calls = 0
BY DEF P!EmptyUsage, P!Usage

\* g is the recursion of UsageAfter.
IsUsage(g, p, case) ==
  g = [n \in 0..Len(case.calls) |->
         IF n = 0 THEN P(p)!EmptyUsage ELSE Counted(p, g[n - 1], case.calls[n])]

LEMMA UsageExists ==
  ASSUME NEW p, NEW case \in Case
  PROVE  \E g : IsUsage(g, p, case)
<1> DEFINE n == Len(case.calls)
           V == P(p)!Usage
           base == P(p)!EmptyUsage
           succ == [k \in 1..n |-> [u \in V |-> Counted(p, u, case.calls[k])]]
<1>1. n \in Nat /\ \A k \in 1..n : case.calls[k] \in CaseCall
  BY DEF Case
<1>2. base \in V
  BY EmptyUsageIs
<1>3. \A k \in 1..n, u \in V : Counted(p, u, case.calls[k]) \in V
  BY <1>1, CountedIs
<1> HIDE DEF V, base, n
<1>4. succ \in [1..n -> [V -> V]]
  BY <1>3
<1>5. \A k \in 1..n, u \in V : succ[k][u] = Counted(p, u, case.calls[k])
  OBVIOUS
<1> HIDE DEF succ
<1>6. PICK g \in [0..n -> V] : g[0] = base /\ \A k \in 1..n : g[k] = succ[k][g[k - 1]]
  BY <1>1, <1>2, <1>4, RecursionExists
<1>7. ASSUME NEW k \in 0..n
      PROVE  g[k] = IF k = 0 THEN base ELSE Counted(p, g[k - 1], case.calls[k])
  <2>1. CASE k = 0
    BY <1>6, <2>1
  <2>2. CASE k # 0
    <3>1. k \in 1..n /\ k - 1 \in 0..n
      BY <1>1, <2>2
    <3>2. g[k - 1] \in V
      BY <1>6, <3>1
    <3> QED
      BY <1>5, <1>6, <2>2, <3>1, <3>2
  <2> QED
    BY <2>1, <2>2
<1>8. g = [k \in 0..n |-> g[k]]
  BY <1>6
<1>9. g = [k \in 0..n |-> IF k = 0 THEN base ELSE Counted(p, g[k - 1], case.calls[k])]
  BY <1>7, <1>8, Zenon
<1> QED
  BY <1>9, Zenon DEF IsUsage, base, n

LEMMA UsageIs ==
  ASSUME NEW p, NEW case \in Case
  PROVE  /\ UsageAfter(p, case)[0] = P(p)!EmptyUsage
         /\ \A n \in 1..Len(case.calls) :
              UsageAfter(p, case)[n] = Counted(p, UsageAfter(p, case)[n - 1], case.calls[n])
<1> DEFINE g == UsageAfter(p, case)
<1>1. g = CHOOSE f : IsUsage(f, p, case)
  BY Zenon DEF UsageAfter, IsUsage
<1>2. IsUsage(g, p, case)
  BY <1>1, UsageExists, Zenon
<1> HIDE DEF g
<1>3. ASSUME NEW n \in 0..Len(case.calls)
      PROVE  g[n] = IF n = 0 THEN P(p)!EmptyUsage ELSE Counted(p, g[n - 1], case.calls[n])
  BY <1>2, Zenon DEF IsUsage
<1>4. Len(case.calls) \in Nat
  BY DEF Case
<1>5. g[0] = P(p)!EmptyUsage
  BY <1>3, <1>4
<1>6. ASSUME NEW n \in 1..Len(case.calls)
      PROVE  g[n] = Counted(p, g[n - 1], case.calls[n])
  <2>1. n \in 0..Len(case.calls) /\ n # 0
    BY <1>4
  <2> QED
    BY <1>3, <2>1
<1> QED
  BY <1>5, <1>6 DEF g

\* The calls among the first n that the rules allow.
AllowedBy(p, case, n) == {j \in 1..n : P(p)!RuleDecision(case.calls[j]).kind = "allow"}

LEMMA AllowedGrows ==
  ASSUME NEW p, NEW case, NEW n \in Nat
  PROVE  /\ Cardinality(AllowedBy(p, case, n)) \in Nat
         /\ Cardinality(AllowedBy(p, case, n + 1))
              = IF P(p)!RuleDecision(case.calls[n + 1]).kind = "allow"
                THEN Cardinality(AllowedBy(p, case, n)) + 1
                ELSE Cardinality(AllowedBy(p, case, n))
<1> DEFINE A(m) == AllowedBy(p, case, m)
<1>1. IsFiniteSet(1..n) /\ A(n) \in SUBSET (1..n)
  BY FS_Interval DEF AllowedBy
<1>2. IsFiniteSet(A(n)) /\ Cardinality(A(n)) \in Nat
  BY <1>1, FS_Subset, FS_CardinalityType
<1>3. CASE P(p)!RuleDecision(case.calls[n + 1]).kind = "allow"
  <2>1. A(n + 1) = A(n) \union {n + 1} /\ n + 1 \notin A(n)
    BY <1>3 DEF AllowedBy
  <2> QED
    BY <1>2, <1>3, <2>1, FS_AddElement
<1>4. CASE P(p)!RuleDecision(case.calls[n + 1]).kind # "allow"
  <2>1. A(n + 1) = A(n)
    BY <1>4 DEF AllowedBy
  <2> QED
    BY <1>2, <1>4, <2>1
<1> QED
  BY <1>3, <1>4

\* The usage counts the calls that the rules allow until the budget is full.
Counts(p, case, n) ==
  LET used == UsageAfter(p, case)[n].tool_calls
      allowed == Cardinality(AllowedBy(p, case, n))
  IN /\ UsageAfter(p, case)[n] \in P(p)!Usage
     /\ used = IF Full(p, allowed) THEN p.max_calls ELSE allowed

LEMMA UsageCounts ==
  ASSUME NEW p \in Contents, NEW case \in Case, NEW n \in 0..Len(case.calls)
  PROVE  Counts(p, case, n)
<1> DEFINE S == {m \in Nat : m <= Len(case.calls) => Counts(p, case, m)}
<1>1. Len(case.calls) \in Nat /\ \A k \in 1..Len(case.calls) : case.calls[k] \in CaseCall
  BY DEF Case
<1>2. p.max_calls = Absent \/ p.max_calls \in Nat \ {0}
  BY DEF Contents
<1>3. 0 \in S
  <2>1. AllowedBy(p, case, 0) = {}
    BY DEF AllowedBy
  <2>2. Cardinality(AllowedBy(p, case, 0)) = 0
    BY <2>1, FS_EmptySet
  <2>3. ~Full(p, 0)
    BY <1>2 DEF Full
  <2>4. Counts(p, case, 0)
    BY <2>2, <2>3, UsageIs, EmptyUsageIs DEF Counts
  <2> QED
    BY <2>4
<1>4. ASSUME NEW m \in Nat, m \in S
      PROVE  m + 1 \in S
  <2> SUFFICES ASSUME m + 1 <= Len(case.calls)
               PROVE  Counts(p, case, m + 1)
    OBVIOUS
  <2> DEFINE used == UsageAfter(p, case)[m].tool_calls
             allowed == Cardinality(AllowedBy(p, case, m))
             one == Cardinality(AllowedBy(p, case, m + 1))
             ok == P(p)!RuleDecision(case.calls[m + 1]).kind = "allow"
  <2>1. Counts(p, case, m) /\ m + 1 \in 1..Len(case.calls) /\ m + 1 - 1 = m
    BY <1>1, <1>4
  <2>2. UsageAfter(p, case)[m] \in P(p)!Usage /\ used = IF Full(p, allowed) THEN p.max_calls ELSE allowed
    BY <2>1, Zenon DEF Counts
  <2>3. allowed \in Nat /\ one = IF ok THEN allowed + 1 ELSE allowed
    BY AllowedGrows
  <2>4. UsageAfter(p, case)[m + 1] = Counted(p, UsageAfter(p, case)[m], case.calls[m + 1])
    BY <2>1, UsageIs
  <2>5. /\ UsageAfter(p, case)[m + 1] \in P(p)!Usage
        /\ UsageAfter(p, case)[m + 1].tool_calls = IF ~Full(p, used) /\ ok THEN used + 1 ELSE used
    BY <1>1, <2>1, <2>2, <2>4, CountedIs
  <2> DEFINE after == UsageAfter(p, case)[m + 1].tool_calls
  <2> HIDE DEF used, allowed, one, ok, after
  <2>6. Full(p, used) <=> Full(p, allowed)
    BY <1>2, <2>2, <2>3 DEF Full
  <2>7. after = IF Full(p, one) THEN p.max_calls ELSE one
    <3>0. after = IF ~Full(p, used) /\ ok THEN used + 1 ELSE used
      BY <2>5 DEF after
    <3>1. CASE Full(p, allowed)
      BY <1>2, <2>2, <2>3, <2>6, <3>0, <3>1 DEF Full
    <3>2. CASE ~Full(p, allowed)
      BY <1>2, <2>2, <2>3, <2>6, <3>0, <3>2 DEF Full
    <3> QED
      BY <3>1, <3>2
  <2> QED
    BY <2>5, <2>7 DEF Counts, one, after
<1> HIDE DEF S
<1>5. \A m \in Nat : m \in S
  BY <1>3, <1>4, InductionOnNat
<1> QED
  BY <1>1, <1>5 DEF S

LEMMA ActualIs ==
  ASSUME NEW p \in Contents, NEW case \in Case
  PROVE  /\ DOMAIN Actual(p, case) = DOMAIN case.calls
         /\ \A k \in DOMAIN case.calls : /\ Actual(p, case)[k] = Decision(p, case, k)
                                         /\ Decision(p, case, k) \in Kinds
<1>1. DOMAIN Actual(p, case) = DOMAIN case.calls
  BY DEF Actual
<1>2. ASSUME NEW k \in DOMAIN case.calls
      PROVE  Actual(p, case)[k] = Decision(p, case, k) /\ Decision(p, case, k) \in Kinds
  <2> DEFINE used == UsageAfter(p, case)[k - 1].tool_calls
             allowed == Cardinality(AllowedBy(p, case, k - 1))
             kind == P(p)!RuleDecision(case.calls[k]).kind
  <2>1. k \in 1..Len(case.calls) /\ k - 1 \in 0..Len(case.calls) /\ k - 1 \in Nat
    BY DEF Case
  <2>2. used = IF Full(p, allowed) THEN p.max_calls ELSE allowed
    BY <2>1, UsageCounts, Zenon DEF Counts
  <2>3. Actual(p, case)[k] = IF Full(p, used) THEN "block" ELSE kind
    BY EvaluateIs DEF Actual
  <2>4. Decision(p, case, k) = IF Full(p, allowed) THEN "block" ELSE kind
    <3> DEFINE rules == [j \in DOMAIN case.calls |-> P(p)!RuleDecision(case.calls[j]).kind]
    <3>1. {j \in 1..(k - 1) : rules[j] = "allow"} = AllowedBy(p, case, k - 1)
      <4>1. \A j \in 1..(k - 1) : j \in DOMAIN case.calls
        BY <2>1 DEF Case
      <4> QED
        BY <4>1 DEF AllowedBy
    <3>2. rules[k] = kind
      OBVIOUS
    <3> QED
      BY <3>1, <3>2, Zenon DEF Decision, Full
  <2>5. allowed \in Nat /\ (p.max_calls = Absent \/ p.max_calls \in Nat)
    BY <2>1, AllowedGrows DEF Contents
  <2>6. kind \in Kinds
    BY RuleKinds
  <2> HIDE DEF used, allowed, kind
  <2>7. Full(p, used) <=> Full(p, allowed)
    BY <2>2, <2>5 DEF Full
  <2> QED
    BY <2>3, <2>4, <2>6, <2>7 DEF Kinds
<1> QED
  BY <1>1, <1>2

\* The calls of the cases labelled as in e and decided as in a.
Cell(p, cases, e, a) ==
  {x \in Scored(cases) : Label(cases, x) \in e /\ Decided(p, cases, x) \in a}

LEMMA IndexedIsFinite ==
  ASSUME NEW n \in Nat, NEW f
  PROVE  IsFiniteSet({f[i] : i \in 1..n})
<1> DEFINE T == {f[i] : i \in 1..n}
           g == [i \in 1..n |-> f[i]]
<1>1. g \in Surjection(1..n, T)
  BY DEF Surjection
<1>2. IsFiniteSet(1..n)
  BY FS_Interval
<1> HIDE DEF g, T
<1>3. IsFiniteSet(T)
  BY <1>1, <1>2, FS_Surjection
<1> QED
  BY <1>3 DEF T

LEMMA ScoredIs ==
  ASSUME NEW cases \in Seq(Case)
  PROVE  /\ \A x : x \in Scored(cases) <=>
                 \E i \in DOMAIN cases : \E k \in DOMAIN cases[i].calls : x = <<i, k>>
         /\ IsFiniteSet(Scored(cases))
<1>1. ASSUME NEW x
      PROVE  x \in Scored(cases) <=>
               \E i \in DOMAIN cases : \E k \in DOMAIN cases[i].calls : x = <<i, k>>
  BY DEF Scored
<1> DEFINE Row(i) == {<<i, k>> : k \in DOMAIN cases[i].calls}
<1>2. ASSUME NEW i \in DOMAIN cases
      PROVE  IsFiniteSet(Row(i))
  <2>1. cases[i] \in Case
    OBVIOUS
  <2>2. DOMAIN cases[i].calls = 1..Len(cases[i].calls) /\ Len(cases[i].calls) \in Nat
    BY <2>1 DEF Case
  <2>3. IsFiniteSet(1..Len(cases[i].calls))
    BY <2>2, FS_Interval
  <2> DEFINE f == [k \in 1..Len(cases[i].calls) |-> <<i, k>>]
  <2>4. IsFiniteSet({f[k] : k \in 1..Len(cases[i].calls)})
    <3> HIDE DEF f
    <3> QED
      BY <2>2, IndexedIsFinite
  <2>5. Row(i) = {f[k] : k \in 1..Len(cases[i].calls)}
    BY <2>2
  <2> QED
    BY <2>4, <2>5
<1>3. IsFiniteSet({Row(i) : i \in DOMAIN cases})
  <2>1. DOMAIN cases = 1..Len(cases) /\ Len(cases) \in Nat
    BY LenProperties
  <2> DEFINE f == [i \in 1..Len(cases) |-> Row(i)]
  <2>2. IsFiniteSet({f[i] : i \in 1..Len(cases)})
    <3> HIDE DEF f
    <3> QED
      BY <2>1, IndexedIsFinite
  <2>3. {Row(i) : i \in DOMAIN cases} = {f[i] : i \in 1..Len(cases)}
    <3> HIDE DEF Row
    <3> QED
      BY <2>1
  <2> QED
    BY <2>2, <2>3
<1>4. IsFiniteSet(UNION {Row(i) : i \in DOMAIN cases})
  BY <1>2, <1>3, FS_UNION
<1> QED
  BY <1>1, <1>4 DEF Scored

LEMMA CellsAre ==
  ASSUME NEW p \in Contents, NEW cases \in Seq(Case), NEW e, NEW a
  PROVE  /\ Cells(Outcomes(p, cases), e, a) = Cardinality(Cell(p, cases, e, a))
         /\ IsFiniteSet(Cell(p, cases, e, a))
         /\ Cardinality(Cell(p, cases, e, a)) \in Nat
<1> DEFINE o == Outcomes(p, cases)
           counted == UNION {{<<i, k>> : k \in {j \in DOMAIN o[i].actual :
                                o[i].expected[j] \in e /\ o[i].actual[j] \in a}} :
                             i \in DOMAIN o}
<1>1. /\ DOMAIN o = DOMAIN cases
      /\ \A i \in DOMAIN cases : /\ o[i].expected = cases[i].expected
                                 /\ o[i].actual = Actual(p, cases[i])
  BY DEF Outcomes
<1> HIDE DEF o
<1>2. ASSUME NEW i \in DOMAIN cases
      PROVE  /\ DOMAIN o[i].actual = DOMAIN cases[i].calls
             /\ \A k \in DOMAIN cases[i].calls : o[i].actual[k] = Decision(p, cases[i], k)
  <2>1. cases[i] \in Case
    OBVIOUS
  <2> QED
    BY <1>1, <2>1, ActualIs
<1>3. ASSUME NEW x
      PROVE  x \in counted <=> x \in Cell(p, cases, e, a)
  <2>1. x \in counted <=>
          \E i \in DOMAIN cases : \E k \in DOMAIN cases[i].calls :
             x = <<i, k>> /\ cases[i].expected[k] \in e /\ Decision(p, cases[i], k) \in a
    BY <1>1, <1>2
  <2>2. \A i, k : x = <<i, k>> => x[1] = i /\ x[2] = k
    OBVIOUS
  <2>3. x \in Cell(p, cases, e, a) <=>
          \E i \in DOMAIN cases : \E k \in DOMAIN cases[i].calls :
             x = <<i, k>> /\ cases[i].expected[k] \in e /\ Decision(p, cases[i], k) \in a
    BY <2>2, ScoredIs DEF Cell, Label, Decided
  <2> QED
    BY <2>1, <2>3
<1>4. counted = Cell(p, cases, e, a)
  BY <1>3
<1>5. Cells(o, e, a) = Cardinality(counted)
  BY DEF Cells
<1>6. IsFiniteSet(Cell(p, cases, e, a))
  BY ScoredIs, FS_Subset DEF Cell
<1> QED
  BY <1>4, <1>5, <1>6, FS_CardinalityType DEF o

LEMMA ExceedsMaxIs ==
  ASSUME NEW n \in Nat, NEW d \in Nat, n <= d, NEW max \in Fraction \union {Absent}
  PROVE  ExceedsMax(Rate(n, d), max) <=> ~(max = Absent \/ n * max.d <= max.n * d)
<1>1. CASE max = Absent
  BY <1>1 DEF ExceedsMax
<1>2. CASE max # Absent
  <2>1. max.n \in Nat /\ max.d \in Nat
    BY <1>2 DEF Fraction
  <2>2. CASE d = 0
    <3>1. n = 0 /\ n * max.d = 0 /\ max.n * d = 0
      BY <2>1, <2>2
    <3> QED
      BY <1>2, <2>2, <3>1 DEF ExceedsMax, Rate
  <2>3. CASE d # 0
    <3>1. Rate(n, d) # Absent /\ Rate(n, d).n = n /\ Rate(n, d).d = d
      BY <2>3, ContentsAssumption DEF Rate, Fraction
    <3>2. Less(max, Rate(n, d)) <=> max.n * d < n * max.d
      BY <3>1 DEF Less
    <3>3. max.n * d \in Nat /\ n * max.d \in Nat
      BY <2>1
    <3> QED
      BY <1>2, <3>1, <3>2, <3>3 DEF ExceedsMax
  <2> QED
    BY <2>2, <2>3
<1> QED
  BY <1>1, <1>2

LEMMA BelowMinIs ==
  ASSUME NEW n \in Nat, NEW d \in Nat, NEW min \in Fraction \union {Absent}
  PROVE  BelowMin(Rate(n, d), min) <=> ~(min = Absent \/ (d # 0 /\ n * min.d >= min.n * d))
<1>1. CASE min = Absent
  BY <1>1 DEF BelowMin
<1>2. CASE min # Absent /\ d = 0
  BY <1>2 DEF BelowMin, Rate
<1>3. CASE min # Absent /\ d # 0
  <2>1. min.n \in Nat /\ min.d \in Nat
    BY <1>3 DEF Fraction
  <2>2. Rate(n, d) # Absent /\ Rate(n, d).n = n /\ Rate(n, d).d = d
    BY <1>3, ContentsAssumption DEF Rate, Fraction
  <2>3. Less(Rate(n, d), min) <=> n * min.d < min.n * d
    BY <2>2 DEF Less
  <2>4. min.n * d \in Nat /\ n * min.d \in Nat
    BY <2>1
  <2> QED
    BY <1>3, <2>2, <2>3, <2>4 DEF BelowMin
<1> QED
  BY <1>1, <1>2, <1>3

LEMMA LabelsAre ==
  ASSUME NEW p \in Contents, NEW cases \in Seq(Case),
         \A i \in DOMAIN cases : Len(cases[i].calls) = Len(cases[i].expected),
         NEW x \in Scored(cases)
  PROVE  Label(cases, x) \in Kinds /\ Decided(p, cases, x) \in Kinds
<1>1. PICK i \in DOMAIN cases : \E k \in DOMAIN cases[i].calls : x = <<i, k>>
  BY ScoredIs
<1>2. PICK k \in DOMAIN cases[i].calls : x = <<i, k>>
  BY <1>1
<1>3. cases[i] \in Case /\ x[1] = i /\ x[2] = k
  BY <1>2
<1>4. cases[i].expected \in Seq(Kinds) /\ k \in 1..Len(cases[i].expected)
  BY <1>3 DEF Case
<1>5. cases[i].expected[k] \in Kinds
  BY <1>4
<1>6. Decision(p, cases[i], k) \in Kinds
  BY <1>3, ActualIs
<1> QED
  BY <1>3, <1>5, <1>6 DEF Label, Decided

\* The thresholds are compared with the shares of the calls.
LEMMA GateIsExact ==
  ASSUME NEW p \in Contents, NEW cases \in Seq(Case),
         \A i \in DOMAIN cases : Len(cases[i].calls) = Len(cases[i].expected),
         NEW gate \in Thresholds
  PROVE  ThresholdFails(gate, Outcomes(p, cases)) <=> ~GateHolds(gate, p, cases)
<1> DEFINE o == Outcomes(p, cases)
           scored == Scored(cases)
           C(e, a) == Cell(p, cases, e, a)
           labelled(kinds) == {x \in scored : Label(cases, x) \in kinds}
           decided(kinds) == {x \in scored : Decided(p, cases, x) \in kinds}
           right == {x \in scored : Label(cases, x) = Decided(p, cases, x)}
<1>1. \A e, a : /\ Cells(o, e, a) = Cardinality(C(e, a))
                /\ IsFiniteSet(C(e, a)) /\ Cardinality(C(e, a)) \in Nat
  BY CellsAre
<1>2. \A x \in scored : Label(cases, x) \in Kinds /\ Decided(p, cases, x) \in Kinds
  BY LabelsAre
<1>3. \A e : labelled(e) = C(e, Kinds)
  BY <1>2 DEF Cell
<1>4. \A e, a : labelled(e) \intersect decided(a) = C(e, a)
  BY DEF Cell
<1>5. scored = C(Kinds, Kinds) /\ right \subseteq scored
  BY <1>2 DEF Cell
<1>6. \A e, a : C(e, a) \in SUBSET C(e, Kinds)
  BY <1>2 DEF Cell
<1>7. Cardinality(right) = Cells(o, {"allow"}, {"allow"})
         + Cells(o, {"require_approval"}, {"require_approval"}) + Cells(o, {"block"}, {"block"})
  <2> DEFINE A == C({"allow"}, {"allow"})
             R == C({"require_approval"}, {"require_approval"})
             B == C({"block"}, {"block"})
  <2>1. right = (A \union R) \union B
    BY <1>2 DEF Cell, Kinds
  <2>2. A \intersect R = {} /\ (A \union R) \intersect B = {}
    BY DEF Cell
  <2>3. /\ IsFiniteSet(A) /\ IsFiniteSet(R) /\ IsFiniteSet(B)
        /\ Cardinality(A) \in Nat /\ Cardinality(R) \in Nat /\ Cardinality(B) \in Nat
    BY <1>1
  <2> HIDE DEF A, R, B, right
  <2>4. /\ IsFiniteSet(A \union R)
        /\ Cardinality(A \union R) = Cardinality(A) + Cardinality(R) - Cardinality({})
    BY <2>2, <2>3, FS_Union, Zenon
  <2>5. Cardinality((A \union R) \union B) = Cardinality(A \union R) + Cardinality(B) - Cardinality({})
    <3> DEFINE AR == A \union R
    <3>1. IsFiniteSet(AR) /\ AR \intersect B = {}
      BY <2>2, <2>4
    <3> HIDE DEF AR
    <3>2. Cardinality(AR \union B) = Cardinality(AR) + Cardinality(B) - Cardinality(AR \intersect B)
      BY <2>3, <3>1, FS_Union, Zenon
    <3> QED
      BY <3>1, <3>2, Zenon DEF AR
  <2>6. Cardinality({}) = 0
    BY FS_EmptySet
  <2>7. Cardinality(right) = Cardinality(A) + Cardinality(R) + Cardinality(B)
    BY <2>1, <2>3, <2>4, <2>5, <2>6
  <2> QED
    BY <1>1, <2>7 DEF A, R, B
<1>8. \A e, a : Cardinality(C(e, a)) <= Cardinality(C(e, Kinds))
  BY <1>1, <1>6, FS_Subset
<1>a. ASSUME NEW e, NEW a
      PROVE  /\ Cells(o, e, a) = Cardinality(labelled(e) \intersect decided(a))
             /\ Cells(o, e, Kinds) = Cardinality(labelled(e))
             /\ Cells(o, e, a) \in Nat /\ Cells(o, e, Kinds) \in Nat
             /\ Cells(o, e, a) <= Cells(o, e, Kinds)
             /\ IsFiniteSet(labelled(e))
  <2>1. labelled(e) = C(e, Kinds) /\ labelled(e) \intersect decided(a) = C(e, a)
    BY <1>3, <1>4, Zenon
  <2> HIDE DEF o, C, scored, labelled, decided
  <2> QED
    BY <1>1, <1>8, <2>1
<1> HIDE DEF o, C, scored
<1>9. ASSUME NEW e, NEW a, NEW max \in Fraction \union {Absent}
      PROVE  ExceedsMax(Rate(Cells(o, e, a), Cells(o, e, Kinds)), max)
               <=> ~AtMostShare(max, decided(a), labelled(e))
  <2> HIDE DEF labelled, decided
  <2>1. ExceedsMax(Rate(Cells(o, e, a), Cells(o, e, Kinds)), max)
          <=> ~(max = Absent \/ Cells(o, e, a) * max.d <= max.n * Cells(o, e, Kinds))
    BY <1>a, ExceedsMaxIs
  <2> QED
    BY <1>a, <2>1, Zenon DEF AtMostShare
<1>10. ASSUME NEW n, NEW S, NEW T, NEW min \in Fraction \union {Absent},
              n = Cardinality(S \intersect T), n \in Nat, IsFiniteSet(S)
       PROVE  BelowMin(Rate(n, Cardinality(S)), min) <=> ~AtLeastShare(min, T, S)
  <2>1. Cardinality(S) \in Nat /\ (Cardinality(S) = 0 <=> S = {})
    BY <1>10, FS_CardinalityType, FS_EmptySet
  <2>2. BelowMin(Rate(n, Cardinality(S)), min)
          <=> ~(min = Absent \/ (Cardinality(S) # 0 /\ n * min.d >= min.n * Cardinality(S)))
    BY <1>10, <2>1, BelowMinIs
  <2> QED
    BY <1>10, <2>1, <2>2, Zenon DEF AtLeastShare
<1>11. ASSUME NEW e, NEW a, NEW min \in Fraction \union {Absent}
       PROVE  BelowMin(Rate(Cells(o, e, a), Cells(o, e, Kinds)), min)
                <=> ~AtLeastShare(min, decided(a), labelled(e))
  <2> HIDE DEF labelled, decided
  <2> QED
    BY <1>a, <1>10
<1>12. ASSUME NEW min \in Fraction \union {Absent}
       PROVE  BelowMin(Rate(  Cells(o, {"allow"}, {"allow"})
                            + Cells(o, {"require_approval"}, {"require_approval"})
                            + Cells(o, {"block"}, {"block"}), Cells(o, Kinds, Kinds)), min)
                <=> ~AtLeastShare(min, right, scored)
  <2>1. scored \intersect right = right
    BY <1>5
  <2> HIDE DEF right
  <2>2. Cardinality(right) \in Nat /\ IsFiniteSet(scored)
    BY <1>1, <1>5, FS_Subset, FS_CardinalityType
  <2>3. Cells(o, Kinds, Kinds) = Cardinality(scored)
    BY <1>1, <1>5
  <2> QED
    BY <1>7, <1>10, <2>1, <2>2, <2>3
<1>13. /\ gate.max_dangerous_allow_rate \in Fraction \union {Absent}
       /\ gate.max_safe_friction_rate \in Fraction \union {Absent}
       /\ gate.min_intervention_recall \in Fraction \union {Absent}
       /\ gate.min_approval_accuracy \in Fraction \union {Absent}
       /\ gate.min_exact_accuracy \in Fraction \union {Absent}
  BY DEF Thresholds
<1>14. GateHolds(gate, p, cases) <=>
         /\ AtMostShare(gate.max_dangerous_allow_rate, decided({"allow"}), labelled({"block"}))
         /\ AtMostShare(gate.max_safe_friction_rate, decided(Stopped), labelled({"allow"}))
         /\ AtLeastShare(gate.min_intervention_recall, decided(Stopped), labelled(Stopped))
         /\ AtLeastShare(gate.min_approval_accuracy,
                         decided({"require_approval"}), labelled({"require_approval"}))
         /\ AtLeastShare(gate.min_exact_accuracy, right, scored)
  BY Zenon DEF GateHolds, scored
<1> HIDE DEF labelled, decided, right
<1> QED
  BY <1>9, <1>11, <1>12, <1>13, <1>14, Zenon DEF ThresholdFails, o

LEMMA ReplayIsExact ==
  ASSUME NEW p \in Contents, NEW cases \in Seq(Case),
         \A i \in DOMAIN cases : Len(cases[i].calls) = Len(cases[i].expected)
  PROVE  (\A o \in ToSet(Outcomes(p, cases)) : o.actual = o.expected)
           <=> \A x \in Scored(cases) : Label(cases, x) = Decided(p, cases, x)
<1>1. ASSUME NEW i \in DOMAIN cases
      PROVE  Actual(p, cases[i]) = cases[i].expected
               <=> \A k \in DOMAIN cases[i].calls : cases[i].expected[k] = Decision(p, cases[i], k)
  <2>1. cases[i] \in Case
    OBVIOUS
  <2>2. DOMAIN cases[i].expected = DOMAIN cases[i].calls /\ cases[i].expected \in Seq(Kinds)
    BY <2>1 DEF Case
  <2>3. /\ DOMAIN Actual(p, cases[i]) = DOMAIN cases[i].calls
        /\ \A k \in DOMAIN cases[i].calls : Actual(p, cases[i])[k] = Decision(p, cases[i], k)
    BY <2>1, ActualIs
  <2>4. Actual(p, cases[i]) = [k \in DOMAIN cases[i].calls |-> Actual(p, cases[i])[k]]
    BY Zenon DEF Actual
  <2>5. cases[i].expected = [k \in DOMAIN cases[i].calls |-> cases[i].expected[k]]
    BY <2>2
  <2> QED
    BY <2>3, <2>4, <2>5
<1>2. (\A o \in ToSet(Outcomes(p, cases)) : o.actual = o.expected)
        <=> \A i \in DOMAIN cases : Actual(p, cases[i]) = cases[i].expected
  <2> DEFINE o == Outcomes(p, cases)
  <2>1. DOMAIN o = DOMAIN cases
    BY DEF Outcomes
  <2>2. \A i \in DOMAIN cases : o[i].actual = Actual(p, cases[i]) /\ o[i].expected = cases[i].expected
    BY DEF Outcomes
  <2>3. ToSet(o) = {o[i] : i \in DOMAIN o}
    BY Zenon DEF ToSet
  <2> HIDE DEF o
  <2>4. (\A r \in ToSet(o) : r.actual = r.expected) <=> \A i \in DOMAIN o : o[i].actual = o[i].expected
    BY <2>3
  <2> QED
    BY <2>1, <2>2, <2>4 DEF o
<1>3. (\A x \in Scored(cases) : Label(cases, x) = Decided(p, cases, x))
        <=> \A i \in DOMAIN cases : \A k \in DOMAIN cases[i].calls :
               cases[i].expected[k] = Decision(p, cases[i], k)
  <2>1. ASSUME NEW i \in DOMAIN cases, NEW k \in DOMAIN cases[i].calls
        PROVE  /\ <<i, k>> \in Scored(cases)
               /\ Label(cases, <<i, k>>) = cases[i].expected[k]
               /\ Decided(p, cases, <<i, k>>) = Decision(p, cases[i], k)
    BY ScoredIs DEF Label, Decided
  <2>2. \A x \in Scored(cases) :
          \E i \in DOMAIN cases : \E k \in DOMAIN cases[i].calls : x = <<i, k>>
    BY ScoredIs
  <2>3. ASSUME NEW x \in Scored(cases),
               \A i \in DOMAIN cases : \A k \in DOMAIN cases[i].calls :
                 cases[i].expected[k] = Decision(p, cases[i], k)
        PROVE  Label(cases, x) = Decided(p, cases, x)
    BY <2>1, <2>2, <2>3
  <2> QED
    BY <2>1, <2>3, Zenon
<1> QED
  BY <1>1, <1>2, <1>3

-----------------------------------------------------------------------------
(***************************************************************************)
(* What the commands have loaded and written at each of their steps.       *)
(***************************************************************************)
\* The files are those the constants describe, and a command goes on only with
\* contents that are valid.
FilesInv ==
  /\ request \in Requests /\ casesFile \in CasesVersions
  /\ at \in [policy : 1..Len(PolicyVersions), cases : 1..Len(casesFile)]
  /\ loaded \in [policy : 0..Len(PolicyVersions), cases : 0..Len(casesFile)]
  /\ step \in Loaded \union {"load_cases"} =>
       loaded.policy \in 1..Len(PolicyVersions) /\ CurrentPolicy \in Contents
  /\ step \in Loaded =>
       /\ request.kind = "benchmark"
       /\ loaded.cases \in 1..Len(casesFile) /\ CurrentCases \in Seq(Case)
       /\ ValidCases(CurrentCases)

\* The reports are written in their order, and only a command that has ended
\* has an exit code.
ProgressInv ==
  /\ (exit = Absent) <=> (step # "done")
  /\ step = "gate" => written = {"json", "markdown"}
  /\ step = "write_markdown" => written = {"json"}
  /\ step \notin {"write_markdown", "gate", "done"} => written = {}

ExitInv ==
  /\ IF command = "benchmark" THEN FilesInv /\ ProgressInv ELSE request.kind = "none"
  /\ ExitIsTrue

LEMMA FileFacts ==
  ASSUME FilesInv
  PROVE  /\ Len(PolicyVersions) \in Nat \ {0} /\ Len(casesFile) \in Nat \ {0}
         /\ \A v \in 1..Len(PolicyVersions) : PolicyVersions[v] \in Contents \union {Absent}
         /\ \A v \in 1..Len(casesFile) : casesFile[v] \in Seq(Case) \union {Absent}
         /\ request.kind \in {"benchmark", "replay"} /\ request.gate \in Thresholds \union {Absent}
<1> USE DEF FilesInv
<1>1. PolicyVersions \in Seq(Contents \union {Absent}) /\ PolicyVersions # <<>>
  BY ContentsAssumption
<1>2. casesFile \in Seq(Seq(Case) \union {Absent}) /\ casesFile # <<>>
  BY ContentsAssumption
<1>3. request.kind \in {"benchmark", "replay"} /\ request.gate \in Gates \union {Absent}
  BY DEF Requests
<1> HIDE DEF FilesInv
<1>4. \A v \in 1..Len(PolicyVersions) : PolicyVersions[v] \in Contents \union {Absent}
  BY <1>1, ElementOfSeq
<1>5. \A v \in 1..Len(casesFile) : casesFile[v] \in Seq(Case) \union {Absent}
  BY <1>2, ElementOfSeq
<1>6. Len(PolicyVersions) \in Nat \ {0}
  BY <1>1, EmptySeq, LenProperties
<1>7. Len(casesFile) \in Nat \ {0}
  BY <1>2, EmptySeq, LenProperties
<1> QED
  BY <1>3, <1>4, <1>5, <1>6, <1>7, ContentsAssumption

LEMMA FileDomains ==
  ASSUME FilesInv
  PROVE  DOMAIN PolicyVersions = 1..Len(PolicyVersions) /\ DOMAIN casesFile = 1..Len(casesFile)
<1>1. PolicyVersions \in Seq(Contents \union {Absent})
  BY ContentsAssumption
<1>2. casesFile \in Seq(Seq(Case) \union {Absent})
  BY ContentsAssumption DEF FilesInv
<1> QED
  BY <1>1, <1>2, LenProperties

LEMMA CodesAreNotAbsent == \A n \in Nat : n # Absent
BY ContentsAssumption

LEMMA ExitInit == Init => ExitInv
<1> SUFFICES ASSUME Init
             PROVE  ExitInv
  OBVIOUS
<1>1. exit = Absent
  BY DEF Init, NoBenchmark, BenchmarkInit
<1>2. ExitIsTrue
  BY <1>1, CodesAreNotAbsent DEF ExitIsTrue
<1>3. CASE command # "benchmark"
  <2>1. request = [kind |-> "none"]
    BY <1>3 DEF Init, NoBenchmark
  <2> QED
    BY <1>2, <1>3, <2>1 DEF ExitInv
<1>4. CASE command = "benchmark"
  <2>1. BenchmarkInit
    BY <1>4 DEF Init
  <2>2. PolicyVersions \in Seq(Contents \union {Absent}) /\ PolicyVersions # <<>>
    BY ContentsAssumption
  <2>3. casesFile \in Seq(Seq(Case) \union {Absent}) /\ casesFile # <<>>
    BY <2>1, ContentsAssumption DEF BenchmarkInit
  <2>4. Len(PolicyVersions) \in Nat \ {0} /\ Len(casesFile) \in Nat \ {0}
    BY <2>2, <2>3, EmptySeq, LenProperties
  <2>5. FilesInv
    BY <2>1, <2>4 DEF BenchmarkInit, FilesInv, Frozen, Neither, Loaded
  <2>6. ProgressInv
    BY <1>1, <2>1 DEF BenchmarkInit, ProgressInv
  <2> QED
    BY <1>2, <1>4, <2>5, <2>6 DEF ExitInv
<1> QED
  BY <1>3, <1>4

LEMMA ExitStep == ExitInv /\ [Next]_allVars => ExitInv'
<1> SUFFICES ASSUME ExitInv, [Next]_allVars
             PROVE  ExitInv'
  OBVIOUS
<1>1. CASE command # "benchmark"
  <2>1. command' = command /\ request' = request
    BY <1>1 DEF Next, Check, PolicyLint, Doctor, Exits, Benchmark, allVars, cliVars, benchmarkVars
  <2> QED
    BY <1>1, <2>1 DEF ExitInv, ExitIsTrue
<1>2. CASE command = "benchmark" /\ UNCHANGED allVars
  BY <1>2 DEF ExitInv, FilesInv, ProgressInv, ExitIsTrue, ValidCases, CurrentPolicy, CurrentCases,
              GateHolds, allVars, cliVars, benchmarkVars
<1>3. CASE command = "benchmark" /\ Benchmark
  <2> SUFFICES FilesInv' /\ ProgressInv' /\ ExitIsTrue'
    BY <1>3 DEF Benchmark, ExitInv, cliVars
  <2> FilesInv /\ ProgressInv /\ ExitIsTrue
    BY <1>3 DEF ExitInv
  <2>1. CASE Edit
    <3>1. UNCHANGED <<request, casesFile, step, loaded, hashed, written, exit>>
      BY <2>1 DEF Edit
    <3>2. ProgressInv' /\ ExitIsTrue'
      BY <3>1 DEF ProgressInv, ExitIsTrue, CurrentPolicy, CurrentCases
    <3>3. at' \in [policy : 1..Len(PolicyVersions), cases : 1..Len(casesFile)]
      <4>1. DOMAIN PolicyVersions = 1..Len(PolicyVersions) /\ DOMAIN casesFile = 1..Len(casesFile)
        BY FileDomains
      <4> QED
        BY <2>1, <4>1 DEF Edit, FilesInv
    <3>4. FilesInv'
      BY <3>1, <3>3 DEF FilesInv, CurrentPolicy, CurrentCases
    <3> QED
      BY <3>2, <3>4
  <2>2. CASE UNCHANGED <<request, casesFile, at>> /\ HashPolicy
    <3>1. FilesInv'
      BY <2>2 DEF HashPolicy, Goto, FilesInv, Loaded, CurrentPolicy, CurrentCases
    <3>2. ProgressInv' /\ exit' = Absent
      BY <2>2 DEF HashPolicy, Goto, ProgressInv
    <3> QED
      BY <3>1, <3>2, CodesAreNotAbsent DEF ExitIsTrue
  <2>3. CASE UNCHANGED <<request, casesFile, at>> /\ HashCases
    <3>1. FilesInv'
      BY <2>3 DEF HashCases, Goto, Ends, FilesInv, Loaded, CurrentPolicy, CurrentCases
    <3>2. ProgressInv' /\ exit' \in {Absent, 2}
      BY <2>3, CodesAreNotAbsent DEF HashCases, Goto, Ends, ProgressInv
    <3> QED
      BY <3>1, <3>2, CodesAreNotAbsent DEF ExitIsTrue
  <2>4. CASE UNCHANGED <<request, casesFile, at>> /\ LoadPolicy
    <3>1. PolicyVersions[at.policy] \in Contents \union {Absent} /\ at.policy \in 1..Len(PolicyVersions)
      BY FileFacts DEF FilesInv
    <3>2. FilesInv'
      BY <2>4, <3>1, FileFacts DEF LoadPolicy, Goto, Ends, FilesInv, Loaded, CurrentPolicy
    <3>3. ProgressInv' /\ exit' \in {Absent, 2}
      BY <2>4, CodesAreNotAbsent DEF LoadPolicy, Goto, Ends, ProgressInv
    <3> QED
      BY <3>2, <3>3, CodesAreNotAbsent DEF ExitIsTrue
  <2>5. CASE UNCHANGED <<request, casesFile, at>> /\ LoadCases
    <3>1. casesFile[at.cases] \in Seq(Case) \union {Absent} /\ at.cases \in 1..Len(casesFile)
      BY FileFacts DEF FilesInv
    <3>2. FilesInv'
      <4>1. step = "load_cases" /\ loaded' = [loaded EXCEPT !.cases = at.cases]
        BY <2>5 DEF LoadCases, Goto, Ends
      <4>2. /\ loaded' \in [policy : 0..Len(PolicyVersions), cases : 0..Len(casesFile)]
            /\ loaded'.policy = loaded.policy /\ loaded'.cases = at.cases
        BY <3>1, <4>1, FileFacts DEF FilesInv
      <4>3. CurrentPolicy' = CurrentPolicy /\ CurrentCases' = casesFile[at.cases]
        BY <2>5, <4>2 DEF CurrentPolicy, CurrentCases
      <4>4. step' = "done" \/ (step' = "hash_policy" /\ ValidCases(casesFile[at.cases]))
        BY <2>5 DEF LoadCases, Goto, Ends
      <4>5. ValidCases(casesFile[at.cases]) => casesFile[at.cases] \in Seq(Case)
        BY <3>1 DEF ValidCases
      <4>6. request.kind = "benchmark"
        BY <2>5 DEF LoadCases
      <4>7. loaded.policy \in 1..Len(PolicyVersions) /\ CurrentPolicy \in Contents
        BY <4>1 DEF FilesInv
      <4>8. /\ request' \in Requests /\ casesFile' \in CasesVersions
            /\ at' \in [policy : 1..Len(PolicyVersions), cases : 1..Len(casesFile)]
        BY <2>5 DEF FilesInv
      <4>9. CASE step' = "done"
        BY <2>5, <4>2, <4>8, <4>9 DEF FilesInv, Loaded
      <4>10. CASE step' = "hash_policy" /\ ValidCases(casesFile[at.cases])
        <5>1. ValidCases(CurrentCases)' <=> ValidCases(casesFile[at.cases])
          BY <4>3 DEF ValidCases
        <5> HIDE DEF ValidCases
        <5> QED
          BY <2>5, <3>1, <4>2, <4>3, <4>5, <4>6, <4>7, <4>8, <4>10, <5>1 DEF FilesInv
      <4> QED
        BY <4>4, <4>9, <4>10
    <3>3. ProgressInv' /\ exit' \in {Absent, 2}
      BY <2>5, CodesAreNotAbsent DEF LoadCases, Goto, Ends, ProgressInv
    <3> QED
      BY <3>2, <3>3, CodesAreNotAbsent DEF ExitIsTrue
  <2>6. CASE UNCHANGED <<request, casesFile, at>> /\ Replay
    <3> DEFINE cases == casesFile[at.cases]
               same == \A o \in ToSet(Outcomes(CurrentPolicy, cases)) : o.actual = o.expected
    <3>1. cases \in Seq(Case) \union {Absent} /\ at.cases \in 1..Len(casesFile)
      BY FileFacts DEF FilesInv
    <3>2. step = "load_cases" /\ step' = "done" /\ loaded' = [loaded EXCEPT !.cases = at.cases]
      BY <2>6 DEF Replay, Ends
    <3>3. /\ loaded' \in [policy : 0..Len(PolicyVersions), cases : 0..Len(casesFile)]
          /\ loaded'.policy = loaded.policy /\ loaded'.cases = at.cases
      BY <3>1, <3>2, FileFacts DEF FilesInv
    <3>4. CurrentPolicy' = CurrentPolicy /\ CurrentCases' = cases
      BY <2>6, <3>3 DEF CurrentPolicy, CurrentCases
    <3>5. CurrentPolicy \in Contents
      BY <3>2 DEF FilesInv
    <3>6. exit' = IF ~ValidScenarios(cases) THEN 2 ELSE IF ~same THEN 1 ELSE 0
      <4>1. Outcomes(CurrentPolicy, CurrentCases)' = Outcomes(CurrentPolicy, cases)
        BY <3>4 DEF Outcomes, Actual
      <4> QED
        BY <2>6, <4>1, Zenon DEF Replay, Ends
    <3>7. FilesInv'
      BY <2>6, <3>2, <3>3 DEF FilesInv, Loaded
    <3>8. ProgressInv'
      BY <3>2, <3>6, CodesAreNotAbsent DEF ProgressInv
    <3>9. ValidScenarios(cases) =>
            (same <=> \A x \in Scored(cases) : Label(cases, x) = Decided(CurrentPolicy, cases, x))
      <4>1. ValidScenarios(cases) => /\ cases \in Seq(Case)
                                     /\ \A i \in DOMAIN cases : Len(cases[i].calls) = Len(cases[i].expected)
        BY <3>1 DEF ValidScenarios
      <4> HIDE DEF cases
      <4> QED
        BY <3>5, <4>1, ReplayIsExact
    <3>10. request'.kind = "replay"
      BY <2>6 DEF Replay
    <3>11. (\A x \in Scored(CurrentCases) : Label(CurrentCases, x) = Decided(CurrentPolicy, CurrentCases, x))'
             <=> \A x \in Scored(cases) : Label(cases, x) = Decided(CurrentPolicy, cases, x)
      BY <3>4 DEF Scored, Label, Decided, Decision
    <3> HIDE DEF same, cases
    <3>12. ExitIsTrue'
      BY <3>6, <3>9, <3>10, <3>11 DEF ExitIsTrue
    <3> QED
      BY <3>7, <3>8, <3>12
  <2>7. CASE UNCHANGED <<request, casesFile, at>> /\ WriteReport
    <3>1. FilesInv'
      BY <2>7 DEF WriteReport, Write, Goto, Ends, FilesInv, Loaded, CurrentPolicy, CurrentCases
    <3>2. ProgressInv' /\ exit' \in {Absent, 2}
      BY <2>7, CodesAreNotAbsent DEF WriteReport, Write, Goto, Ends, ProgressInv
    <3> QED
      BY <3>1, <3>2, CodesAreNotAbsent DEF ExitIsTrue
  <2>8. CASE UNCHANGED <<request, casesFile, at>> /\ CheckThresholds
    <3> DEFINE misses == ThresholdFails(request.gate, Outcomes(CurrentPolicy, CurrentCases))
               met == GateHolds(request.gate, CurrentPolicy, CurrentCases)
    <3>1. /\ step = "gate" /\ step' = "done"
          /\ exit' = IF request.gate # Absent /\ misses THEN 5 ELSE 0
          /\ UNCHANGED <<request, casesFile, at, loaded, written>>
      BY <2>8 DEF CheckThresholds, Ends
    <3>2. FilesInv'
      BY <3>1 DEF FilesInv, Loaded
    <3>3. ProgressInv'
      BY <3>1, CodesAreNotAbsent DEF ProgressInv
    <3>4. /\ CurrentPolicy \in Contents /\ CurrentCases \in Seq(Case) /\ request.kind = "benchmark"
          /\ \A i \in DOMAIN CurrentCases : Len(CurrentCases[i].calls) = Len(CurrentCases[i].expected)
      BY <3>1 DEF FilesInv, Loaded, ValidCases
    <3>5. request.gate # Absent => (misses <=> ~met)
      BY <3>4, FileFacts, GateIsExact
    <3>6. met' <=> met
      BY <3>1 DEF CurrentPolicy, CurrentCases
    <3>7. written' = {"json", "markdown"} /\ request' = request
      BY <3>1 DEF ProgressInv
    <3> HIDE DEF misses
    <3>8. ExitIsTrue'
      <4>1. exit' \in {0, 5} /\ (exit' = 0 <=> request.gate = Absent \/ met)
        BY <3>1, <3>5
      <4>2. (request.gate = Absent \/ GateHolds(request.gate, CurrentPolicy, CurrentCases))'
              <=> request.gate = Absent \/ met
        BY <3>6, <3>7
      <4>3. request'.kind = "benchmark"
        BY <3>4, <3>7
      <4> HIDE DEF met
      <4> QED
        BY <3>7, <4>1, <4>2, <4>3 DEF ExitIsTrue
    <3> QED
      BY <3>2, <3>3, <3>8
  <2> QED
    BY <1>3, <2>1, <2>2, <2>3, <2>4, <2>5, <2>6, <2>7, <2>8 DEF Benchmark, BenchmarkStep
<1> QED
  BY <1>1, <1>2, <1>3 DEF Next, Check, PolicyLint, Doctor, Runs

\* The exit code of benchmark and replay tells whether the calls that were
\* evaluated meet every threshold, or are all decided as expected, for every
\* policy, cases and gate, and however the files are edited meanwhile
\* (check_thresholds, compute_metrics).
THEOREM ExitCodesAreTrue == Spec => []ExitIsTrue
<1>1. ExitInv => ExitIsTrue
  BY DEF ExitInv
<1> QED
  BY <1>1, ExitInit, ExitStep, PTL DEF Spec

\* g is a run of n steps from base, all of whose values are in V.
IsRun(g, V, base, succ, n) ==
  /\ g \in [0..n -> V]
  /\ g[0] = base
  /\ \A i \in 1..n : g[i] = succ[i][g[i - 1]]

\* Steps that stay in V have a run.
LEMMA RunExists ==
  ASSUME NEW V, NEW base \in V, NEW n \in Nat, NEW succ,
         \A i \in 1..n : \A v \in V : succ[i][v] \in V
  PROVE  \E g : IsRun(g, V, base, succ, n)
<1> DEFINE Solved == {m \in Nat : m <= n => \E g : IsRun(g, V, base, succ, m)}
<1>1. 0 \in Solved
  <2> DEFINE g == [i \in 0..0 |-> base]
  <2>1. IsRun(g, V, base, succ, 0)
    BY DEF IsRun
  <2> QED
    BY <2>1
<1>2. ASSUME NEW m \in Nat, m \in Solved, m + 1 <= n
      PROVE  \E h : IsRun(h, V, base, succ, m + 1)
  <2>1. PICK g : IsRun(g, V, base, succ, m)
    BY <1>2
  <2>2. g \in [0..m -> V] /\ g[0] = base /\ \A i \in 1..m : g[i] = succ[i][g[i - 1]]
    BY <2>1 DEF IsRun
  <2> DEFINE h == [i \in 0..(m + 1) |-> IF i <= m THEN g[i] ELSE succ[m + 1][g[m]]]
  <2>3. g[m] \in V /\ m + 1 \in 1..n
    BY <1>2, <2>2
  <2>4. succ[m + 1][g[m]] \in V
    BY <2>3
  <2>5. h \in [0..(m + 1) -> V]
    BY <2>2, <2>4
  <2>6. h[0] = base
    BY <2>2
  <2>7. ASSUME NEW i \in 1..(m + 1)
        PROVE  h[i] = succ[i][h[i - 1]]
    <3>1. i - 1 \in 0..m /\ h[i - 1] = g[i - 1]
      OBVIOUS
    <3>2. CASE i <= m
      BY <2>2, <3>1, <3>2
    <3>3. CASE i = m + 1
      <4>1. h[m + 1] = succ[m + 1][g[m]] /\ i - 1 = m /\ h[m] = g[m]
        BY <3>1, <3>3
      <4> QED
        BY <3>3, <4>1
    <3> QED
      BY <3>2, <3>3
  <2> HIDE DEF h
  <2> QED
    BY <2>5, <2>6, <2>7 DEF IsRun
<1>3. \A m \in Nat : m \in Solved => m + 1 \in Solved
  BY <1>2
<1> HIDE DEF Solved
<1>4. n \in Solved
  BY <1>1, <1>3, InductionOnNat
<1> QED
  BY <1>4 DEF Solved

\* The steps that a sequence of inputs makes.
Inputs(next, s, V) == [n \in 1..Len(s) |-> [v \in V |-> next[v][s[n]]]]

\* Every step stays in V.
Stays(V, C, next) == \A v \in V, c \in C : next[v][c] \in V

\* g takes the steps as long as it is in V.
Follows(g, V, base, next, s) ==
  /\ g[0] = base
  /\ \A n \in 1..Len(s) : g[n - 1] \in V => g[n] = next[g[n - 1]][s[n]]

IsFold(g, V, base, next, s) ==
  /\ g \in [0..Len(s) -> V]
  /\ g[0] = base
  /\ \A n \in 1..Len(s) : g[n] = next[g[n - 1]][s[n]]

Fold(V, base, next, s) == (CHOOSE g : IsFold(g, V, base, next, s))[Len(s)]

LEMMA FoldExists ==
  ASSUME NEW C, NEW V, NEW base \in V, NEW next, NEW s \in Seq(C),
         Stays(V, C, next)
  PROVE  \E g : IsFold(g, V, base, next, s)
<1> DEFINE n == Len(s)
           succ == Inputs(next, s, V)
<1>1. n \in Nat /\ \A i \in 1..n : s[i] \in C
  OBVIOUS
<1>2. \A i \in 1..n : \A v \in V : succ[i][v] = next[v][s[i]]
  BY DEF Inputs
<1>3. \A i \in 1..n : \A v \in V : succ[i][v] \in V
  BY <1>1, <1>2 DEF Stays
<1> HIDE DEF n, succ
<1>4. PICK g : IsRun(g, V, base, succ, n)
  BY <1>1, <1>3, RunExists
<1>5. g \in [0..n -> V] /\ g[0] = base /\ \A i \in 1..n : g[i] = succ[i][g[i - 1]]
  BY <1>4 DEF IsRun
<1>6. \A i \in 1..n : i - 1 \in 0..n
  BY <1>1
<1>7. \A i \in 1..n : g[i] = next[g[i - 1]][s[i]]
  BY <1>2, <1>5, <1>6
<1>8. IsFold(g, V, base, next, s)
  BY <1>5, <1>7 DEF IsFold, n
<1> QED
  BY <1>8

LEMMA FoldIs ==
  ASSUME NEW C, NEW V, NEW base \in V, NEW next, NEW s \in Seq(C),
         Stays(V, C, next), NEW g, Follows(g, V, base, next, s)
  PROVE  /\ \A n \in 0..Len(s) : g[n] \in V
         /\ g[Len(s)] = Fold(V, base, next, s)
<1> DEFINE h == CHOOSE h : IsFold(h, V, base, next, s)
           Same == {n \in Nat : n <= Len(s) => g[n] = h[n]}
<1>1. Len(s) \in Nat
  OBVIOUS
<1>2. Fold(V, base, next, s) = h[Len(s)]
  BY DEF Fold
<1>3. IsFold(h, V, base, next, s)
  BY FoldExists
<1>4. h \in [0..Len(s) -> V] /\ h[0] = base /\ \A n \in 1..Len(s) : h[n] = next[h[n - 1]][s[n]]
  BY <1>3 DEF IsFold
<1> HIDE DEF h
<1>5. 0 \in Same
  BY <1>4 DEF Follows
<1>6. ASSUME NEW n \in Nat, n \in Same
      PROVE  n + 1 \in Same
  <2>1. SUFFICES ASSUME n + 1 <= Len(s)
                 PROVE  g[n + 1] = h[n + 1]
    OBVIOUS
  <2>2. n + 1 \in 1..Len(s) /\ n \in 0..Len(s) /\ n <= Len(s) /\ (n + 1) - 1 = n
    BY <1>1, <2>1
  <2>3. g[n] = h[n] /\ h[n] \in V
    BY <1>4, <1>6, <2>2
  <2>4. g[n + 1] = next[g[n]][s[n + 1]] /\ h[n + 1] = next[h[n]][s[n + 1]]
    BY <1>4, <2>2, <2>3 DEF Follows
  <2> QED
    BY <2>3, <2>4
<1> HIDE DEF Same
<1>7. \A n \in Nat : n \in Same
  BY <1>5, <1>6, InductionOnNat
<1>8. ASSUME NEW n \in 0..Len(s)
      PROVE  g[n] = h[n] /\ h[n] \in V
  <2>1. n \in Nat /\ n <= Len(s)
    BY <1>1
  <2> QED
    BY <1>4, <1>7, <2>1 DEF Same
<1>9. Len(s) \in 0..Len(s)
  BY <1>1
<1> QED
  BY <1>2, <1>8, <1>9

LEMMA FoldTrace ==
  ASSUME NEW C, NEW V, NEW base \in V, NEW next, Stays(V, C, next), NEW s \in Seq(C),
         NEW g, IsFold(g, V, base, next, s)
  PROVE  /\ \A n \in 0..Len(s) : g[n] \in V
         /\ g[0] = base /\ \A n \in 1..Len(s) : g[n] = next[g[n - 1]][s[n]]
         /\ g[Len(s)] = Fold(V, base, next, s)
<1>1. g[0] = base /\ \A n \in 1..Len(s) : g[n] = next[g[n - 1]][s[n]]
  BY DEF IsFold
<1>2. /\ \A n \in 0..Len(s) : g[n] \in V
      /\ g[Len(s)] = Fold(V, base, next, s)
  BY <1>1, FoldIs DEF Follows
<1> QED
  BY <1>1, <1>2

LEMMA FoldStays ==
  ASSUME NEW C, NEW V, NEW base \in V, NEW next, Stays(V, C, next), NEW s \in Seq(C)
  PROVE  Fold(V, base, next, s) \in V
<1>1. PICK g : IsFold(g, V, base, next, s)
  BY FoldExists
<1>2. Len(s) \in 0..Len(s)
  OBVIOUS
<1>3. /\ \A n \in 0..Len(s) : g[n] \in V
      /\ g[Len(s)] = Fold(V, base, next, s)
  BY <1>1, FoldTrace
<1> QED
  BY <1>2, <1>3

LEMMA FoldOfEmpty ==
  ASSUME NEW C, NEW V, NEW base \in V, NEW next, Stays(V, C, next)
  PROVE  Fold(V, base, next, <<>>) = base
<1>1. ASSUME NEW s \in Seq(C), Len(s) = 0
      PROVE  Fold(V, base, next, s) = base
  <2>1. PICK g : IsFold(g, V, base, next, s)
    BY FoldExists
  <2>2. /\ \A n \in 0..Len(s) : g[n] \in V
        /\ g[0] = base /\ \A n \in 1..Len(s) : g[n] = next[g[n - 1]][s[n]]
        /\ g[Len(s)] = Fold(V, base, next, s)
    BY <2>1, FoldTrace
  <2> QED
    BY <1>1, <2>2
<1> QED
  BY <1>1, EmptySeq

LEMMA FoldOfAppend ==
  ASSUME NEW C, NEW V, NEW base \in V, NEW next, Stays(V, C, next), NEW s \in Seq(C), NEW c \in C
  PROVE  Fold(V, base, next, Append(s, c)) = next[Fold(V, base, next, s)][c]
<1> DEFINE t == Append(s, c)
<1>1. /\ t \in Seq(C) /\ Len(t) = Len(s) + 1 /\ Len(s) \in Nat
      /\ \A n \in 1..Len(s) : t[n] = s[n]
      /\ t[Len(t)] = c
  OBVIOUS
<1> HIDE DEF t
<1>2. PICK h : IsFold(h, V, base, next, t)
  BY <1>1, FoldExists
<1>3. /\ \A n \in 0..Len(t) : h[n] \in V
      /\ h[0] = base /\ \A n \in 1..Len(t) : h[n] = next[h[n - 1]][t[n]]
      /\ h[Len(t)] = Fold(V, base, next, t)
  BY <1>1, <1>2, FoldTrace
<1>4. \A n \in 1..Len(s) : h[n] = next[h[n - 1]][s[n]]
  BY <1>1, <1>3
<1>5. h[Len(s)] = Fold(V, base, next, s)
  BY <1>3, <1>4, FoldIs DEF Follows
<1>6. h[Len(t)] = next[h[Len(t) - 1]][t[Len(t)]] /\ Len(t) - 1 = Len(s)
  BY <1>1, <1>3
<1> QED
  BY <1>1, <1>3, <1>5, <1>6 DEF t

\* Texts joined in another order.  The predicate makes the lemma applicable at
\* once, to the three texts and no others.
Three(C, s, t, u) == s \in Seq(C) /\ t \in Seq(C) /\ u \in Seq(C)

LEMMA ConcatThree ==
  ASSUME NEW C, NEW s, NEW t, NEW u, Three(C, s, t, u)
  PROVE  (s \o t) \o u = s \o (t \o u)
BY ConcatAssociative DEF Three

\* The characters of texts.  The provers do not know that a literal is a
\* string, so those that the matchers put into a text are named.

\* Texts without a separator, and the parts that separators divide a text into.
Free(separator) == {p \in Seq(Char) : \A i \in 1..Len(p) : p[i] # separator}

Divided(separator) == Seq(Free(separator)) \ {<<>>}

SplitNext(separator) ==
  [parts \in Divided(separator) |-> [c \in Char |->
     IF c = separator THEN Append(parts, <<>>)
     ELSE [parts EXCEPT ![Len(parts)] = Append(@, c)]]]

LEMMA SplitNextStays ==
  ASSUME NEW separator, NEW parts \in Divided(separator), NEW c \in Char
  PROVE  SplitNext(separator)[parts][c] \in Divided(separator)
<1> DEFINE F == Free(separator)
<1>1. parts \in Seq(F) /\ Len(parts) \in 1..Len(parts) /\ F \subseteq Seq(Char)
  BY DEF Divided, Free
<1>2. <<>> \in F
  BY DEF Free
<1>3. CASE c = separator
  <2>1. Append(parts, <<>>) \in Seq(F) /\ Append(parts, <<>>) # <<>>
    <3> HIDE DEF F
    <3> QED
      BY <1>1, <1>2, AppendProperties
  <2> QED
    BY <1>3, <2>1 DEF SplitNext, Divided
<1>4. CASE c # separator
  <2> DEFINE last == parts[Len(parts)]
  <2>1. last \in F
    BY <1>1, ElementOfSeq
  <2>2. Append(last, c) \in F
    <3>1. last \in Seq(Char) /\ \A i \in 1..Len(last) : last[i] # separator
      BY <2>1 DEF Free
    <3> HIDE DEF last
    <3>2. /\ Append(last, c) \in Seq(Char) /\ Len(Append(last, c)) = Len(last) + 1
          /\ \A i \in 1..Len(last) : Append(last, c)[i] = last[i]
          /\ Append(last, c)[Len(last) + 1] = c
          /\ Len(last) \in Nat
      BY <3>1, AppendProperties
    <3>3. \A i \in 1..(Len(last) + 1) : i \in 1..Len(last) \/ i = Len(last) + 1
      BY <3>2
    <3> QED
      BY <1>4, <3>1, <3>2, <3>3 DEF Free
  <2>a. Len(parts) \in Nat /\ Len(parts) > 0
    BY <1>1
  <2>3. [parts EXCEPT ![Len(parts)] = Append(last, c)] \in Seq(F)
    <3> HIDE DEF F, last
    <3> QED
      BY <1>1, <2>2, ExceptSeq
  <2>4. Len([parts EXCEPT ![Len(parts)] = Append(last, c)]) = Len(parts)
    <3> HIDE DEF F, last
    <3> QED
      BY <1>1, <2>2, ExceptSeq
  <2> DEFINE longer == [parts EXCEPT ![Len(parts)] = Append(last, c)]
  <2>5. longer \in Seq(F) /\ Len(longer) > 0
    BY <2>a, <2>3, <2>4
  <2>6. SplitNext(separator)[parts][c] = longer
    BY <1>4 DEF SplitNext
  <2> HIDE DEF longer
  <2>7. longer # <<>>
    BY <2>5
  <2> QED
    BY <2>5, <2>6, <2>7 DEF Divided
<1> QED
  BY <1>3, <1>4

LEMMA SplitIsFold ==
  ASSUME NEW separator, NEW s \in Seq(Char)
  PROVE  Split(s, separator) = Fold(Divided(separator), << <<>> >>, SplitNext(separator), s)
<1> DEFINE V == Divided(separator)
           base == << <<>> >>
           next == SplitNext(separator)
           Extended(parts, c) == IF c = separator THEN Append(parts, <<>>)
                                 ELSE [parts EXCEPT ![Len(parts)] = Append(@, c)]
           Is(f) == f = [n \in 0..Len(s) |-> IF n = 0 THEN base ELSE Extended(f[n - 1], s[n])]
           f == CHOOSE f : Is(f)
<1>1. Split(s, separator) = f[Len(s)]
  BY DEF Split, Folded
<1>2. base \in V
  BY DEF Divided, Free
<1>3. \A parts \in V, c \in Char : next[parts][c] = Extended(parts, c) /\ next[parts][c] \in V
  BY SplitNextStays DEF SplitNext
<1>4. Len(s) \in Nat /\ \A n \in 1..Len(s) : s[n] \in Char
  OBVIOUS
<1>10. Stays(V, Char, next)
  BY <1>3 DEF Stays
<1>5. \E g : Is(g)
  <2> HIDE DEF V, base, next
  <2>1. PICK g : IsFold(g, V, base, next, s)
    BY <1>2, <1>10, FoldExists
  <2>2. g \in [0..Len(s) -> V] /\ g[0] = base /\ \A n \in 1..Len(s) : g[n] = next[g[n - 1]][s[n]]
    BY <2>1 DEF IsFold
  <2> HIDE DEF Extended
  <2>3. ASSUME NEW n \in 0..Len(s)
        PROVE  g[n] = IF n = 0 THEN base ELSE Extended(g[n - 1], s[n])
    <3>1. n # 0 => n \in 1..Len(s) /\ n - 1 \in 0..Len(s)
      BY <1>4
    <3> QED
      BY <1>3, <1>4, <2>2, <3>1
  <2>4. g = [n \in 0..Len(s) |-> g[n]]
    BY <2>2
  <2>5. Is(g)
    BY <2>3, <2>4, Zenon
  <2> QED
    BY <2>5
<1>6. Is(f)
  BY <1>5, Zenon
<1> HIDE DEF f
<1>7. f[0] = base
  BY <1>4, <1>6
<1>8. Follows(f, V, base, next, s)
  <2> HIDE DEF Extended, V, base, next
  <2> SUFFICES ASSUME NEW n \in 1..Len(s), f[n - 1] \in V
               PROVE  f[n] = next[f[n - 1]][s[n]]
    BY <1>7 DEF Follows
  <2>1. n \in 0..Len(s) /\ n # 0
    BY <1>4
  <2>2. f[n] = Extended(f[n - 1], s[n])
    BY <1>6, <2>1
  <2> QED
    BY <1>3, <1>4, <2>2
<1> HIDE DEF V, base, next, Extended
<1> HIDE DEF Is
<1>9. f[Len(s)] = Fold(V, base, next, s)
  BY <1>2, <1>7, <1>8, <1>10, FoldIs
<1> QED
  BY <1>1, <1>9 DEF V, base, next

LEMMA SplitIsStay == 
  ASSUME NEW separator
  PROVE  /\ << <<>> >> \in Divided(separator)
         /\ Stays(Divided(separator), Char, SplitNext(separator))
<1>1. \A parts \in Divided(separator), c \in Char : SplitNext(separator)[parts][c] \in Divided(separator)
  BY SplitNextStays
<1>2. << <<>> >> \in Divided(separator)
  BY DEF Divided, Free
<1> QED
  BY <1>1, <1>2 DEF Stays

\* How a text splits, one character after another.
LEMMA SplitOfEmpty ==
  ASSUME NEW separator
  PROVE  Split(<<>>, separator) = << <<>> >>
<1>1. <<>> \in Seq(Char)
  OBVIOUS
<1> QED
  BY <1>1, SplitIsFold, SplitIsStay, FoldOfEmpty

LEMMA SplitDivides ==
  ASSUME NEW separator, NEW s \in Seq(Char)
  PROVE  Split(s, separator) \in Divided(separator)
BY SplitIsFold, SplitIsStay, FoldStays

LEMMA SplitOfAppend ==
  ASSUME NEW separator, NEW s \in Seq(Char), NEW c \in Char
  PROVE  Split(Append(s, c), separator) = SplitNext(separator)[Split(s, separator)][c]
<1>1. Append(s, c) \in Seq(Char)
  OBVIOUS
<1>2. /\ Split(s, separator) = Fold(Divided(separator), << <<>> >>, SplitNext(separator), s)
      /\ Split(Append(s, c), separator) = Fold(Divided(separator), << <<>> >>, SplitNext(separator), Append(s, c))
  BY <1>1, SplitIsFold
<1> QED
  BY <1>2, SplitIsStay, FoldOfAppend

\* Induction over texts, of a set in place of a predicate.
LEMMA InductionOnTexts ==
  ASSUME NEW C, NEW S, <<>> \in S,
         \A s \in Seq(C) : s \in S => \A c \in C : Append(s, c) \in S
  PROVE  \A s \in Seq(C) : s \in S
<1> DEFINE Of(n) == \A s \in Seq(C) : Len(s) = n => s \in S
           Sizes == {n \in Nat : Of(n)}
<1>1. 0 \in Sizes
  BY EmptySeq
<1>2. ASSUME NEW n \in Nat, n \in Sizes
      PROVE  n + 1 \in Sizes
  <2>1. SUFFICES ASSUME NEW s \in Seq(C), Len(s) = n + 1
                 PROVE  s \in S
    OBVIOUS
  <2>2. s # <<>>
    BY <2>1
  <2>3. PICK t \in Seq(C), c \in C : s = Append(t, c)
    BY <2>2, SequenceEmptyOrAppend
  <2>4. Len(s) = Len(t) + 1 /\ Len(t) \in Nat
    BY <2>3, AppendProperties
  <2>5. Len(t) = n
    BY <2>1, <2>4
  <2>6. t \in S
    BY <1>2, <2>5
  <2> QED
    BY <2>3, <2>6
<1> HIDE DEF Sizes
<1>3. \A n \in Nat : n \in Sizes
  BY <1>1, <1>2, InductionOnNat
<1> QED
  BY <1>3 DEF Sizes

\* Appending is concatenation, and so goes to the right part.
LEMMA AppendConcat ==
  ASSUME NEW C, NEW s \in Seq(C), NEW t \in Seq(C), NEW c \in C
  PROVE  s \o Append(t, c) = Append(s \o t, c) /\ s \o t \in Seq(C) /\ Append(t, c) \in Seq(C)
OBVIOUS

LEMMA SplitNextOfConcat ==
  ASSUME NEW separator, NEW u \in Divided(separator), NEW w \in Divided(separator), NEW c \in Char
  PROVE  /\ u \o w \in Divided(separator)
         /\ SplitNext(separator)[u \o w][c] = u \o SplitNext(separator)[w][c]
<1> DEFINE F == Free(separator)
<1>1. u \in Seq(F) /\ w \in Seq(F) /\ w # <<>> /\ u # <<>>
  BY DEF Divided
<1> HIDE DEF F
<1>2. /\ u \o w \in Seq(F) /\ Len(u \o w) = Len(u) + Len(w) /\ Len(w) > 0
      /\ Len(u) \in Nat /\ Len(w) \in Nat
  BY <1>1
<1>3. u \o w # <<>>
  BY <1>2
<1>4. u \o w \in Divided(separator)
  BY <1>2, <1>3 DEF Divided, F
<1>5. CASE c = separator
  <2>1. SplitNext(separator)[u \o w][c] = Append(u \o w, <<>>) /\ SplitNext(separator)[w][c] = Append(w, <<>>)
    BY <1>4, <1>5 DEF SplitNext
  <2>2. <<>> \in F
    BY DEF Free, F
  <2>3. u \o Append(w, <<>>) = Append(u \o w, <<>>)
    BY <1>1, <2>2, AppendConcat
  <2> QED
    BY <1>4, <2>1, <2>3
<1>6. CASE c # separator
  <2> DEFINE last == Append(w[Len(w)], c)
  <2>1. SplitNext(separator)[w][c] = [w EXCEPT ![Len(w)] = last]
    BY <1>6 DEF SplitNext
  <2>2. SplitNext(separator)[u \o w][c] = [u \o w EXCEPT ![Len(u \o w)] = last]
    <3>1. (u \o w)[Len(u \o w)] = w[Len(w)]
      BY <1>1, <1>2, ConcatProperties
    <3> QED
      BY <1>4, <1>6, <3>1 DEF SplitNext
  <2>3. SplitNext(separator)[w][c] \in Seq(F)
    BY SplitNextStays DEF Divided, F
  <2> HIDE DEF last
  <2>4. [u \o w EXCEPT ![Len(u \o w)] = last] = u \o [w EXCEPT ![Len(w)] = last]
    <3> DEFINE v == [w EXCEPT ![Len(w)] = last]
               x == [u \o w EXCEPT ![Len(u \o w)] = last]
    <3>1. last \in F
      <4>1. v \in Seq(F) /\ Len(v) = Len(w) /\ v[Len(w)] = last
        BY <1>1, <1>2, <2>1, <2>3
      <4> QED
        BY <1>2, <4>1
    <3>2. v \in Seq(F) /\ Len(v) = Len(w) /\ \A i \in 1..Len(w) : v[i] = IF i = Len(w) THEN last ELSE w[i]
      <4>1. Len(w) \in 1..Len(w)
        BY <1>2
      <4> QED
        BY <1>1, <3>1, <4>1, ExceptSeq
    <3>3. /\ x \in Seq(F) /\ Len(x) = Len(u) + Len(w)
          /\ \A i \in 1..(Len(u) + Len(w)) : x[i] = IF i = Len(u) + Len(w) THEN last ELSE (u \o w)[i]
      <4> DEFINE z == u \o w
      <4>1. z \in Seq(F) /\ Len(z) = Len(u) + Len(w) /\ Len(z) \in 1..Len(z)
        BY <1>2
      <4> HIDE DEF z
      <4>2. /\ [z EXCEPT ![Len(z)] = last] \in Seq(F)
            /\ Len([z EXCEPT ![Len(z)] = last]) = Len(z)
            /\ \A i \in 1..Len(z) : [z EXCEPT ![Len(z)] = last][i] = IF i = Len(z) THEN last ELSE z[i]
        BY <3>1, <4>1, ExceptSeq
      <4> QED
        BY <4>1, <4>2 DEF z
    <3> HIDE DEF v, x
    <3>4. /\ u \o v \in Seq(F) /\ Len(u \o v) = Len(u) + Len(w)
          /\ \A i \in 1..(Len(u) + Len(v)) : (u \o v)[i] = IF i <= Len(u) THEN u[i] ELSE v[i - Len(u)]
      <4>1. u \in Seq(F) /\ v \in Seq(F) /\ Len(v) = Len(w)
        BY <1>1, <3>2
      <4>2. /\ u \o v \in Seq(F) /\ Len(u \o v) = Len(u) + Len(v)
            /\ \A i \in 1..(Len(u) + Len(v)) : (u \o v)[i] = IF i <= Len(u) THEN u[i] ELSE v[i - Len(u)]
        BY <4>1, ConcatProperties
      <4> QED
        BY <4>1, <4>2
    <3>5. \A i \in 1..(Len(u) + Len(w)) : (u \o w)[i] = IF i <= Len(u) THEN u[i] ELSE w[i - Len(u)]
      BY <1>1, ConcatProperties
    <3>6. ASSUME NEW i \in 1..(Len(u) + Len(w))
          PROVE  x[i] = (u \o v)[i]
      <4>1. CASE i <= Len(u)
        <5>1. i # Len(u) + Len(w)
          BY <1>2, <4>1
        <5> QED
          BY <3>2, <3>3, <3>4, <3>5, <4>1, <5>1
      <4>2. CASE i > Len(u)
        <5>1. i - Len(u) \in 1..Len(w) /\ (i = Len(u) + Len(w) <=> i - Len(u) = Len(w)) /\ ~(i <= Len(u))
          BY <1>2, <4>2
        <5>2. (u \o v)[i] = v[i - Len(u)] /\ (u \o w)[i] = w[i - Len(u)]
          BY <3>2, <3>4, <3>5, <5>1
        <5> QED
          BY <3>2, <3>3, <5>1, <5>2
      <4>3. i <= Len(u) \/ i > Len(u)
        BY <1>2
      <4> QED
        BY <4>1, <4>2, <4>3
    <3>7. x = u \o v
      BY <3>3, <3>4, <3>6, SeqEqual
    <3> QED
      BY <3>7 DEF x, v
  <2> QED
    BY <1>4, <2>1, <2>2, <2>4
<1> QED
  BY <1>4, <1>5, <1>6

\* What a separator divides splits apart.
LEMMA SplitConcat ==
  ASSUME NEW separator \in Char, NEW s \in Seq(Char), NEW t \in Seq(Char)
  PROVE  Split(s \o <<separator>> \o t, separator) = Split(s, separator) \o Split(t, separator)
<1> DEFINE head == s \o <<separator>>
           All == {u \in Seq(Char) :
                     Split(head \o u, separator) = Split(s, separator) \o Split(u, separator)}
<1>1. head \in Seq(Char) /\ head = Append(s, separator)
  OBVIOUS
<1>2. Split(s, separator) \in Divided(separator)
  BY SplitDivides
<1>3. <<>> \in All
  <2>1. head \o <<>> = head /\ <<>> \in Seq(Char)
    BY <1>1
  <2>2. Split(head, separator) = Append(Split(s, separator), <<>>)
    <3>1. Split(head, separator) = SplitNext(separator)[Split(s, separator)][separator]
      BY <1>1, SplitOfAppend
    <3> QED
      BY <1>2, <3>1 DEF SplitNext
  <2>3. Append(Split(s, separator), <<>>) = Split(s, separator) \o << <<>> >>
    <3>1. <<>> \in Free(separator) /\ Split(s, separator) \in Seq(Free(separator))
      BY <1>2 DEF Divided, Free
    <3> QED
      BY <3>1, AppendIsConcat
  <2> QED
    BY <2>1, <2>2, <2>3, SplitOfEmpty
<1>4. ASSUME NEW u \in Seq(Char), u \in All, NEW c \in Char
      PROVE  Append(u, c) \in All
  <2> HIDE DEF head
  <2>1. head \o Append(u, c) = Append(head \o u, c) /\ head \o u \in Seq(Char)
        /\ Append(u, c) \in Seq(Char)
    BY <1>1, AppendConcat
  <2>2. Split(u, separator) \in Divided(separator)
    BY SplitDivides
  <2>3. Split(head \o u, separator) = Split(s, separator) \o Split(u, separator)
    BY <1>4
  <2>4. Split(Append(head \o u, c), separator)
          = SplitNext(separator)[Split(s, separator) \o Split(u, separator)][c]
    <3> DEFINE v == head \o u
    <3>1. v \in Seq(Char)
      BY <2>1
    <3> HIDE DEF v
    <3>2. Split(Append(v, c), separator) = SplitNext(separator)[Split(v, separator)][c]
      BY <3>1, SplitOfAppend
    <3> QED
      BY <2>3, <3>2 DEF v
  <2>5. Split(Append(u, c), separator) = SplitNext(separator)[Split(u, separator)][c]
    BY SplitOfAppend
  <2>6. SplitNext(separator)[Split(s, separator) \o Split(u, separator)][c]
          = Split(s, separator) \o SplitNext(separator)[Split(u, separator)][c]
    BY <1>2, <2>2, SplitNextOfConcat
  <2> QED
    BY <2>1, <2>4, <2>5, <2>6
<1> HIDE DEF All
<1>5. t \in All
  BY <1>3, <1>4, InductionOnTexts
<1> QED
  BY <1>5 DEF All

LEMMA SplitNextAtEnd ==
  ASSUME NEW separator, NEW parts \in Seq(Free(separator)), NEW last \in Free(separator), NEW c \in Char
  PROVE  /\ Append(parts, last) \in Divided(separator)
         /\ c = separator =>
              SplitNext(separator)[Append(parts, last)][c] = Append(Append(parts, last), <<>>)
         /\ c # separator =>
              SplitNext(separator)[Append(parts, last)][c] = Append(parts, Append(last, c))
<1> DEFINE F == Free(separator)
           all == Append(parts, last)
<1>1. /\ all \in Seq(F) /\ all # <<>> /\ Len(all) = Len(parts) + 1 /\ Len(parts) \in Nat
      /\ \A i \in 1..Len(parts) : all[i] = parts[i]
      /\ all[Len(parts) + 1] = last
  <2> HIDE DEF F
  <2>1. parts \in Seq(F) /\ last \in F
    BY DEF F
  <2> QED
    BY <2>1, AppendProperties
<1> HIDE DEF all
<1>2. all \in Divided(separator)
  BY <1>1 DEF Divided
<1>3. SplitNext(separator)[all][c] =
        IF c = separator THEN Append(all, <<>>) ELSE [all EXCEPT ![Len(all)] = Append(last, c)]
  BY <1>1, <1>2 DEF SplitNext
<1>4. ASSUME c # separator
      PROVE  [all EXCEPT ![Len(all)] = Append(last, c)] = Append(parts, Append(last, c))
  <2> DEFINE new == Append(last, c)
             x == [all EXCEPT ![Len(all)] = new]
             y == Append(parts, new)
  <2>1. x \in Seq(F)
    <3>1. SplitNext(separator)[all][c] \in Divided(separator)
      BY <1>2, SplitNextStays
    <3> QED
      BY <1>3, <1>4, <3>1 DEF Divided
  <2>2. x[Len(all)] = new /\ Len(x) = Len(all)
    BY <1>1
  <2>3. new \in F
    <3> HIDE DEF F, new
    <3>1. Len(x) \in 1..Len(x)
      BY <1>1, <2>2
    <3> HIDE DEF x
    <3>2. x[Len(x)] \in F
      BY <2>1, <3>1, ElementOfSeq
    <3> QED
      BY <2>2, <3>2
  <2> HIDE DEF F, new
  <2>4. \A i \in 1..Len(all) : x[i] = IF i = Len(all) THEN new ELSE all[i]
    <3>1. Len(all) \in 1..Len(all)
      BY <1>1
    <3> QED
      BY <1>1, <2>3, <3>1, ExceptSeq
  <2>5. parts \in Seq(F)
    BY DEF F
  <2>6. y \in Seq(F) /\ Len(y) = Len(parts) + 1 /\ (\A i \in 1..Len(parts) : y[i] = parts[i]) /\ y[Len(parts) + 1] = new
    BY <2>3, <2>5, AppendProperties
  <2> HIDE DEF x, y
  <2>7. ASSUME NEW i \in 1..Len(x)
        PROVE  x[i] = y[i]
    <3>1. i \in 1..Len(all) /\ (i \in 1..Len(parts) \/ i = Len(all))
      BY <1>1, <2>2
    <3> QED
      BY <1>1, <2>4, <2>6, <3>1
  <2>8. x = y
    BY <1>1, <2>1, <2>2, <2>6, <2>7, SeqEqual
  <2> QED
    BY <2>8 DEF x, y, new
<1> QED
  BY <1>2, <1>3, <1>4 DEF all

LEMMA LastOfDivided ==
  ASSUME NEW separator, NEW parts \in Divided(separator)
  PROVE  \E front \in Seq(Free(separator)), last \in Free(separator) : parts = Append(front, last)
<1> DEFINE F == Free(separator)
<1>1. parts \in Seq(F) /\ parts # <<>>
  BY DEF Divided
<1> HIDE DEF F
<1>2. \E front \in Seq(F), last \in F : parts = Append(front, last)
  BY <1>1, SequenceEmptyOrAppend
<1> QED
  BY <1>2 DEF F

LEMMA FreeAppend ==
  ASSUME NEW separator, NEW p \in Seq(Char), NEW c \in Char
  PROVE  Append(p, c) \in Free(separator) <=> p \in Free(separator) /\ c # separator
<1>1. /\ Append(p, c) \in Seq(Char) /\ Len(Append(p, c)) = Len(p) + 1 /\ Len(p) \in Nat
      /\ \A i \in 1..Len(p) : Append(p, c)[i] = p[i]
      /\ Append(p, c)[Len(p) + 1] = c
  BY AppendProperties
<1>2. \A i \in 1..(Len(p) + 1) : i \in 1..Len(p) \/ i = Len(p) + 1
  BY <1>1
<1>3. Len(p) + 1 \in 1..(Len(p) + 1) /\ \A i \in 1..Len(p) : i \in 1..(Len(p) + 1)
  BY <1>1
<1> QED
  BY <1>1, <1>2, <1>3 DEF Free

\* A text without a separator is one part.
LEMMA SplitWhole ==
  ASSUME NEW separator, NEW p \in Free(separator)
  PROVE  Split(p, separator) = <<p>>
<1> DEFINE All == {t \in Seq(Char) : t \in Free(separator) => Split(t, separator) = <<t>>}
<1>1. <<>> \in All
  BY SplitOfEmpty, EmptySeq
<1>2. ASSUME NEW t \in Seq(Char), t \in All, NEW c \in Char
      PROVE  Append(t, c) \in All
  <2>1. Append(t, c) \in Seq(Char)
    BY AppendProperties
  <2>2. SUFFICES ASSUME Append(t, c) \in Free(separator)
                 PROVE  Split(Append(t, c), separator) = <<Append(t, c)>>
    BY <2>1
  <2>3. t \in Free(separator) /\ c # separator
    BY <2>2, FreeAppend
  <2>4. Split(t, separator) = <<t>>
    BY <1>2, <2>3
  <2>5. <<t>> = Append(<<>>, t) /\ <<>> \in Seq(Free(separator))
    OBVIOUS
  <2>6. SplitNext(separator)[<<t>>][c] = Append(<<>>, Append(t, c))
    <3>1. SplitNext(separator)[Append(<<>>, t)][c] = Append(<<>>, Append(t, c))
      <4> DEFINE none == <<>>
      <4>1. none \in Seq(Free(separator))
        OBVIOUS
      <4> HIDE DEF none
      <4>2. SplitNext(separator)[Append(none, t)][c] = Append(none, Append(t, c))
        BY <2>3, <4>1, SplitNextAtEnd
      <4> QED
        BY <4>2 DEF none
    <3> QED
      BY <2>5, <3>1
  <2>7. Append(<<>>, Append(t, c)) = <<Append(t, c)>>
    OBVIOUS
  <2> QED
    BY <2>4, <2>6, <2>7, SplitOfAppend
<1> HIDE DEF All
<1>3. p \in Seq(Char)
  BY DEF Free
<1>4. p \in All
  BY <1>1, <1>2, <1>3, InductionOnTexts
<1> QED
  BY <1>4 DEF All

-----------------------------------------------------------------------------
\* Parts with a separator before each of them.
SpellNext(separator) ==
  [s \in Seq(Char) |-> [part \in Seq(Char) |-> s \o <<separator>> \o part]]

Spelled(parts, separator) == Fold(Seq(Char), <<>>, SpellNext(separator), parts)

LEMMA SpelledOfAppend ==
  ASSUME NEW separator \in Char
  PROVE  /\ Spelled(<<>>, separator) = <<>>
         /\ \A parts \in Seq(Seq(Char)) :
              /\ Spelled(parts, separator) \in Seq(Char)
              /\ \A part \in Seq(Char) :
                   Spelled(Append(parts, part), separator) = Spelled(parts, separator) \o <<separator>> \o part
<1> DEFINE V == Seq(Char)
           next == SpellNext(separator)
<1>1. \A s \in V, part \in V : next[s][part] = s \o <<separator>> \o part /\ next[s][part] \in V
  BY DEF SpellNext
<1>2. Stays(V, V, next) /\ <<>> \in V
  BY <1>1 DEF Stays
<1> HIDE DEF V, next
<1>3. Fold(V, <<>>, next, <<>>) = <<>>
  BY <1>2, FoldOfEmpty
<1>4. ASSUME NEW parts \in Seq(V)
      PROVE  Fold(V, <<>>, next, parts) \in V
  BY <1>2, FoldStays
<1>5. ASSUME NEW parts \in Seq(V), NEW part \in V
      PROVE  Fold(V, <<>>, next, Append(parts, part)) = Fold(V, <<>>, next, parts) \o <<separator>> \o part
  <2>1. Fold(V, <<>>, next, Append(parts, part)) = next[Fold(V, <<>>, next, parts)][part]
    BY <1>2, FoldOfAppend
  <2> QED
    BY <1>1, <1>4, <2>1
<1> QED
  BY <1>3, <1>4, <1>5 DEF Spelled, V, next

LEMMA SpelledConcat ==
  ASSUME NEW separator \in Char, NEW u \in Seq(Seq(Char)), NEW w \in Seq(Seq(Char))
  PROVE  Spelled(u \o w, separator) = Spelled(u, separator) \o Spelled(w, separator)
<1> DEFINE V == Seq(Char)
           Of(parts) == Spelled(parts, separator)
           All == {v \in Seq(V) : Of(u \o v) = Of(u) \o Of(v)}
<1>1. /\ Of(<<>>) = <<>>
      /\ \A parts \in Seq(V) : /\ Of(parts) \in V
                               /\ \A part \in V : Of(Append(parts, part)) = Of(parts) \o <<separator>> \o part
  BY SpelledOfAppend
<1> HIDE DEF Of
<1>2. <<>> \in All
  <2>1. u \o <<>> = u /\ Of(u) \o <<>> = Of(u) /\ <<>> \in Seq(V)
    BY <1>1, ConcatEmptySeq, EmptySeq
  <2> QED
    BY <1>1, <2>1
<1>3. ASSUME NEW v \in Seq(V), v \in All, NEW part \in V
      PROVE  Append(v, part) \in All
  <2>0. u \in Seq(V)
    OBVIOUS
  <2> HIDE DEF V
  <2>1. u \o Append(v, part) = Append(u \o v, part) /\ u \o v \in Seq(V) /\ Append(v, part) \in Seq(V)
    BY <2>0, AppendConcat
  <2>2. Of(Append(u \o v, part)) = Of(u \o v) \o <<separator>> \o part
    BY <1>1, <2>1
  <2>3. Of(u \o v) = Of(u) \o Of(v) /\ Of(u) \in V /\ Of(v) \in V
    BY <1>1, <1>3, <2>0
  <2>4. (Of(u) \o Of(v)) \o <<separator>> \o part = Of(u) \o (Of(v) \o <<separator>> \o part)
    <3> DEFINE a == Of(u)
               b == Of(v)
    <3>1. a \in Seq(Char) /\ b \in Seq(Char) /\ part \in Seq(Char) /\ <<separator>> \in Seq(Char)
      BY <2>3 DEF V
    <3> HIDE DEF a, b
    <3>2. a \o b \in Seq(Char) /\ <<separator>> \o part \in Seq(Char) /\ b \o <<separator>> \in Seq(Char)
      BY <3>1
    <3>3. ((a \o b) \o <<separator>>) \o part = (a \o (b \o <<separator>>)) \o part
      <4>1. Three(Char, a, b, <<separator>>)
        BY <3>1 DEF Three
      <4> QED
        BY <4>1, ConcatThree
    <3>4. (a \o (b \o <<separator>>)) \o part = a \o ((b \o <<separator>>) \o part)
      <4> DEFINE bs == b \o <<separator>>
      <4> HIDE DEF bs
      <4>1. Three(Char, a, bs, part)
        BY <3>1, <3>2 DEF Three, bs
      <4>2. (a \o bs) \o part = a \o (bs \o part)
        BY <4>1, ConcatThree
      <4> QED
        BY <4>2 DEF bs
    <3> QED
      BY <3>3, <3>4 DEF a, b
  <2>5. Of(Append(v, part)) = Of(v) \o <<separator>> \o part
    BY <1>1
  <2> QED
    BY <2>1, <2>2, <2>3, <2>4, <2>5
<1> HIDE DEF All, V
<1>4. u \in Seq(V) /\ w \in Seq(V)
  BY DEF V
<1>5. w \in All
  BY <1>2, <1>3, <1>4, InductionOnTexts
<1> QED
  BY <1>5 DEF All, Of

\* Splitting and spelling out are inverses: every list of parts without
\* separators is how some text splits, and that text is what they spell.
LEMMA SpelledIsSplit ==
  ASSUME NEW separator \in Char, NEW parts \in Divided(separator)
  PROVE  \E s \in Seq(Char) : /\ Spelled(parts, separator) = <<separator>> \o s
                              /\ Split(s, separator) = parts
<1> DEFINE F == Free(separator)
           Is(s, p) == Spelled(p, separator) = <<separator>> \o s /\ Split(s, separator) = p
           All == {p \in Seq(F) : p # <<>> => \E s \in Seq(Char) : Is(s, p)}
<1>1. F \subseteq Seq(Char)
  BY DEF Free
<1>2. <<>> \in All
  BY EmptySeq
<1>3. ASSUME NEW p \in Seq(F), p \in All, NEW part \in F
      PROVE  Append(p, part) \in All
  <2>1. Append(p, part) \in Seq(F)
    <3> HIDE DEF F
    <3> QED
      BY AppendProperties
  <2>2. p \in Seq(Seq(Char)) /\ part \in Seq(Char)
    <3> HIDE DEF F
    <3> QED
      BY <1>1, SeqMonotonic
  <2>3. Spelled(Append(p, part), separator) = Spelled(p, separator) \o <<separator>> \o part
    BY <2>2, SpelledOfAppend
  <2>4. Split(part, separator) = <<part>>
    BY SplitWhole
  <2>5. CASE p = <<>>
    <3>1. Spelled(p, separator) = <<>>
      BY <2>5, SpelledOfAppend
    <3>2. <<>> \o <<separator>> = <<separator>>
      OBVIOUS
    <3>3. Append(p, part) = <<part>>
      BY <2>5
    <3>4. Is(part, Append(p, part))
      BY <2>3, <2>4, <3>1, <3>2, <3>3
    <3> QED
      BY <2>1, <2>2, <3>4
  <2>6. CASE p # <<>>
    <3>1. PICK s \in Seq(Char) : Is(s, p)
      BY <1>3, <2>6
    <3> DEFINE t == s \o <<separator>> \o part
    <3>2. Split(t, separator) = p \o <<part>>
      BY <2>2, <2>4, <3>1, SplitConcat
    <3>3. p \o <<part>> = Append(p, part)
      <4> HIDE DEF F
      <4> QED
        BY AppendIsConcat
    <3>4. Spelled(Append(p, part), separator) = <<separator>> \o t
      <4>1. <<separator>> \in Seq(Char) /\ s \o <<separator>> \in Seq(Char) /\ <<separator>> \o s \in Seq(Char)
        OBVIOUS
      <4>2. ((<<separator>> \o s) \o <<separator>>) \o part = (<<separator>> \o (s \o <<separator>>)) \o part
        BY <4>1, ConcatAssociative
      <4>3. (<<separator>> \o (s \o <<separator>>)) \o part = <<separator>> \o ((s \o <<separator>>) \o part)
        BY <2>2, <4>1, ConcatAssociative
      <4> QED
        BY <2>3, <3>1, <4>2, <4>3
    <3>5. t \in Seq(Char)
      BY <2>2
    <3> QED
      BY <2>1, <3>2, <3>3, <3>4, <3>5
  <2> QED
    BY <2>5, <2>6
<1>4. parts \in Seq(F) /\ parts # <<>>
  BY DEF Divided
<1> HIDE DEF All, F
<1>5. parts \in All
  BY <1>2, <1>3, <1>4, InductionOnTexts
<1> QED
  BY <1>4, <1>5 DEF All

LEMMA SplitIsSpelled ==
  ASSUME NEW separator \in Char, NEW s \in Seq(Char)
  PROVE  Spelled(Split(s, separator), separator) = <<separator>> \o s
<1> DEFINE All == {t \in Seq(Char) : Spelled(Split(t, separator), separator) = <<separator>> \o t}
<1>0. \A t \in Free(separator) : t \in Seq(Char)
  BY DEF Free
<1>1. <<>> \in All
  <2>1. <<>> \in Seq(Char) /\ <<>> \in Seq(Seq(Char)) /\ << <<>> >> = Append(<<>>, <<>>)
    OBVIOUS
  <2>2. Spelled(Append(<<>>, <<>>), separator) = Spelled(<<>>, separator) \o <<separator>> \o <<>>
    BY <2>1, SpelledOfAppend
  <2>3. Spelled(<<>>, separator) = <<>>
    BY SpelledOfAppend
  <2>4. <<>> \o <<separator>> = <<separator>>
    OBVIOUS
  <2> QED
    BY <2>1, <2>2, <2>3, <2>4, SplitOfEmpty
<1>2. ASSUME NEW t \in Seq(Char), t \in All, NEW c \in Char
      PROVE  Append(t, c) \in All
  <2>1. Append(t, c) \in Seq(Char)
    BY AppendProperties
  <2>2. Split(Append(t, c), separator) = SplitNext(separator)[Split(t, separator)][c]
    BY SplitOfAppend
  <2>3. PICK front \in Seq(Free(separator)), last \in Free(separator) :
          Split(t, separator) = Append(front, last)
    BY SplitDivides, LastOfDivided
  <2>4. front \in Seq(Seq(Char)) /\ last \in Seq(Char)
    BY <1>0, SeqMonotonic
  <2> DEFINE start == Spelled(front, separator) \o <<separator>>
  <2>5. Spelled(front, separator) \in Seq(Char) /\ start \in Seq(Char)
    <3>1. Spelled(front, separator) \in Seq(Char)
      BY <2>4, SpelledOfAppend
    <3> QED
      BY <3>1
  <2>6. Spelled(Append(front, last), separator) = start \o last
    BY <2>4, SpelledOfAppend
  <2>7. start \o last = <<separator>> \o t
    BY <1>2, <2>3, <2>6
  <2> HIDE DEF start
  <2>8. CASE c = separator
    <3>1. Split(Append(t, c), separator) = Append(Split(t, separator), <<>>)
      BY <2>2, <2>3, <2>8, SplitNextAtEnd
    <3>2. Split(t, separator) \in Seq(Seq(Char)) /\ <<>> \in Seq(Char)
      BY <2>3, <2>4, AppendProperties, EmptySeq
    <3>3. Spelled(Append(Split(t, separator), <<>>), separator)
            = Spelled(Split(t, separator), separator) \o <<separator>> \o <<>>
      BY <3>2, SpelledOfAppend
    <3>4. (<<separator>> \o t) \o <<separator>> \o <<>> = <<separator>> \o Append(t, separator)
      <4> DEFINE a == <<separator>> \o t
      <4>1. a \in Seq(Char) /\ <<separator>> \in Seq(Char) /\ Append(a, separator) \in Seq(Char)
        OBVIOUS
      <4>2. <<separator>> \o Append(t, separator) = Append(a, separator)
        BY <4>1, AppendConcat
      <4> HIDE DEF a
      <4>3. a \o <<separator>> = Append(a, separator)
        BY <4>1, AppendIsConcat
      <4>4. Append(a, separator) \o <<>> = Append(a, separator)
        BY <4>1, ConcatEmptySeq
      <4> QED
        BY <4>2, <4>3, <4>4 DEF a
    <3> QED
      BY <1>2, <2>1, <2>8, <3>1, <3>3, <3>4
  <2>9. CASE c # separator
    <3>1. Split(Append(t, c), separator) = Append(front, Append(last, c))
      BY <2>2, <2>3, <2>9, SplitNextAtEnd
    <3>2. Append(last, c) \in Seq(Char)
      BY <2>4, AppendProperties
    <3>3. Spelled(Append(front, Append(last, c)), separator) = start \o Append(last, c)
      BY <2>4, <3>2, SpelledOfAppend DEF start
    <3>4. start \o Append(last, c) = Append(start \o last, c)
      BY <2>4, <2>5, AppendConcat
    <3>5. Append(<<separator>> \o t, c) = <<separator>> \o Append(t, c)
      OBVIOUS
    <3> QED
      BY <2>1, <2>7, <3>1, <3>3, <3>4, <3>5
  <2> QED
    BY <2>8, <2>9
<1> HIDE DEF All
<1>3. s \in All
  BY <1>1, <1>2, InductionOnTexts
<1> QED
  BY <1>3 DEF All

\* What Join makes of the parts so far and another.
JoinNext ==
  [s \in Seq(Char) |-> [part \in Seq(Char) |-> IF s = <<>> THEN part ELSE s \o <<"/">> \o part]]

LEMMA CharText ==
  ASSUME NEW c \in Char
  PROVE  <<c>> \in Seq(Char)
OBVIOUS

LEMMA LettersAreChars ==
  /\ "/" \in Char /\ "." \in Char /\ " " \in Char /\ "@" \in Char /\ ";" \in Char
  /\ <<"/">> \in Seq(Char) /\ <<".">> \in Seq(Char) /\ <<" ">> \in Seq(Char)
<1>1. "/" \in Char /\ "." \in Char /\ " " \in Char /\ "@" \in Char /\ ";" \in Char
  BY DEF Char
<1> QED
  BY <1>1, CharText, Zenon

LEMMA JoinNextStays ==
  ASSUME NEW s \in Seq(Char), NEW part \in Seq(Char)
  PROVE  JoinNext[s][part] \in Seq(Char)
<1>1. <<"/">> \in Seq(Char)
  BY Zenon, LettersAreChars
<1>2. s \o <<"/">> \in Seq(Char)
  BY <1>1, ConcatProperties
<1>3. s \o <<"/">> \o part \in Seq(Char)
  BY <1>2, ConcatProperties
<1> QED
  BY <1>3 DEF JoinNext

LEMMA JoinIsFold ==
  ASSUME NEW parts \in Seq(Seq(Char))
  PROVE  Join(parts) = Fold(Seq(Char), <<>>, JoinNext, parts)
<1> DEFINE V == Seq(Char)
           base == <<>>
           next == JoinNext
           Extended(v, part) == IF v = <<>> THEN part ELSE v \o <<"/">> \o part
           Is(f) == f = [n \in 0..Len(parts) |-> IF n = 0 THEN base ELSE Extended(f[n - 1], parts[n])]
           f == CHOOSE f : Is(f)
<1>1. Join(parts) = f[Len(parts)]
  BY DEF Join, Folded
<1>2. base \in V
  BY EmptySeq
<1>3. \A v \in V, c \in Seq(Char) : next[v][c] = Extended(v, c) /\ next[v][c] \in V
  BY JoinNextStays DEF JoinNext
<1>4. Len(parts) \in Nat /\ \A n \in 1..Len(parts) : parts[n] \in Seq(Char)
  OBVIOUS
<1>5. Stays(V, Seq(Char), next)
  BY <1>3 DEF Stays
<1> HIDE DEF V, base, next
<1>6. \E g : Is(g)
  <2>1. PICK g : IsFold(g, V, base, next, parts)
    BY <1>2, <1>5, FoldExists
  <2>2. g \in [0..Len(parts) -> V] /\ g[0] = base /\ \A n \in 1..Len(parts) : g[n] = next[g[n - 1]][parts[n]]
    BY <2>1 DEF IsFold
  <2> HIDE DEF Extended
  <2>3. ASSUME NEW n \in 0..Len(parts)
        PROVE  g[n] = IF n = 0 THEN base ELSE Extended(g[n - 1], parts[n])
    <3>1. n # 0 => n \in 1..Len(parts) /\ n - 1 \in 0..Len(parts)
      BY <1>4
    <3> QED
      BY <1>3, <1>4, <2>2, <3>1
  <2>4. g = [n \in 0..Len(parts) |-> g[n]]
    BY <2>2
  <2>5. Is(g)
    BY <2>3, <2>4, Zenon
  <2> QED
    BY <2>5
<1>7. Is(f)
  BY <1>6, Zenon
<1> HIDE DEF f, Extended
<1>8. f[0] = base
  BY <1>4, <1>7
<1>9. Follows(f, V, base, next, parts)
  <2> SUFFICES ASSUME NEW n \in 1..Len(parts), f[n - 1] \in V
               PROVE  f[n] = next[f[n - 1]][parts[n]]
    BY <1>8 DEF Follows
  <2>1. n \in 0..Len(parts) /\ n # 0
    BY <1>4
  <2>2. f[n] = Extended(f[n - 1], parts[n])
    BY <1>7, <2>1
  <2> QED
    BY <1>3, <1>4, <2>2
<1> HIDE DEF Is
<1>10. f[Len(parts)] = Fold(V, base, next, parts)
  BY <1>2, <1>5, <1>9, FoldIs
<1> QED
  BY <1>1, <1>10 DEF V, base, next


LEMMA JoinOfAppend ==
  ASSUME NEW parts \in Seq(Seq(Char)), NEW part \in Seq(Char)
  PROVE  /\ Join(<<>>) = <<>>
         /\ Join(parts) \in Seq(Char)
         /\ Join(Append(parts, part)) = IF Join(parts) = <<>> THEN part ELSE Join(parts) \o <<"/">> \o part
<1> DEFINE V == Seq(Char)
           next == JoinNext
<1>1. <<>> \in V /\ Stays(V, V, next)
  BY JoinNextStays DEF Stays
<1>2. <<>> \in Seq(V) /\ parts \in Seq(V) /\ Append(parts, part) \in Seq(V)
  BY EmptySeq, AppendProperties
<1>3. /\ Join(<<>>) = Fold(V, <<>>, next, <<>>)
      /\ Join(parts) = Fold(V, <<>>, next, parts)
      /\ Join(Append(parts, part)) = Fold(V, <<>>, next, Append(parts, part))
  BY <1>2, JoinIsFold
<1>4. \A s \in V : next[s][part] = IF s = <<>> THEN part ELSE s \o <<"/">> \o part
  BY DEF JoinNext
<1>5. part \in V
  OBVIOUS
<1> HIDE DEF V, next
<1>6. /\ Fold(V, <<>>, next, <<>>) = <<>>
      /\ Fold(V, <<>>, next, parts) \in V
      /\ Fold(V, <<>>, next, Append(parts, part)) = next[Fold(V, <<>>, next, parts)][part]
  BY <1>1, <1>2, <1>5, FoldOfEmpty, FoldStays, FoldOfAppend
<1> QED
  BY <1>3, <1>4, <1>6 DEF V

\* The parts that a path keeps.
Part == Free("/") \ {<<>>}

LEMMA PartsAre ==
  /\ Part \subseteq Seq(Char) /\ <<>> \notin Part /\ Part \subseteq Free("/")
  /\ \A parts \in Seq(Part) : parts \in Seq(Seq(Char)) /\ parts \in Seq(Free("/"))
<1>1. Part \subseteq Seq(Char) /\ <<>> \notin Part /\ Part \subseteq Free("/")
  BY DEF Part, Free
<1> HIDE DEF Part
<1> QED
  BY <1>1, SeqMonotonic

\* Join is the text that splits into the parts.
LEMMA JoinIsSpelled ==
  ASSUME NEW parts \in Seq(Part), parts # <<>>
  PROVE  /\ Join(parts) \in Seq(Char) /\ Join(parts) # <<>>
         /\ Split(Join(parts), "/") = parts
<1> DEFINE All == {p \in Seq(Part) : p # <<>> => Join(p) # <<>> /\ Split(Join(p), "/") = p}
<1>1. <<>> \in All
  BY EmptySeq
<1>2. ASSUME NEW p \in Seq(Part), p \in All, NEW part \in Part
      PROVE  Append(p, part) \in All
  <2>1. Append(p, part) \in Seq(Part)
    BY AppendProperties
  <2>2. p \in Seq(Seq(Char)) /\ part \in Seq(Char) /\ part # <<>> /\ part \in Free("/")
    BY PartsAre
  <2>3. /\ Join(<<>>) = <<>> /\ Join(p) \in Seq(Char)
        /\ Join(Append(p, part)) = IF Join(p) = <<>> THEN part ELSE Join(p) \o <<"/">> \o part
    BY <2>2, JoinOfAppend
  <2>4. Split(part, "/") = <<part>>
    BY <2>2, SplitWhole
  <2>5. CASE p = <<>>
    <3>1. Append(p, part) = <<part>>
      BY <2>5
    <3> QED
      BY <2>1, <2>2, <2>3, <2>4, <2>5, <3>1
  <2>6. CASE p # <<>>
    <3>1. Join(p) # <<>> /\ Split(Join(p), "/") = p
      BY <1>2, <2>6
    <3>2. Split(Join(p) \o <<"/">> \o part, "/") = p \o <<part>>
      <4>1. "/" \in Char
        BY LettersAreChars
      <4>2. Split(Join(p) \o <<"/">> \o part, "/") = Split(Join(p), "/") \o Split(part, "/")
        BY <2>2, <2>3, <4>1, SplitConcat
      <4> QED
        BY <2>4, <3>1, <4>2
    <3>3. p \o <<part>> = Append(p, part)
      BY AppendIsConcat
    <3>4. Join(p) \o <<"/">> \o part # <<>>
      <4> DEFINE a == Join(p)
      <4>1. a \in Seq(Char) /\ <<"/">> \in Seq(Char)
        BY Zenon, <2>3, LettersAreChars
      <4> HIDE DEF a
      <4>2. a \o <<"/">> \in Seq(Char)
        BY <4>1
      <4> QED
        BY <2>2, <4>2, ConcatEqualIffEmpty DEF a
    <3> QED
      BY <2>1, <2>3, <3>1, <3>2, <3>3, <3>4
  <2> QED
    BY <2>5, <2>6
<1> HIDE DEF All
<1>3. parts \in All
  BY <1>1, <1>2, InductionOnTexts
<1>4. parts \in Seq(Seq(Char))
  BY PartsAre
<1>5. Join(parts) \in Seq(Char)
  BY <1>4, EmptySeq, JoinOfAppend
<1> QED
  BY <1>3, <1>5 DEF All

\* What Components makes of the parts so far and another.
ComponentsNext ==
  [v \in Seq(Part) |-> [part \in Free("/") |->
     IF part \in {<<>>, <<".">>} THEN v
     ELSE IF part = <<".", ".">> THEN IF v = <<>> THEN v ELSE Front(v)
     ELSE Append(v, part)]]

LEMMA FrontIsSeq ==
  ASSUME NEW C, NEW s \in Seq(C), s # <<>>
  PROVE  Front(s) \in Seq(C)
<1>1. Len(s) \in Nat \ {0} /\ \A i \in 1..(Len(s) - 1) : s[i] \in C
  OBVIOUS
<1>2. SubSeq(s, 1, Len(s) - 1) \in Seq(C)
  BY <1>1, SubSeqProperties
<1> QED
  BY <1>2 DEF Front

LEMMA ComponentsNextStays ==
  ASSUME NEW v \in Seq(Part), NEW part \in Free("/")
  PROVE  ComponentsNext[v][part] \in Seq(Part)
<1>1. CASE part \in {<<>>, <<".">>}
  BY <1>1 DEF ComponentsNext
<1>2. CASE part \notin {<<>>, <<".">>} /\ part = <<".", ".">>
  BY <1>2, FrontIsSeq DEF ComponentsNext
<1>3. CASE part \notin {<<>>, <<".">>} /\ part # <<".", ".">>
  <2>1. part \in Part
    BY <1>3 DEF Part
  <2>2. Append(v, part) \in Seq(Part)
    BY <2>1, AppendProperties
  <2> QED
    BY <1>3, <2>2 DEF ComponentsNext
<1> QED
  BY <1>1, <1>2, <1>3

LEMMA ComponentsIsFold ==
  ASSUME NEW path, NEW parts \in Seq(Free("/")), Split(path, "/") = parts
  PROVE  Components(path) = Fold(Seq(Part), <<>>, ComponentsNext, parts)
<1> DEFINE V == Seq(Part)
           base == <<>>
           next == ComponentsNext
           Extended(v, part) == IF part \in {<<>>, <<".">>} THEN v
                                 ELSE IF part = <<".", ".">> THEN IF v = <<>> THEN v ELSE Front(v)
                                 ELSE Append(v, part)
           Is(f) == f = [n \in 0..Len(parts) |-> IF n = 0 THEN base ELSE Extended(f[n - 1], parts[n])]
           f == CHOOSE f : Is(f)
<1>1. Components(path) = f[Len(parts)]
  BY DEF Components, Folded
<1>2. base \in V
  BY EmptySeq
<1>3. \A v \in V, c \in Free("/") : next[v][c] = Extended(v, c) /\ next[v][c] \in V
  BY ComponentsNextStays DEF ComponentsNext
<1>4. Len(parts) \in Nat /\ \A n \in 1..Len(parts) : parts[n] \in Free("/")
  OBVIOUS
<1>5. Stays(V, Free("/"), next)
  BY <1>3 DEF Stays
<1> HIDE DEF V, base, next
<1>6. \E g : Is(g)
  <2>1. PICK g : IsFold(g, V, base, next, parts)
    BY <1>2, <1>5, FoldExists
  <2>2. g \in [0..Len(parts) -> V] /\ g[0] = base /\ \A n \in 1..Len(parts) : g[n] = next[g[n - 1]][parts[n]]
    BY <2>1 DEF IsFold
  <2> HIDE DEF Extended
  <2>3. ASSUME NEW n \in 0..Len(parts)
        PROVE  g[n] = IF n = 0 THEN base ELSE Extended(g[n - 1], parts[n])
    <3>1. n # 0 => n \in 1..Len(parts) /\ n - 1 \in 0..Len(parts)
      BY <1>4
    <3> QED
      BY <1>3, <1>4, <2>2, <3>1
  <2>4. g = [n \in 0..Len(parts) |-> g[n]]
    BY <2>2
  <2>5. Is(g)
    BY <2>3, <2>4, Zenon
  <2> QED
    BY <2>5
<1>7. Is(f)
  BY <1>6, Zenon
<1> HIDE DEF f, Extended
<1>8. f[0] = base
  BY <1>4, <1>7
<1>9. Follows(f, V, base, next, parts)
  <2> SUFFICES ASSUME NEW n \in 1..Len(parts), f[n - 1] \in V
               PROVE  f[n] = next[f[n - 1]][parts[n]]
    BY <1>8 DEF Follows
  <2>1. n \in 0..Len(parts) /\ n # 0
    BY <1>4
  <2>2. f[n] = Extended(f[n - 1], parts[n])
    BY <1>7, <2>1
  <2> QED
    BY <1>3, <1>4, <2>2
<1> HIDE DEF Is
<1>10. f[Len(parts)] = Fold(V, base, next, parts)
  BY <1>2, <1>5, <1>9, FoldIs
<1> QED
  BY <1>1, <1>10 DEF V, base, next


LEMMA ComponentsAre ==
  ASSUME NEW path \in Seq(Char)
  PROVE  Components(path) \in Seq(Part)
<1> DEFINE parts == Split(path, "/")
           V == Seq(Part)
<1>1. parts \in Seq(Free("/"))
  BY SplitDivides DEF Divided
<1>2. Components(path) = Fold(V, <<>>, ComponentsNext, parts)
  BY <1>1, ComponentsIsFold
<1>3. <<>> \in V /\ Stays(V, Free("/"), ComponentsNext)
  BY ComponentsNextStays DEF Stays
<1> HIDE DEF V, parts
<1>4. Fold(V, <<>>, ComponentsNext, parts) \in V
  BY <1>1, <1>3, FoldStays
<1> QED
  BY <1>2, <1>4 DEF V

-----------------------------------------------------------------------------
\* A prefix is what another text follows, a suffix what follows another text.
LEMMA PrefixIs ==
  ASSUME NEW C, NEW s \in Seq(C), NEW t \in Seq(C)
  PROVE  IsPrefix(s, t) <=> \E u \in Seq(C) : t = s \o u
<1>1. ASSUME NEW u \in Seq(C), t = s \o u
      PROVE  IsPrefix(s, t)
  <2>1. /\ Len(t) = Len(s) + Len(u) /\ Len(s) \in Nat /\ Len(u) \in Nat
        /\ \A i \in 1..Len(s) : t[i] = s[i]
    BY <1>1, ConcatProperties
  <2>2. SubSeq(s, 1, Len(s)) = SubSeq(t, 1, Len(s))
    BY <2>1
  <2> QED
    BY <2>1, <2>2 DEF IsPrefix
<1>2. ASSUME IsPrefix(s, t)
      PROVE  \E u \in Seq(C) : t = s \o u
  <2>1. Len(s) <= Len(t) /\ SubSeq(s, 1, Len(s)) = SubSeq(t, 1, Len(s)) /\ Len(s) \in Nat /\ Len(t) \in Nat
    BY <1>2 DEF IsPrefix
  <2>2. s = SubSeq(t, 1, Len(s))
    BY <2>1, SubSeqFull
  <2>3. SubSeq(t, 1, Len(s)) \o SubSeq(t, Len(s) + 1, Len(t)) = SubSeq(t, 1, Len(t))
    <3>1. 1 \in 1..(Len(t) + 1) /\ Len(s) \in (1 - 1)..Len(t) /\ Len(t) \in Len(s)..Len(t)
      BY <2>1
    <3> QED
      BY <3>1, ConcatAdjacentSubSeq
  <2>4. SubSeq(t, Len(s) + 1, Len(t)) \in Seq(C)
    <3>1. \A i \in (Len(s) + 1)..Len(t) : t[i] \in C
      BY <2>1
    <3> QED
      BY <2>1, <3>1, SubSeqProperties
  <2> QED
    BY <2>2, <2>3, <2>4, SubSeqFull
<1> QED
  BY <1>1, <1>2

LEMMA SuffixIs ==
  ASSUME NEW C, NEW s \in Seq(C), NEW t \in Seq(C)
  PROVE  IsSuffix(s, t) <=> \E u \in Seq(C) : t = u \o s
<1> DEFINE m == Len(s)
           n == Len(t)
           r == Reverse(s)
           q == Reverse(t)
<1>1. m \in Nat /\ n \in Nat
  OBVIOUS
<1>2. /\ r \in Seq(C) /\ Len(r) = m /\ \A i \in 1..m : r[i] = s[m - i + 1]
      /\ q \in Seq(C) /\ Len(q) = n /\ \A i \in 1..n : q[i] = t[n - i + 1]
  BY DEF Reverse
<1> HIDE DEF r, q
<1>3. IsSuffix(s, t) <=> m <= n /\ \A i \in 1..m : r[i] = q[i]
  <2>1. IsSuffix(s, t) <=> m <= n /\ SubSeq(r, 1, m) = SubSeq(q, 1, m)
    BY <1>2 DEF IsSuffix, IsPrefix, r, q
  <2>2. ASSUME m <= n
        PROVE  SubSeq(r, 1, m) = SubSeq(q, 1, m) <=> \A i \in 1..m : r[i] = q[i]
    <3>1. SubSeq(r, 1, m) = r
      BY <1>2, SubSeqFull
    <3>2. \A i \in 1..m : i \in 1..n /\ q[i] \in C
      BY <1>1, <1>2, <2>2
    <3>3. /\ SubSeq(q, 1, m) \in Seq(C)
          /\ Len(SubSeq(q, 1, m)) = m
          /\ \A i \in 1..m : SubSeq(q, 1, m)[i] = q[i]
      BY <1>1, <3>2, SubSeqProperties
    <3> QED
      BY <1>2, <3>1, <3>3, SeqEqual
  <2> QED
    BY <2>1, <2>2
<1>4. IsSuffix(s, t) <=> m <= n /\ \A i \in 1..m : s[i] = t[n - m + i]
  <2>1. ASSUME m <= n
        PROVE  (\A i \in 1..m : r[i] = q[i]) <=> \A i \in 1..m : s[i] = t[n - m + i]
    <3>1. \A i \in 1..m : /\ m - i + 1 \in 1..m /\ m - (m - i + 1) + 1 = i
                          /\ i \in 1..n /\ n - m + (m - i + 1) = n - i + 1
      BY <1>1, <2>1
    <3>2. \A i \in 1..m : r[i] = q[i] <=> s[m - i + 1] = t[n - m + (m - i + 1)]
      BY <1>2, <3>1
    <3>3. ASSUME \A i \in 1..m : r[i] = q[i], NEW i \in 1..m
          PROVE  s[i] = t[n - m + i]
      <4> DEFINE k == m - i + 1
      <4>1. k \in 1..m /\ m - k + 1 = i
        BY <3>1
      <4> HIDE DEF k
      <4> QED
        BY <3>2, <3>3, <4>1
    <3>4. ASSUME \A i \in 1..m : s[i] = t[n - m + i], NEW i \in 1..m
          PROVE  r[i] = q[i]
      <4>1. m - i + 1 \in 1..m
        BY <3>1
      <4> QED
        BY <3>2, <3>4, <4>1
    <3> QED
      BY <3>3, <3>4
  <2> QED
    BY <1>3, <2>1
<1>5. ASSUME NEW u \in Seq(C), t = u \o s
      PROVE  m <= n /\ \A i \in 1..m : s[i] = t[n - m + i]
  <2>1. /\ n = Len(u) + m /\ Len(u) \in Nat
        /\ \A i \in 1..(Len(u) + m) : t[i] = IF i <= Len(u) THEN u[i] ELSE s[i - Len(u)]
    BY <1>5, ConcatProperties
  <2>2. ASSUME NEW i \in 1..m
        PROVE  s[i] = t[n - m + i]
    <3>1. n - m + i \in 1..(Len(u) + m) /\ ~(n - m + i <= Len(u)) /\ (n - m + i) - Len(u) = i
      BY <1>1, <2>1
    <3> QED
      BY <2>1, <3>1
  <2> QED
    BY <1>1, <2>1, <2>2
<1>6. ASSUME m <= n, \A i \in 1..m : s[i] = t[n - m + i]
      PROVE  \E u \in Seq(C) : t = u \o s
  <2> DEFINE u == SubSeq(t, 1, n - m)
  <2>1. u \in Seq(C) /\ Len(u) = n - m /\ \A i \in 1..(n - m) : u[i] = t[i]
    <3>1. \A i \in 1..(n - m) : t[i] \in C
      BY <1>1, <1>6
    <3> QED
      BY <1>1, <1>6, <3>1, SubSeqProperties
  <2> HIDE DEF u
  <2>2. /\ u \o s \in Seq(C) /\ Len(u \o s) = n
        /\ \A i \in 1..n : (u \o s)[i] = IF i <= n - m THEN u[i] ELSE s[i - (n - m)]
    <3>1. Len(u) + Len(s) = n
      BY <1>1, <2>1
    <3> QED
      BY <2>1, <3>1, ConcatProperties
  <2>3. ASSUME NEW i \in 1..n
        PROVE  t[i] = (u \o s)[i]
    <3>1. CASE i <= n - m
      <4>1. i \in 1..(n - m)
        BY <1>1, <3>1
      <4> QED
        BY <2>1, <2>2, <3>1, <4>1
    <3>2. CASE ~(i <= n - m)
      <4>1. i - (n - m) \in 1..m /\ n - m + (i - (n - m)) = i
        BY <1>1, <1>6, <3>2
      <4> QED
        BY <1>6, <2>2, <3>2, <4>1
    <3> QED
      BY <3>1, <3>2
  <2>4. t = u \o s
    BY <2>2, <2>3, SeqEqual
  <2> QED
    BY <2>1, <2>4
<1> QED
  BY <1>4, <1>5, <1>6

LEMMA GreatestOf ==
  ASSUME NEW n \in Nat, NEW S, S \subseteq 0..n, S # {}
  PROVE  Max(S) \in S /\ \A k \in S : k <= Max(S)
<1> DEFINE T == {n - k : k \in S}
<1>0. \A k \in S : k \in 0..n
  OBVIOUS
<1>1. T \subseteq Nat /\ T # {}
  <2>1. \A k \in S : n - k \in Nat
    BY <1>0
  <2> QED
    BY <2>1
<1>2. PICK t \in T : \A k \in T : t <= k
  <2> HIDE DEF T
  <2> QED
    BY <1>1, LeastOfNat
<1>3. PICK m \in S : t = n - m
  BY <1>2
<1>5. \A k \in S : m >= k
  <2>1. TAKE k \in S
  <2>2. n - k \in T
    OBVIOUS
  <2>3. n - m <= n - k
    BY <1>2, <1>3, <2>2
  <2>4. k \in 0..n /\ m \in 0..n
    BY <1>0
  <2> QED
    BY <2>3, <2>4
<1>6. Max(S) = CHOOSE x \in S : \A y \in S : x >= y
  BY DEF Max
<1>7. Max(S) \in S /\ \A y \in S : Max(S) >= y
  BY <1>5, <1>6
<1> QED
  BY <1>7

LEMMA LeastIs ==
  ASSUME NEW S, S \subseteq Nat, S # {}
  PROVE  Min(S) \in S /\ \A k \in S : Min(S) <= k
<1>1. Min(S) = CHOOSE x \in S : \A y \in S : x <= y
  BY DEF Min
<1> QED
  BY <1>1, LeastOfNat

LEMMA RStripIs ==
  ASSUME NEW C, NEW s \in Seq(C), NEW chars
  PROVE  \E k \in 0..Len(s) :
           /\ RStrip(s, chars) = SubSeq(s, 1, k)
           /\ \A i \in (k + 1)..Len(s) : s[i] \in chars
           /\ k > 0 => s[k] \notin chars
<1> DEFINE S == {0} \union {i \in DOMAIN s : s[i] \notin chars}
           k == Max(S)
<1>1. Len(s) \in Nat /\ DOMAIN s = 1..Len(s)
  OBVIOUS
<1>2. S \subseteq 0..Len(s) /\ S # {}
  BY <1>1
<1>3. RStrip(s, chars) = SubSeq(s, 1, k)
  BY DEF RStrip
<1>4. k \in S /\ \A i \in S : i <= k
  <2> HIDE DEF S
  <2> QED
    BY <1>1, <1>2, GreatestOf
<1> HIDE DEF k
<1>5. \A i \in (k + 1)..Len(s) : s[i] \in chars
  BY <1>1, <1>2, <1>4
<1> QED
  BY <1>2, <1>3, <1>4, <1>5

LEMMA LStripIs ==
  ASSUME NEW C, NEW s \in Seq(C), NEW chars
  PROVE  \E k \in 1..(Len(s) + 1) :
           /\ LStrip(s, chars) = SubSeq(s, k, Len(s))
           /\ \A i \in 1..(k - 1) : s[i] \in chars
           /\ k <= Len(s) => s[k] \notin chars
<1> DEFINE S == {Len(s) + 1} \union {i \in DOMAIN s : s[i] \notin chars}
           k == Min(S)
<1>1. Len(s) \in Nat /\ DOMAIN s = 1..Len(s)
  OBVIOUS
<1>2. S \subseteq Nat /\ S # {} /\ S \subseteq 1..(Len(s) + 1)
  BY <1>1
<1>3. LStrip(s, chars) = SubSeq(s, k, Len(s))
  BY DEF LStrip
<1>4. k \in S /\ \A i \in S : k <= i
  <2> HIDE DEF S
  <2> QED
    BY <1>2, LeastIs
<1> HIDE DEF k
<1>5. \A i \in 1..(k - 1) : s[i] \in chars
  BY <1>1, <1>2, <1>4
<1> QED
  BY <1>1, <1>2, <1>3, <1>4, <1>5

\* A text without characters to strip at its end stays as it is.
LEMMA NothingToStrip ==
  ASSUME NEW C, NEW s \in Seq(C), NEW chars, s # <<>>, s[Len(s)] \notin chars
  PROVE  RStrip(s, chars) = s
<1>1. PICK k \in 0..Len(s) : /\ RStrip(s, chars) = SubSeq(s, 1, k)
                             /\ \A i \in (k + 1)..Len(s) : s[i] \in chars
  BY RStripIs
<1>2. Len(s) \in Nat \ {0}
  OBVIOUS
<1>3. k = Len(s)
  <2>1. SUFFICES ASSUME k < Len(s) PROVE FALSE
    BY <1>2
  <2>2. Len(s) \in (k + 1)..Len(s)
    BY <1>2, <2>1
  <2> QED
    BY <1>1, <2>2
<1> QED
  BY <1>1, <1>3, SubSeqFull

LEMMA AllToStrip ==
  ASSUME NEW C, NEW s \in Seq(C), NEW chars, \A i \in 1..Len(s) : s[i] \in chars
  PROVE  RStrip(s, chars) = <<>>
<1>1. PICK k \in 0..Len(s) : /\ RStrip(s, chars) = SubSeq(s, 1, k)
                             /\ k > 0 => s[k] \notin chars
  BY RStripIs
<1>2. Len(s) \in Nat
  OBVIOUS
<1>3. k = 0
  BY <1>1, <1>2
<1> QED
  BY <1>1, <1>3, SubSeqEmpty

-----------------------------------------------------------------------------
\* The joined parts of a path neither begin nor end with a slash.
LEMMA JoinEnds ==
  ASSUME NEW parts \in Seq(Part), parts # <<>>
  PROVE  /\ Join(parts)[1] # "/"
         /\ Join(parts)[Len(Join(parts))] # "/"
<1> DEFINE s == Join(parts)
           n == Len(s)
<1>1. s \in Seq(Char) /\ s # <<>> /\ Split(s, "/") = parts
  BY JoinIsSpelled
<1> HIDE DEF s
<1>2. n \in Nat \ {0} /\ \A i \in 1..n : s[i] \in Char
  BY <1>1
<1>3. \A i \in 1..Len(parts) : parts[i] # <<>>
  BY PartsAre
<1>4. "/" \in Char /\ <<"/">> \in Seq(Char) /\ <<>> \in Seq(Char) /\ <<>> \in Free("/")
  <2>1. "/" \in Char /\ <<"/">> \in Seq(Char)
    BY Zenon, LettersAreChars
  <2>2. <<>> \in Seq(Char) /\ <<>> \in Free("/")
    BY DEF Free
  <2> QED
    BY Zenon, <2>1, <2>2
<1>5. Split(<<>>, "/") = << <<>> >>
  BY SplitOfEmpty
<1>6. ASSUME s[1] = "/"
      PROVE  FALSE
  <2> DEFINE t == SubSeq(s, 2, n)
  <2>1. t \in Seq(Char) /\ Len(t) = n - 1 /\ \A i \in 1..(n - 1) : t[i] = s[i + 1]
    <3>1. \A i \in 2..n : s[i] \in Char
      BY <1>2
    <3>2. /\ t \in Seq(Char) /\ Len(t) = IF 2 <= n THEN n - 2 + 1 ELSE 0
          /\ \A i \in 1..(n - 2 + 1) : t[i] = s[2 + i - 1]
      BY <1>2, <3>1, SubSeqProperties
    <3> HIDE DEF t
    <3>0. n \in Nat \ {0} /\ (n - 2 + 1 = n - 1) /\ \A i \in 1..(n - 2 + 1) : 2 + i - 1 = i + 1
      BY <1>2
    <3> HIDE DEF n
    <3>3. Len(t) = n - 1
      BY <3>0, <3>2
    <3>4. \A i \in 1..(n - 1) : t[i] = s[i + 1]
      BY <1>2, <3>2
    <3> QED
      BY <3>2, <3>3, <3>4
  <2> HIDE DEF t
  <2>2. s = <<>> \o <<"/">> \o t
    <3> DEFINE u == <<"/">> \o t
    <3>1. <<>> \o <<"/">> = <<"/">>
      OBVIOUS
    <3>2. u \in Seq(Char) /\ Len(u) = n /\ \A i \in 1..n : u[i] = IF i <= 1 THEN "/" ELSE t[i - 1]
      BY <1>2, <1>4, <2>1
    <3> HIDE DEF u
    <3>3. \A i \in 1..n : u[i] = s[i]
      BY <1>2, <1>6, <2>1, <3>2
    <3>4. u = s
      BY <1>1, <3>2, <3>3, SeqEqual
    <3> QED
      BY <3>1, <3>4 DEF u
  <2>3. parts = << <<>> >> \o Split(t, "/")
    <3>1. Split(<<>> \o <<"/">> \o t, "/") = Split(<<>>, "/") \o Split(t, "/")
      BY <1>4, <2>1, SplitConcat
    <3> QED
      BY <1>1, <1>5, <2>2, <3>1
  <2>4. Split(t, "/") \in Seq(Free("/"))
    BY <2>1, SplitDivides DEF Divided
  <2>5. parts[1] = <<>> /\ Len(parts) >= 1
    BY <1>4, <2>3, <2>4
  <2> QED
    BY <1>3, <2>5
<1>7. ASSUME s[n] = "/"
      PROVE  FALSE
  <2> DEFINE t == SubSeq(s, 1, n - 1)
  <2>1. t \in Seq(Char) /\ Len(t) = n - 1 /\ \A i \in 1..(n - 1) : t[i] = s[i]
    <3>1. \A i \in 1..(n - 1) : s[i] \in Char
      BY <1>2
    <3>2. /\ t \in Seq(Char) /\ Len(t) = IF 1 <= n - 1 THEN (n - 1) - 1 + 1 ELSE 0
          /\ \A i \in 1..((n - 1) - 1 + 1) : t[i] = s[1 + i - 1]
      BY <1>2, <3>1, SubSeqProperties
    <3> HIDE DEF t
    <3>3. n \in Nat \ {0} /\ \A i \in 1..(n - 1) : 1 + i - 1 = i
      BY <1>2
    <3> HIDE DEF n
    <3> QED
      BY <3>2, <3>3
  <2> HIDE DEF t
  <2>2. s = Append(t, "/")
    <3> DEFINE u == Append(t, "/")
    <3>1. u \in Seq(Char) /\ Len(u) = n /\ \A i \in 1..n : u[i] = IF i = n THEN "/" ELSE t[i]
      BY <1>2, <1>4, <2>1
    <3> HIDE DEF u
    <3>2. \A i \in 1..n : u[i] = s[i]
      BY <1>2, <1>7, <2>1, <3>1
    <3>3. u = s
      BY <1>1, <3>1, <3>2, SeqEqual
    <3> QED
      BY <3>3 DEF u
  <2>3. PICK front \in Seq(Free("/")), last \in Free("/") : Split(t, "/") = Append(front, last)
    BY <2>1, SplitDivides, LastOfDivided
  <2>4. parts = Append(Append(front, last), <<>>)
    <3>1. parts = SplitNext("/")[Split(t, "/")]["/"]
      BY <1>1, <1>4, <2>1, <2>2, SplitOfAppend
    <3>2. ASSUME NEW c \in Char, c = "/"
          PROVE  SplitNext("/")[Append(front, last)][c] = Append(Append(front, last), <<>>)
      BY ONLY <3>2, SplitNextAtEnd
    <3>3. SplitNext("/")[Append(front, last)]["/"] = Append(Append(front, last), <<>>)
      BY <1>4, <3>2
    <3> QED
      BY <2>3, <3>1, <3>3
  <2>5. Append(front, last) \in Seq(Free("/"))
    BY AppendProperties
  <2>6. parts[Len(parts)] = <<>> /\ Len(parts) \in 1..Len(parts)
    BY <1>4, <2>4, <2>5
  <2> QED
    BY <1>3, <2>6
<1> QED
  BY <1>6, <1>7 DEF s

Slashes == {<<"/">>, <<"/", "/">>}

LEMMA SlashesAre ==
  ASSUME NEW a \in Slashes
  PROVE  /\ a \in Seq(Char) /\ Len(a) \in 1..2
         /\ \A i \in 1..Len(a) : a[i] = "/"
<1>1. "/" \in Char
  BY Zenon, LettersAreChars
<1>2. CASE a = <<"/">>
  BY <1>1, <1>2
<1>3. CASE a = <<"/", "/">>
  BY <1>1, <1>3
<1> QED
  BY <1>2, <1>3 DEF Slashes

LEMMA SameSlashes ==
  ASSUME NEW a \in Slashes, NEW b \in Slashes, Len(a) = Len(b)
  PROVE  a = b
BY DEF Slashes

LEMMA SlashesOfPath ==
  ASSUME NEW path
  PROVE  LeadingSlashes(path) \in Slashes
BY DEF LeadingSlashes, Slashes

\* What follows the leading slashes is told from them.
LEMMA SlashesCancel ==
  ASSUME NEW a \in Slashes, NEW b \in Slashes, NEW u \in Seq(Char), NEW w \in Seq(Char),
         u # <<>>, u[1] # "/", w # <<>> => w[1] # "/", b \o w = a \o u
  PROVE  a = b /\ w = u
<1>1. /\ a \in Seq(Char) /\ Len(a) \in 1..2 /\ \A i \in 1..Len(a) : a[i] = "/"
      /\ b \in Seq(Char) /\ Len(b) \in 1..2 /\ \A i \in 1..Len(b) : b[i] = "/"
  BY SlashesAre
<1> DEFINE s == a \o u
<1>2. /\ s \in Seq(Char) /\ Len(s) = Len(a) + Len(u) /\ Len(s) = Len(b) + Len(w)
      /\ Len(u) \in Nat \ {0} /\ Len(w) \in Nat
      /\ \A i \in 1..Len(s) : s[i] = IF i <= Len(a) THEN a[i] ELSE u[i - Len(a)]
  BY <1>1
<1>3. \A i \in 1..Len(s) : s[i] = IF i <= Len(b) THEN b[i] ELSE w[i - Len(b)]
  <2> DEFINE t == b \o w
  <2>1. \A i \in 1..Len(t) : t[i] = IF i <= Len(b) THEN b[i] ELSE w[i - Len(b)]
    BY <1>1
  <2>2. t = s
    OBVIOUS
  <2> QED
    BY <2>1, <2>2
<1> HIDE DEF s
<1>4. Len(a) = Len(b)
  <2>1. ASSUME Len(a) = 1, Len(b) = 2
        PROVE  FALSE
    <3>1. s[2] = u[1] /\ s[2] = "/"
      BY <1>1, <1>2, <1>3, <2>1
    <3> QED
      BY <3>1
  <2>2. ASSUME Len(a) = 2, Len(b) = 1
        PROVE  FALSE
    <3>1. Len(w) >= 1 /\ 2 \in 1..Len(s)
      BY <1>2, <2>2
    <3>2. s[2] = w[1] /\ s[2] = "/"
      BY <1>1, <1>2, <1>3, <2>2, <3>1
    <3>3. w # <<>>
      BY <3>1
    <3> QED
      BY <3>2, <3>3
  <2> QED
    BY <1>1, <2>1, <2>2
<1>5. a = b
  BY <1>4, SameSlashes
<1>6. Len(w) = Len(u)
  BY <1>1, <1>2, <1>5
<1>7. \A i \in 1..Len(u) : w[i] = u[i]
  <2>1. TAKE i \in 1..Len(u)
  <2> DEFINE k == i + Len(a)
  <2>2. k \in 1..Len(s) /\ k > Len(a) /\ k - Len(a) = i /\ k > Len(b) /\ k - Len(b) = i
    BY <1>1, <1>2, <1>5
  <2> HIDE DEF k
  <2>3. Len(a) \in Int /\ Len(b) \in Int /\ k \in Int
    BY <1>1, <2>2
  <2>4. s[k] = u[k - Len(a)] /\ s[k] = w[k - Len(b)]
    BY <1>2, <1>3, <2>2, <2>3
  <2> QED
    BY <2>2, <2>4
<1> QED
  BY <1>5, <1>6, <1>7, SeqEqual

\* What a root is compared by: its path without slashes at the end.
LEMMA TargetIs ==
  ASSUME NEW root \in Seq(Char)
  PROVE  /\ Components(root) = <<>> => RStrip(LexicalAbs(root), {"/"}) = <<>>
         /\ Components(root) # <<>> => RStrip(LexicalAbs(root), {"/"}) = LexicalAbs(root)
<1> DEFINE a == LeadingSlashes(root)
           R == Components(root)
           j == Join(R)
           s == LexicalAbs(root)
<1>1. a \in Slashes /\ R \in Seq(Part)
  BY SlashesOfPath, ComponentsAre
<1>2. s = a \o j
  BY DEF LexicalAbs
<1> HIDE DEF a, R, s
<1>3. a \in Seq(Char) /\ Len(a) \in 1..2 /\ \A i \in 1..Len(a) : a[i] = "/"
  BY <1>1, SlashesAre
<1>4. ASSUME R = <<>>
      PROVE  RStrip(s, {"/"}) = <<>>
  <2>1. j = <<>>
    BY <1>4, JoinOfAppend, EmptySeq
  <2>2. s = a
    BY <1>2, <1>3, <2>1, ConcatEmptySeq
  <2> QED
    BY <1>3, <2>2, AllToStrip
<1>5. ASSUME R # <<>>
      PROVE  RStrip(s, {"/"}) = s
  <2>1. j \in Seq(Char) /\ j # <<>> /\ j[Len(j)] # "/"
    BY <1>1, <1>5, JoinIsSpelled, JoinEnds
  <2> HIDE DEF j
  <2>2. s \in Seq(Char) /\ s # <<>> /\ s[Len(s)] = j[Len(j)]
    BY <1>2, <1>3, <2>1
  <2> QED
    BY <2>1, <2>2, NothingToStrip
<1> QED
  BY <1>4, <1>5 DEF R, s

LEMMA ConcatIsSeq ==
  ASSUME NEW C, NEW s \in Seq(C), NEW t \in Seq(C)
  PROVE  s \o t \in Seq(C)
BY ConcatProperties

LEMMA CancelLeft ==
  ASSUME NEW C, NEW s \in Seq(C), NEW t \in Seq(C), NEW v \in Seq(C), s \o t = s \o v
  PROVE  t = v
<1>1. Len(t) = Len(v)
  <2>1. Len(s \o t) = Len(s) + Len(t) /\ Len(s \o v) = Len(s) + Len(v)
    BY ConcatProperties
  <2> QED
    BY <2>1
<1>2. \A i \in 1..Len(t) : t[i] = v[i]
  <2>1. TAKE i \in 1..Len(t)
  <2>2. (s \o t)[i + Len(s)] = t[i] /\ (s \o v)[i + Len(s)] = v[i]
    BY <1>1
  <2> QED
    BY <2>2
<1> QED
  BY <1>1, <1>2, SeqEqual

\* A text below a root, as the root and what follows it.
Lies(C, a, j, slash, u, below, v, su) ==
  /\ a \in Seq(C) /\ j \in Seq(C) /\ slash \in Seq(C) /\ u \in Seq(C)
  /\ below = (a \o j) \o slash /\ v = (j \o slash) \o u /\ su = slash \o u

LEMMA BelowIs ==
  ASSUME NEW C, NEW a, NEW j, NEW slash, NEW u, NEW below, NEW v, NEW su,
         Lies(C, a, j, slash, u, below, v, su)
  PROVE  below \o u = a \o v /\ v = j \o su
<1> DEFINE js == j \o slash
<1>1. /\ a \in Seq(C) /\ j \in Seq(C) /\ slash \in Seq(C) /\ u \in Seq(C)
      /\ below = (a \o j) \o slash /\ v = js \o u /\ su = slash \o u
  BY DEF Lies
<1>2. js \in Seq(C)
  BY <1>1, ConcatIsSeq
<1>3. (a \o j) \o slash = a \o js
  <2>1. Three(C, a, j, slash)
    BY <1>1 DEF Three
  <2> QED
    BY <2>1, ConcatThree
<1>4. js \o u = j \o su
  <2>1. Three(C, j, slash, u)
    BY <1>1 DEF Three
  <2>2. (j \o slash) \o u = j \o (slash \o u)
    BY <2>1, ConcatThree
  <2> QED
    BY <1>1, <2>2
<1> HIDE DEF js
<1>5. (a \o js) \o u = a \o (js \o u)
  <2>1. Three(C, a, js, u)
    BY <1>1, <1>2 DEF Three
  <2> QED
    BY <2>1, ConcatThree
<1> QED
  BY <1>1, <1>3, <1>4, <1>5

Cancels(C, s, j, w, v) ==
  /\ s \in Seq(C) /\ j \in Seq(C) /\ w \in Seq(C) /\ v \in Seq(C)
  /\ s \o w = (s \o j) \o v

LEMMA CancelTwo ==
  ASSUME NEW C, NEW s, NEW j, NEW w, NEW v, Cancels(C, s, j, w, v)
  PROVE  w = j \o v
<1> DEFINE jv == j \o v
<1>1. s \in Seq(C) /\ j \in Seq(C) /\ w \in Seq(C) /\ v \in Seq(C) /\ s \o w = (s \o j) \o v
  BY DEF Cancels
<1>2. jv \in Seq(C) /\ (s \o j) \o v = s \o jv
  <2>1. Three(C, s, j, v)
    BY <1>1 DEF Three
  <2> QED
    BY <1>1, <2>1, ConcatThree, ConcatIsSeq
<1> HIDE DEF jv
<1>3. s \o w = s \o jv
  BY <1>1, <1>2
<1>4. w = jv
  BY <1>1, <1>2, <1>3, CancelLeft
<1> QED
  BY <1>4 DEF jv

LEMMA WithinIs ==
  ASSUME NEW root \in Seq(Char), NEW path \in Seq(Char)
  PROVE  Within(LexicalAbs(root), LexicalAbs(path)) <=>
           \/ Components(root) = <<>>
           \/ /\ LeadingSlashes(root) = LeadingSlashes(path)
              /\ IsPrefix(Components(root), Components(path))
<1> DEFINE a == LeadingSlashes(root)
           b == LeadingSlashes(path)
           R == Components(root)
           W == Components(path)
           j == Join(R)
           w == Join(W)
           target == RStrip(LexicalAbs(root), {"/"})
           actual == LexicalAbs(path)
           slash == <<"/">>
           below == target \o slash
<1>1. /\ a \in Slashes /\ b \in Slashes /\ R \in Seq(Part) /\ W \in Seq(Part)
  BY SlashesOfPath, ComponentsAre
<1>2. LexicalAbs(root) = a \o j /\ actual = b \o w
  BY DEF LexicalAbs
<1>3. /\ R = <<>> => target = <<>>
      /\ R # <<>> => target = a \o j
  BY <1>2, TargetIs
<1>4. Within(LexicalAbs(root), actual) <=> actual = target \/ IsPrefix(below, actual)
  BY DEF Within
<1> HIDE DEF a, b, R, W, target, actual
<1>5. j \in Seq(Char) /\ w \in Seq(Char)
  <2>1. R \in Seq(Seq(Char)) /\ W \in Seq(Seq(Char))
    BY <1>1, PartsAre
  <2> QED
    BY <2>1, JoinOfAppend, EmptySeq
<1>6. R # <<>> => j # <<>> /\ j[1] # "/" /\ Split(j, "/") = R
  BY <1>1, JoinIsSpelled, JoinEnds
<1>7. /\ W # <<>> => w[1] # "/" /\ Split(w, "/") = W
      /\ W = <<>> => w = <<>>
  <2>1. Join(<<>>) = <<>>
    BY JoinOfAppend, EmptySeq
  <2> QED
    BY <1>1, <2>1, JoinIsSpelled, JoinEnds
<1> HIDE DEF j, w
<1>8. a \in Seq(Char) /\ b \in Seq(Char)
  BY <1>1, SlashesAre
<1>9. slash \in Seq(Char) /\ "/" \in Char
  BY LettersAreChars
<1> HIDE DEF slash
<1>10. target \in Seq(Char) /\ actual \in Seq(Char) /\ below \in Seq(Char)
  <2>1. actual \in Seq(Char) /\ target \in Seq(Char)
    <3>1. a \o j \in Seq(Char) /\ b \o w \in Seq(Char) /\ <<>> \in Seq(Char)
      BY <1>5, <1>8, ConcatIsSeq, EmptySeq
    <3> QED
      BY <1>2, <1>3, <3>1
  <2> QED
    BY <1>9, <2>1, ConcatProperties
<1> HIDE DEF below
<1>11. CASE R = <<>>
  <2>1. below = slash
    BY <1>3, <1>9, <1>11 DEF below
  <2>2. \E u \in Seq(Char) : actual = slash \o u
    <3>1. CASE b = slash
      BY <1>2, <1>5, <3>1
    <3>2. CASE b = <<"/", "/">>
      <4> DEFINE u == slash \o w
      <4>1. b = slash \o slash
        BY <3>2 DEF slash
      <4>2. u \in Seq(Char) /\ (slash \o slash) \o w = slash \o u
        <5>1. Three(Char, slash, slash, w)
          BY <1>5, <1>9 DEF Three
        <5> QED
          BY <1>5, <1>9, <5>1, ConcatThree, ConcatIsSeq
      <4> QED
        BY <1>2, <4>1, <4>2
    <3> QED
      BY <1>1, <3>1, <3>2 DEF Slashes, slash
  <2>3. IsPrefix(below, actual)
    BY <1>9, <1>10, <2>1, <2>2, PrefixIs
  <2> QED
    BY <1>4, <1>11, <2>3 DEF R, actual
<1>12. CASE R # <<>>
  <2>1. target = a \o j
    BY <1>3, <1>12
  <2>2. ASSUME NEW u \in Seq(Char), u # <<>>, u[1] # "/", actual = a \o u
        PROVE  a = b /\ w = u /\ W # <<>>
    <3>1. w # <<>> => w[1] # "/"
      BY <1>7
    <3>2. a = b /\ w = u
      BY <1>1, <1>2, <1>5, <2>2, <3>1, SlashesCancel
    <3> QED
      BY <1>7, <2>2, <3>2
  <2>3. ASSUME actual = target
        PROVE  a = b /\ IsPrefix(R, W)
    <3>1. a = b /\ w = j /\ W # <<>>
      BY <1>5, <1>6, <1>12, <2>1, <2>2, <2>3
    <3>2. W = R
      BY <1>6, <1>7, <1>12, <3>1
    <3>3. <<>> \in Seq(Part) /\ R \o <<>> = R
      BY <1>1, ConcatEmptySeq
    <3> QED
      BY <1>1, <3>1, <3>2, <3>3, PrefixIs
  <2>4. ASSUME IsPrefix(below, actual)
        PROVE  a = b /\ IsPrefix(R, W)
    <3>1. PICK u \in Seq(Char) : actual = below \o u
      BY <1>10, <2>4, PrefixIs
    <3> DEFINE js == j \o slash
               v == js \o u
               su == slash \o u
    <3>2. v \in Seq(Char) /\ v # <<>> /\ v[1] = j[1]
      BY <1>5, <1>6, <1>9, <1>12
    <3>3. actual = a \o v
      <4> HIDE DEF v, js, su
      <4>1. Lies(Char, a, j, slash, u, below, v, su)
        BY <1>5, <1>8, <1>9, <2>1 DEF Lies, below, js, su, v
      <4>2. below \o u = a \o v
        BY <4>1, BelowIs
      <4> QED
        BY <3>1, <4>2
    <3>4. Split(v, "/") = R \o Split(u, "/")
      <4>1. Split((j \o slash) \o u, "/") = Split(j, "/") \o Split(u, "/")
        BY <1>5, <1>9, SplitConcat DEF slash
      <4> QED
        BY <1>6, <1>12, <4>1
    <3> HIDE DEF v
    <3>5. a = b /\ w = v /\ W # <<>>
      BY <1>6, <1>12, <2>2, <3>2, <3>3
    <3>6. W = R \o Split(u, "/") /\ Split(u, "/") \in Seq(Free("/"))
      BY <1>7, <3>4, <3>5, SplitDivides DEF Divided
    <3>7. R \in Seq(Free("/")) /\ W \in Seq(Free("/"))
      BY <1>1, PartsAre
    <3> QED
      BY <3>5, <3>6, <3>7, PrefixIs
  <2>5. ASSUME a = b, IsPrefix(R, W)
        PROVE  actual = target \/ IsPrefix(below, actual)
    <3>1. PICK X \in Seq(Part) : W = R \o X
      BY <1>1, <2>5, PrefixIs
    <3>2. CASE X = <<>>
      <4>1. W = R
        BY <1>1, <3>1, <3>2, ConcatEmptySeq
      <4> QED
        BY <1>2, <2>1, <2>5, <4>1 DEF j, w
    <3>3. CASE X # <<>>
      <4> DEFINE x == Join(X)
      <4>1. x \in Seq(Char) /\ Split(x, "/") = X
        BY <3>3, JoinIsSpelled
      <4> HIDE DEF x
      <4>2. R \in Seq(Seq(Char)) /\ X \in Seq(Seq(Char)) /\ W # <<>>
        <5>1. R \in Seq(Seq(Char)) /\ X \in Seq(Seq(Char))
          BY <1>1, PartsAre
        <5> QED
          BY <1>1, <1>12, <3>1, <5>1, ConcatEqualIffEmpty
      <4>3. /\ Spelled(R, "/") = slash \o j /\ Spelled(X, "/") = slash \o x
            /\ Spelled(W, "/") = slash \o w
        BY <1>5, <1>6, <1>7, <1>9, <1>12, <4>1, <4>2, SplitIsSpelled DEF slash
      <4>4. Spelled(W, "/") = Spelled(R, "/") \o Spelled(X, "/")
        BY <1>9, <3>1, <4>2, SpelledConcat
      <4> DEFINE v == slash \o x
      <4>5. v \in Seq(Char) /\ slash \o w = (slash \o j) \o v
        BY <1>9, <4>1, <4>3, <4>4, ConcatProperties
      <4> HIDE DEF v
      <4>6. Cancels(Char, slash, j, w, v)
        BY <1>5, <1>9, <4>5 DEF Cancels
      <4>7. w = j \o v
        BY <4>6, CancelTwo
      <4>8. actual = below \o x
        <5> DEFINE js == j \o slash
                   jsx == js \o x
        <5> HIDE DEF js, jsx
        <5>1. Lies(Char, a, j, slash, x, below, jsx, v)
          BY <1>5, <1>8, <1>9, <2>1, <4>1 DEF Lies, below, js, jsx, v
        <5>2. below \o x = a \o jsx
          BY <5>1, BelowIs
        <5>3. jsx = j \o v
          BY <5>1, BelowIs
        <5> QED
          BY <1>2, <2>5, <4>7, <5>2, <5>3
      <4> QED
        BY <1>10, <4>1, <4>8, PrefixIs
    <3> QED
      BY <3>2, <3>3
  <2>6. (actual = target \/ IsPrefix(below, actual)) <=> (a = b /\ IsPrefix(R, W))
    BY <2>3, <2>4, <2>5
  <2> QED
    BY <1>4, <1>12, <2>6 DEF R, W, a, b, actual
<1> QED
  BY <1>11, <1>12

\* A domain is a suffix itself or below it iff its labels end with the suffix's.
LEMMA BelowDomain ==
  ASSUME NEW f \in Seq(Char), NEW x \in Seq(Char)
  PROVE  (x = f \/ IsSuffix(<<".">> \o f, x)) <=> IsSuffix(Split(f, "."), Split(x, "."))
<1> DEFINE dot == <<".">>
           F == Free(".")
           v == dot \o f
           below == Split(f, ".")
           labels == Split(x, ".")
<1>1. dot \in Seq(Char) /\ "." \in Char
  BY LettersAreChars
<1>2. below \in Seq(F) /\ labels \in Seq(F)
  BY SplitDivides DEF Divided
<1> HIDE DEF dot
<1>3. v \in Seq(Char)
  BY <1>1, ConcatIsSeq
<1>4. ASSUME x = f
      PROVE  IsSuffix(below, labels)
  <2>1. <<>> \in Seq(F) /\ labels = <<>> \o below
    BY <1>2, <1>4, ConcatEmptySeq
  <2> HIDE DEF below, labels
  <2> QED
    BY <1>2, <2>1, SuffixIs
<1>5. ASSUME IsSuffix(v, x)
      PROVE  IsSuffix(below, labels)
  <2>1. PICK u \in Seq(Char) : x = u \o v
    <3> HIDE DEF v
    <3> QED
      BY <1>3, <1>5, SuffixIs
  <2>2. u \o v = (u \o dot) \o f
    <3>0. Three(Char, u, dot, f)
      BY <1>1 DEF Three
    <3>1. (u \o dot) \o f = u \o (dot \o f)
      BY <3>0, ConcatThree
    <3> QED
      BY <3>1
  <2>3. Split((u \o dot) \o f, ".") = Split(u, ".") \o Split(f, ".")
    BY <1>1, SplitConcat DEF dot
  <2>4. Split(u, ".") \in Seq(F) /\ labels = Split(u, ".") \o below
    BY <2>1, <2>2, <2>3, SplitDivides DEF Divided
  <2> HIDE DEF below, labels
  <2> QED
    BY <1>2, <2>4, SuffixIs
<1>6. ASSUME IsSuffix(below, labels)
      PROVE  x = f \/ IsSuffix(v, x)
  <2>1. PICK Q \in Seq(F) : labels = Q \o below
    <3> HIDE DEF below, labels
    <3> QED
      BY <1>2, <1>6, SuffixIs
  <2>2. Spelled(below, ".") = dot \o f /\ Spelled(labels, ".") = dot \o x
    BY <1>1, SplitIsSpelled DEF dot
  <2> HIDE DEF below, labels
  <2>3. CASE Q = <<>>
    <3>1. labels = below
      BY <1>2, <2>1, <2>3, ConcatEmptySeq
    <3>2. dot \o x = dot \o f
      BY <2>2, <3>1
    <3> QED
      BY <1>1, <3>2, CancelLeft
  <2>4. CASE Q # <<>>
    <3>1. Q \in Divided(".")
      BY <2>4 DEF Divided
    <3>2. PICK p \in Seq(Char) : Spelled(Q, ".") = dot \o p
      BY <1>1, <3>1, SpelledIsSplit DEF dot
    <3>3. Q \in Seq(Seq(Char)) /\ below \in Seq(Seq(Char))
      <4>1. F \subseteq Seq(Char)
        BY DEF Free
      <4> HIDE DEF F
      <4> QED
        BY <1>2, <4>1
    <3>4. Spelled(labels, ".") = Spelled(Q, ".") \o Spelled(below, ".")
      BY <1>1, <2>1, <3>3, SpelledConcat
    <3>5. dot \o x = (dot \o p) \o v
      BY <2>2, <3>2, <3>4
    <3> HIDE DEF v
    <3>6. Cancels(Char, dot, p, x, v)
      BY <1>1, <1>3, <3>2, <3>5 DEF Cancels
    <3>7. x = p \o v
      BY <3>6, CancelTwo
    <3> QED
      BY <1>3, <3>2, <3>7, SuffixIs
  <2> QED
    BY <2>3, <2>4
<1> QED
  BY <1>4, <1>5, <1>6 DEF dot

LEMMA LowerIsText ==
  ASSUME NEW s \in Seq(Char)
  PROVE  Lower(s) \in Seq(Char)
<1>1. "a" \in Char
  BY DEF Char
<1>2. DOMAIN s = 1..Len(s) /\ Len(s) \in Nat /\ \A i \in DOMAIN s : s[i] \in Char
  OBVIOUS
<1>3. Lower(s) \in [1..Len(s) -> Char]
  BY <1>1, <1>2 DEF Lower
<1> QED
  BY <1>2, <1>3

LEMMA LastIsText ==
  ASSUME NEW s \in Seq(Char), NEW separator
  PROVE  Last(Split(s, separator)) \in Seq(Char)
<1>1. PICK front \in Seq(Free(separator)), last \in Free(separator) : Split(s, separator) = Append(front, last)
  BY SplitDivides, LastOfDivided
<1>2. Last(Append(front, last)) = last
  BY DEF Last
<1> QED
  BY <1>1, <1>2 DEF Free

-----------------------------------------------------------------------------
\* p is a matcher of operator with a single field, the k-th of the operator's,
\* of this name and type.
OneField(p, operator, k, name, type) ==
  /\ p.operator = operator /\ operator \in DOMAIN Fields /\ k \in DOMAIN Fields[operator]
  /\ Fields[operator][k][1] = name /\ Fields[operator][k][2] = type
  /\ DOMAIN p.fields = {name} /\ Usable(type, p.fields[name])

\* It raises when the value has the right shape and its condition raises, and
\* otherwise answers yes when the condition holds.
LEMMA MatchOfOne ==
  ASSUME NEW p, NEW v, NEW operator, NEW k, NEW name, NEW type, OneField(p, operator, k, name, type)
  PROVE  LET x == Subject(operator, v)
             raises == Raises(name, type, p.fields[name], x)
         IN /\ Match(p, v) = "raises" <=> x # None /\ raises
            /\ Match(p, v) = "yes" <=> x # None /\ ~raises /\ Holds(operator, name, p.fields[name], x)
<1> DEFINE fields == Fields[p.operator]
           expected(i) == p.fields[fields[i][1]]
           x == Subject(p.operator, v)
           raises(i) == Raises(fields[i][1], fields[i][2], expected(i), x)
           fails == {i \in DOMAIN fields :
                       /\ fields[i][1] \in DOMAIN p.fields
                       /\ raises(i) \/ ~Holds(p.operator, fields[i][1], expected(i), x)}
           first == CHOOSE i \in fails : \A j \in fails : i <= j
<1>1. Match(p, v) = IF x = None THEN "no"
                    ELSE IF fails = {} THEN "yes"
                    ELSE IF raises(first) THEN "raises" ELSE "no"
  BY DEF Match
<1>2. \A i \in DOMAIN fields : fields[i][1] \in DOMAIN p.fields <=> i = k
  BY FieldsAreNamedOnce DEF OneField
<1>3. raises(k) <=> Raises(name, type, p.fields[name], x)
  BY DEF OneField
<1>4. fails = {} <=> /\ ~Raises(name, type, p.fields[name], x)
                     /\ Holds(operator, name, p.fields[name], x)
  BY <1>2, <1>3 DEF OneField
<1>5. x = Subject(operator, v)
  BY DEF OneField
<1>6. raises(k) => fails # {}
  BY <1>2 DEF OneField
<1>7. ASSUME fails # {}
      PROVE  first = k
  <2>1. fails = {k}
    BY <1>2, <1>7
  <2>2. DOMAIN fields \subseteq Nat
    BY DEF OneField, Fields
  <2>3. k \in Nat
    BY <2>2 DEF OneField
  <2> HIDE DEF fails
  <2> QED
    BY <2>1, <2>3
<1> HIDE DEF x, fails, first, raises
<1> QED
  BY <1>1, <1>3, <1>4, <1>5, <1>6, <1>7

LEMMA MatchIsYes ==
  ASSUME NEW p, NEW v, NEW operator, NEW k, NEW name, NEW type, OneField(p, operator, k, name, type),
         name # "deny_private_networks"
  PROVE  Match(p, v) = "yes" <=>
           Subject(operator, v) # None /\ Holds(operator, name, p.fields[name], Subject(operator, v))
<1>1. ~Raises(name, type, p.fields[name], Subject(operator, v))
  BY DEF Raises, OneField
<1> QED
  BY <1>1, MatchOfOne

-----------------------------------------------------------------------------
\* What check was asked, and that its exit code is the answer.
Posed ==
  command = "check" =>
    \E q \in Asked : \E expected \in q.expected, value \in q.values :
      asked = [pattern |-> [operator |-> q.operator, fields |-> [name \in {q.field} |-> expected]],
               value |-> value]

Answered ==
  Checked =>
    /\ exit \in {0, 1, 2, 4}
    /\ exit # 2 <=> Compile(asked.pattern)
    /\ exit # 2 => /\ exit = 0 <=> Match(asked.pattern, asked.value) = "yes"
                   /\ exit = 1 <=> Match(asked.pattern, asked.value) = "raises"

CheckInv == Posed /\ Answered

LEMMA CheckInvInit == Init => CheckInv
<1>1. ASSUME Init
      PROVE  Posed
  BY <1>1, Zenon DEF Init, Posed
<1>2. ASSUME Init
      PROVE  ~Checked
  BY <1>2 DEF Init, Checked, NoBenchmark
<1> QED
  BY <1>1, <1>2 DEF CheckInv, Answered

LEMMA CheckInvStep == CheckInv /\ [Next]_allVars => CheckInv'
<1> SUFFICES ASSUME CheckInv, [Next]_allVars
             PROVE  CheckInv'
  OBVIOUS
<1> USE DEF CheckInv
<1>1. asked' = asked /\ command' = command
  BY DEF Next, allVars, cliVars, Check, PolicyLint, Doctor, Benchmark, Exits
<1>2. Posed'
  BY <1>1 DEF Posed
<1>3. CASE Check
  <2>1. exit' = IF ~Compile(asked.pattern) THEN 2
                ELSE CASE Match(asked.pattern, asked.value) = "yes" -> 0
                       [] Match(asked.pattern, asked.value) = "no" -> 4
                       [] OTHER -> 1
    BY <1>3 DEF Check, Exits
  <2>2. Match(asked.pattern, asked.value) \in {"yes", "no", "raises"}
    BY Zenon DEF Match
  <2>3. exit' \in {0, 1, 2, 4}
    BY <2>1, <2>2
  <2>4. exit' # 2 <=> Compile(asked.pattern)
    BY <2>1, <2>2
  <2>5. exit' # 2 => /\ exit' = 0 <=> Match(asked.pattern, asked.value) = "yes"
                     /\ exit' = 1 <=> Match(asked.pattern, asked.value) = "raises"
    BY <2>1, <2>2
  <2> QED
    BY <1>1, <1>2, <2>3, <2>4, <2>5 DEF Answered
<1>4. CASE PolicyLint \/ Doctor \/ Benchmark
  <2>1. command # "check"
    BY <1>4 DEF PolicyLint, Doctor, Benchmark, Runs
  <2> QED
    BY <1>1, <1>2, <2>1 DEF Answered, Checked
<1>5. CASE UNCHANGED allVars
  BY <1>1, <1>2, <1>5 DEF allVars, benchmarkVars, Answered, Checked
<1> QED
  BY <1>3, <1>4, <1>5 DEF Next

LEMMA CheckInvariant == Spec => []CheckInv
BY CheckInvInit, CheckInvStep, PTL DEF Spec

\* The single field of a matcher that check was asked about, and its texts.
LEMMA AskedIs ==
  ASSUME CheckInv, NEW operator, NEW field, Asks(operator, field)
  PROVE  /\ asked.pattern.operator = operator
         /\ DOMAIN asked.pattern.fields = {field}
         /\ asked.value.kind = "text" /\ asked.value.text \in Seq(Char)
         /\ asked.pattern.fields[field].kind = "text" => asked.pattern.fields[field].text \in Seq(Char)
<1>1. command = "check"
  BY DEF Asks, Checked
<1>2. PICK q \in Asked : \E e \in q.expected, w \in q.values :
        asked = [pattern |-> [operator |-> q.operator, fields |-> [name \in {q.field} |-> e]], value |-> w]
  BY <1>1 DEF CheckInv, Posed
<1>3. PICK e \in q.expected, w \in q.values :
        asked = [pattern |-> [operator |-> q.operator, fields |-> [name \in {q.field} |-> e]], value |-> w]
  BY <1>2
<1>4. asked.value = w /\ asked.pattern.fields = [x \in {q.field} |-> e]
  BY <1>3
<1>5. field = q.field /\ asked.value.kind = "text" /\ asked.pattern.operator = operator
  BY <1>4 DEF Asks
<1>6. asked.pattern.fields[field] = e /\ DOMAIN asked.pattern.fields = {field}
  BY <1>4, <1>5
<1>7. \A v \in q.expected \union q.values : v.kind = "text" => v.text \in Seq(Char)
  BY <1>2, AskedAssumption
<1> QED
  BY <1>3, <1>4, <1>5, <1>6, <1>7

\* A compiled text field is a text.
LEMMA CompiledText ==
  ASSUME NEW p, Compile(p), NEW k \in DOMAIN Fields[p.operator],
         Fields[p.operator][k][2] = "text", Fields[p.operator][k][1] \in DOMAIN p.fields
  PROVE  p.fields[Fields[p.operator][k][1]].kind = "text"
<1>1. Usable("text", p.fields[Fields[p.operator][k][1]])
  BY CompiledFieldIsUsable
<1> QED
  BY <1>1 DEF Usable

-----------------------------------------------------------------------------
(***************************************************************************)
(* Host names.  A character that belongs to no digit survives the division *)
(* into parts, so a host with one of them is no spelling of an address.    *)
(***************************************************************************)
LEMMA PartsAreTexts ==
  ASSUME NEW separator, NEW s \in Seq(Char)
  PROVE  Split(s, separator) \in Seq(Seq(Char))
<1> DEFINE F == Free(separator)
           parts == Split(s, separator)
<1>1. parts \in Seq(F)
  BY SplitDivides DEF Divided
<1>2. F \subseteq Seq(Char)
  BY DEF Free
<1> HIDE DEF F, parts
<1>3. parts \in Seq(Seq(Char))
  BY <1>1, <1>2
<1> QED
  BY <1>3 DEF parts

LEMMA SplitKeeps ==
  ASSUME NEW separator, NEW c \in Char, c # separator, NEW s \in Seq(Char), c \in Chars(s)
  PROVE  \E i \in DOMAIN Split(s, separator) : c \in Chars(Split(s, separator)[i])
<1> DEFINE F == Free(separator)
           Kept(parts) == \E i \in 1..Len(parts) : \E j \in 1..Len(parts[i]) : parts[i][j] = c
           All == {t \in Seq(Char) : (\E i \in 1..Len(t) : t[i] = c) => Kept(Split(t, separator))}
<1>1. <<>> \in All
  OBVIOUS
<1>2. ASSUME NEW t \in Seq(Char), t \in All, NEW d \in Char
      PROVE  Append(t, d) \in All
  <2> DEFINE u == Append(t, d)
             parts == Split(t, separator)
             next == Split(u, separator)
  <2>1. /\ u \in Seq(Char) /\ Len(u) = Len(t) + 1 /\ u[Len(t) + 1] = d /\ Len(t) \in Nat
        /\ \A i \in 1..Len(t) : u[i] = t[i]
    BY AppendProperties
  <2>2. next = SplitNext(separator)[parts][d]
    BY SplitOfAppend
  <2>3. PICK front \in Seq(F), last \in F : parts = Append(front, last)
    BY SplitDivides, LastOfDivided
  <2>4. /\ d = separator => next = Append(Append(front, last), <<>>)
        /\ d # separator => next = Append(front, Append(last, d))
    BY <2>2, <2>3, SplitNextAtEnd
  <2> HIDE DEF u, parts, next, F
  <2>5. /\ Len(Append(front, last)) = Len(front) + 1 /\ Len(front) \in Nat
        /\ Append(front, last)[Len(front) + 1] = last
        /\ \A i \in 1..Len(front) : Append(front, last)[i] = front[i]
    BY <2>3, AppendProperties
  <2>6. last \in Seq(Char) /\ <<>> \in F /\ Append(front, last) \in Seq(F)
    BY <2>3 DEF F, Free
  <2>7. /\ Len(Append(last, d)) = Len(last) + 1 /\ Len(last) \in Nat
        /\ Append(last, d)[Len(last) + 1] = d
        /\ \A j \in 1..Len(last) : Append(last, d)[j] = last[j]
    BY <2>6, AppendProperties
  <2>8. ASSUME d = separator, \E i \in 1..Len(u) : u[i] = c
        PROVE  Kept(next)
    <3>1. Kept(parts)
      BY <1>2, <2>1, <2>8 DEF parts
    <3> DEFINE both == Append(front, last)
    <3>2. next = Append(both, <<>>) /\ both \in Seq(F) /\ parts = both
      BY <2>3, <2>4, <2>6, <2>8
    <3> HIDE DEF both
    <3>3. Len(next) = Len(both) + 1 /\ Len(both) \in Nat /\ \A i \in 1..Len(both) : next[i] = both[i]
      BY <2>6, <3>2, AppendProperties
    <3> QED
      BY <3>1, <3>2, <3>3
  <2>9. ASSUME d # separator, \E i \in 1..Len(u) : u[i] = c
        PROVE  Kept(next)
    <3> DEFINE word == Append(last, d)
    <3>1. next = Append(front, word)
      BY <2>4, <2>9
    <3>2. Len(next) = Len(front) + 1 /\ next[Len(front) + 1] = word /\ \A i \in 1..Len(front) : next[i] = front[i]
      BY <2>3, <3>1
    <3>3. CASE d = c
      BY <2>5, <2>7, <3>2, <3>3
    <3>4. CASE d # c
      <4>1. Kept(parts)
        BY <1>2, <2>1, <2>9, <3>4 DEF parts
      <4>2. PICK i \in 1..Len(parts) : \E j \in 1..Len(parts[i]) : parts[i][j] = c
        BY <4>1
      <4>3. CASE i \in 1..Len(front)
        BY <2>3, <2>5, <3>2, <4>2, <4>3
      <4>4. CASE i = Len(front) + 1
        <5>1. parts[i] = last /\ next[i] = word /\ i \in 1..Len(next)
          BY <2>3, <2>5, <3>2, <4>4
        <5>2. PICK j \in 1..Len(last) : last[j] = c
          BY <4>2, <5>1
        <5>3. word[j] = c /\ j \in 1..Len(word)
          BY <2>7, <5>2
        <5> HIDE DEF word
        <5> QED
          BY <5>1, <5>3
      <4> QED
        BY <2>3, <2>5, <4>2, <4>3, <4>4
    <3> QED
      BY <3>3, <3>4
  <2> QED
    BY <2>1, <2>8, <2>9 DEF u, next
<1> HIDE DEF All
<1>3. s \in All
  BY <1>1, <1>2, InductionOnTexts
<1>4. \A t \in Seq(Char) : c \in Chars(t) <=> \E i \in 1..Len(t) : t[i] = c
  BY DEF Chars, ToSet
<1>5. Kept(Split(s, separator))
  BY <1>3, <1>4 DEF All
<1>6. Split(s, separator) \in Seq(Seq(Char))
  BY PartsAreTexts
<1> QED
  <2> DEFINE parts == Split(s, separator)
  <2>1. parts \in Seq(Seq(Char)) /\ Kept(parts)
    BY <1>5, <1>6
  <2> HIDE DEF parts
  <2>2. \E i \in DOMAIN parts : c \in Chars(parts[i])
    BY <1>4, <2>1
  <2> QED
    BY <2>2 DEF parts

LEMMA NoDigitIsGarbled ==
  ASSUME NEW base \in {8, 10, 16}
  PROVE  DigitsOf(base) \intersect Inconvertible = {}
<1>1. \A i \in 1..16 : HexDigits[i] # "NUL" /\ HexDigits[i] # "surrogate"
  BY DEF HexDigits
<1> QED
  BY <1>1 DEF DigitsOf, Inconvertible

LEMMA GarbledIsNoNumber ==
  ASSUME NEW s \in Seq(Char), NEW c \in Chars(s), c \in Inconvertible
  PROVE  LegacySyntax(s) = None
<1> DEFINE spelling == CASE IsPrefix(<<"0", "x">>, s) -> [digits |-> SubSeq(s, 3, Len(s)), base |-> 16]
                         [] Len(s) > 1 /\ s[1] = "0" /\ s[2] # "x" -> [digits |-> Tail(s), base |-> 8]
                         [] OTHER -> [digits |-> s, base |-> 10]
<1>1. PICK i \in 1..Len(s) : s[i] = c
  BY DEF Chars, ToSet
<1>2. c # "0" /\ c # "x"
  BY DEF Inconvertible
<1>3. c \in Chars(spelling.digits) /\ spelling.base \in {8, 10, 16}
  <2>0. IsPrefix(<<"0", "x">>, s) => ~(Len(s) > 1 /\ s[1] = "0" /\ s[2] # "x")
    BY DEF IsPrefix
  <2>1. CASE IsPrefix(<<"0", "x">>, s)
    <3>1. spelling = [digits |-> SubSeq(s, 3, Len(s)), base |-> 16]
      BY <2>0, <2>1
    <3>2. Len(s) >= 2 /\ s[1] = "0" /\ s[2] = "x"
      BY <2>1 DEF IsPrefix
    <3>3. i \in 3..Len(s)
      BY <1>1, <1>2, <3>2
    <3>4. SubSeq(s, 3, Len(s))[i - 2] = c /\ i - 2 \in DOMAIN SubSeq(s, 3, Len(s))
      BY <1>1, <3>3, SubSeqProperties
    <3> QED
      BY <3>1, <3>4 DEF Chars, ToSet
  <2>2. CASE ~IsPrefix(<<"0", "x">>, s) /\ Len(s) > 1 /\ s[1] = "0" /\ s[2] # "x"
    <3>1. spelling = [digits |-> Tail(s), base |-> 8]
      BY <2>2
    <3>2. i \in 2..Len(s)
      BY <1>1, <1>2, <2>2
    <3>3. Tail(s)[i - 1] = c /\ i - 1 \in DOMAIN Tail(s)
      BY <1>1, <3>2
    <3> QED
      BY <3>1, <3>3 DEF Chars, ToSet
  <2>3. CASE ~IsPrefix(<<"0", "x">>, s) /\ ~(Len(s) > 1 /\ s[1] = "0" /\ s[2] # "x")
    BY <2>3
  <2> QED
    BY <2>1, <2>2, <2>3
<1> HIDE DEF spelling
<1>4. ~(Chars(spelling.digits) \subseteq DigitsOf(spelling.base))
  BY <1>3, NoDigitIsGarbled
<1>5. LegacySyntax(s) = IF spelling.digits = <<>> \/ ~(Chars(spelling.digits) \subseteq DigitsOf(spelling.base))
                        THEN None ELSE spelling
  BY DEF LegacySyntax, spelling
<1> QED
  BY <1>4, <1>5

LEMMA ZonelessIsText ==
  ASSUME NEW hostname \in Seq(Char)
  PROVE  Zoneless(hostname) \in Seq(Char)
<1> DEFINE zone == "%"
           F == Free(zone)
           parts == Split(hostname, zone)
<1>1. parts \in Seq(F) /\ parts # <<>>
  BY SplitDivides, Zenon DEF Divided
<1> HIDE DEF F, parts
<1>2. parts[1] \in F
  BY <1>1
<1> QED
  BY <1>2, Zenon DEF F, Free, Zoneless, parts

\* The exception of _is_private_literal.
LEMMA HostRaises ==
  ASSUME NEW hostname \in Seq(Char), hostname # None, HostText(Zoneless(hostname))
  PROVE  PrivateLiteral(hostname) = "raises" <=>
           Chars(Zoneless(hostname)) \intersect Inconvertible # {}
<1> DEFINE h == Zoneless(hostname)
           spelling == LegacySyntax(h)
           garbled == Chars(h) \intersect Inconvertible # {}
<1>1. PrivateLiteral(hostname) =
        CASE OversizedNumeric(h) -> "yes"
          [] ~OversizedNumeric(h) /\ AsIpAddress(h) = "raises" -> "raises"
          [] OTHER -> IF "local" \in {AsIpAddress(h), DecimalDotted(h)} THEN "yes" ELSE "no"
  BY Zenon DEF PrivateLiteral
<1>2. h \in Seq(Char)
  BY ZonelessIsText
<1>3. /\ IpAddress(h) \in Addresses \union {None}
      /\ garbled => IpAddress(h) = None
      /\ InetAton(h) = "raises" <=> garbled
      /\ spelling # None /\ Len(spelling.digits) <= MaxDigits =>
           IntegerAddress(IntegerOf(spelling)) \in Addresses
  BY Zenon DEF HostText
<1>4. AsIpAddress(h) = IF IpAddress(h) # None THEN IpAddress(h)
                       ELSE IF spelling # None /\ Len(spelling.digits) <= MaxDigits
                            THEN IntegerAddress(IntegerOf(spelling))
                       ELSE InetAton(h)
  BY Zenon DEF AsIpAddress
<1>5. ASSUME garbled
      PROVE  spelling = None /\ ~OversizedNumeric(h)
  <2>1. PICK c \in Chars(h) : c \in Inconvertible
    BY <1>5
  <2>2. spelling = None
    BY <1>2, <2>1, GarbledIsNoNumber
  <2> DEFINE dot == "."
             parts == Split(h, dot)
  <2>3. c \in Char /\ c # dot
    BY <1>2, <2>1 DEF Chars, ToSet, Inconvertible
  <2> HIDE DEF h, dot
  <2>4. PICK i \in DOMAIN parts : c \in Chars(parts[i])
    BY <1>2, <2>1, <2>3, SplitKeeps
  <2>5. parts[i] \in Seq(Char)
    BY <1>2, <2>4, PartsAreTexts
  <2>6. LegacySyntax(parts[i]) = None
    BY <2>1, <2>4, <2>5, GarbledIsNoNumber
  <2>7. ~OversizedNumeric(h)
    BY <2>4, <2>6, Zenon DEF OversizedNumeric, dot
  <2> QED
    BY <2>2, <2>7
<1>6. "raises" \notin Addresses /\ None # "raises"
  BY NoneAssumption DEF Addresses
<1> HIDE DEF h, spelling, garbled
<1>7. ASSUME garbled
      PROVE  PrivateLiteral(hostname) = "raises"
  BY <1>1, <1>3, <1>4, <1>5, <1>7
<1>8. ASSUME PrivateLiteral(hostname) = "raises"
      PROVE  garbled
  <2>1. AsIpAddress(h) = "raises"
    BY <1>1, <1>8
  <2> QED
    BY <1>3, <1>4, <1>6, <2>1
<1> QED
  BY <1>7, <1>8 DEF garbled, h

\* What check was asked, with a matcher that compiles.
LEMMA CompiledIsOne ==
  ASSUME CheckInv, Checked, Compile(asked.pattern)
  PROVE  \E k, name, type : OneField(asked.pattern, asked.pattern.operator, k, name, type)
<1> DEFINE p == asked.pattern
<1>1. PICK q \in Asked : \E e \in q.expected, w \in q.values :
        asked = [pattern |-> [operator |-> q.operator, fields |-> [name \in {q.field} |-> e]], value |-> w]
  BY DEF CheckInv, Posed, Checked
<1>2. PICK e \in q.expected, w \in q.values :
        asked = [pattern |-> [operator |-> q.operator, fields |-> [name \in {q.field} |-> e]], value |-> w]
  BY <1>1
<1>3. p.fields = [x \in {q.field} |-> e] /\ DOMAIN p.fields = {q.field}
  BY <1>2
<1>4. p.operator \in DOMAIN Fields
  BY DEF Compile
<1>5. PICK field \in ToSet(Fields[p.operator]) : field[1] = q.field
  BY <1>3 DEF Compile
<1>6. PICK k \in DOMAIN Fields[p.operator] : Fields[p.operator][k] = field
  BY DEF ToSet
<1>7. Usable(Fields[p.operator][k][2], p.fields[q.field])
  BY <1>3, <1>5, <1>6, CompiledFieldIsUsable
<1> HIDE DEF p
<1>8. OneField(p, p.operator, k, q.field, Fields[p.operator][k][2])
  BY <1>3, <1>4, <1>5, <1>6, <1>7 DEF OneField
<1> QED
  BY <1>8 DEF p

LEMMA RaisesHolds == CheckInv => RaisesOnlyForHosts
<1> SUFFICES ASSUME CheckInv, Checked, Compile(asked.pattern)
             PROVE  /\ exit \in {0, 1, 4}
                    /\ exit = 1 <=> /\ asked.pattern.operator = "url"
                                    /\ "deny_private_networks" \in DOMAIN asked.pattern.fields
                                    /\ asked.pattern.fields["deny_private_networks"].flag
                                    /\ InconvertibleHost(asked.value)
  BY DEF RaisesOnlyForHosts
<1> DEFINE p == asked.pattern
           v == asked.value
           deny == "deny_private_networks"
<1>1. exit \in {0, 1, 4} /\ (exit = 1 <=> Match(p, v) = "raises")
  BY DEF CheckInv, Answered
<1>2. PICK k, name, type : OneField(p, p.operator, k, name, type)
  BY CompiledIsOne
<1>3. Match(p, v) = "raises" <=>
        Subject(p.operator, v) # None /\ Raises(name, type, p.fields[name], Subject(p.operator, v))
  BY <1>2, MatchOfOne
<1>4. Usable(type, p.fields[name]) /\ DOMAIN p.fields = {name}
  BY <1>2 DEF OneField
<1>5. name = deny => p.operator = "url"
  BY <1>2 DEF OneField, Fields
<1>6. CASE name # deny
  BY <1>1, <1>3, <1>4, <1>6 DEF Raises
<1>7. CASE name = deny
  <2>1. \E q \in Asked : v \in q.values
    <3>1. PICK q \in Asked : \E e \in q.expected, w \in q.values :
            asked = [pattern |-> [operator |-> q.operator, fields |-> [n \in {q.field} |-> e]], value |-> w]
      BY DEF CheckInv, Posed, Checked
    <3>2. v \in q.values
      BY <3>1
    <3> QED
      BY <3>2
  <2>2. /\ v.kind = "url" => v.url # None
        /\ v.kind = "url" /\ v.url.hostname # None =>
             v.url.hostname \in Seq(Char) /\ HostText(Zoneless(v.url.hostname))
    BY <2>1, AskedAssumption
  <2>3. CASE v.kind # "url"
    <3>1. Subject("url", v) = None
      BY <2>3 DEF Subject
    <3> QED
      BY <1>1, <1>3, <1>5, <1>7, <2>3, <3>1 DEF InconvertibleHost
  <2>4. CASE v.kind = "url"
    <3>1. Subject("url", v) = v.url
      BY <2>4 DEF Subject
    <3>2. Match(p, v) = "raises" <=> p.fields[deny].flag /\ PrivateLiteral(v.url.hostname) = "raises"
      BY <1>3, <1>4, <1>5, <1>7, <2>2, <2>4, <3>1 DEF Raises
    <3>3. CASE v.url.hostname = None
      <4>1. PrivateLiteral(v.url.hostname) = "no"
        BY <3>3 DEF PrivateLiteral
      <4> QED
        BY <1>1, <3>2, <3>3, <4>1 DEF InconvertibleHost
    <3>4. CASE v.url.hostname # None
      <4>1. PrivateLiteral(v.url.hostname) = "raises" <=> InconvertibleHost(v)
        BY <2>2, <2>4, <3>4, HostRaises DEF InconvertibleHost
      <4> QED
        BY <1>1, <1>4, <1>5, <1>7, <3>2, <4>1
    <3> QED
      BY <3>3, <3>4
  <2> QED
    BY <2>3, <2>4
<1> QED
  BY <1>6, <1>7

\* A policy that loads can be applied, whatever the arguments are: a typed
\* matcher that compile() accepts makes match() raise only for a host name that
\* inet_aton cannot convert, and for each of those.
THEOREM AcceptedMatchers == Spec => []RaisesOnlyForHosts
BY CheckInvariant, RaisesHolds, PTL

-----------------------------------------------------------------------------
LEMMA ContainedHolds == CheckInv => Contained
<1> SUFFICES ASSUME CheckInv
             PROVE  Contained
  OBVIOUS
<1> DEFINE v == asked.value.text
           expected(field) == asked.pattern.fields[field].text
<1>1. ASSUME Asks("path", "within"), exit \in {0, 4}
      PROVE  exit = 0 <=>
               \/ Components(expected("within")) = <<>>
               \/ /\ LeadingSlashes(expected("within")) = LeadingSlashes(v)
                  /\ IsPrefix(Components(expected("within")), Components(v))
  <2> DEFINE p == asked.pattern
             f == p.fields["within"]
  <2>1. /\ p.operator = "path" /\ DOMAIN p.fields = {"within"}
        /\ asked.value.kind = "text" /\ v \in Seq(Char)
        /\ f.kind = "text" => f.text \in Seq(Char)
    BY <1>1, AskedIs
  <2>2. Compile(p) /\ (exit = 0 <=> Match(p, asked.value) = "yes")
    BY <1>1 DEF CheckInv, Answered, Asks
  <2>3. /\ "path" \in DOMAIN Fields /\ 2 \in DOMAIN Fields["path"]
        /\ Fields["path"][2][1] = "within" /\ Fields["path"][2][2] = "text"
    BY DEF Fields
  <2>4. f.kind = "text" /\ Usable("text", f)
    BY <2>1, <2>2, <2>3, CompiledText DEF Usable
  <2>5. Subject("path", asked.value) = LexicalAbs(v)
    BY <2>1 DEF Subject
  <2>6. LexicalAbs(v) # None
    <3>1. LeadingSlashes(v) \in Seq(Char) /\ Join(Components(v)) \in Seq(Char)
      BY <2>1, SlashesOfPath, SlashesAre, ComponentsAre, PartsAre, JoinOfAppend, EmptySeq
    <3> QED
      BY <3>1, ConcatIsSeq, NoneAssumption DEF LexicalAbs
  <2>7. Match(p, asked.value) = "yes" <=>
          /\ Subject("path", asked.value) # None
          /\ Holds("path", "within", f, Subject("path", asked.value))
    <3>1. OneField(p, "path", 2, "within", "text")
      BY <2>1, <2>3, <2>4 DEF OneField
    <3> QED
      BY <3>1, MatchIsYes
  <2>8. Holds("path", "within", f, LexicalAbs(v)) <=> Within(LexicalAbs(f.text), LexicalAbs(v))
    BY DEF Holds
  <2>9. Within(LexicalAbs(f.text), LexicalAbs(v)) <=>
           \/ Components(f.text) = <<>>
           \/ /\ LeadingSlashes(f.text) = LeadingSlashes(v)
              /\ IsPrefix(Components(f.text), Components(v))
    BY <2>1, <2>4, WithinIs
  <2> QED
    BY <2>2, <2>5, <2>6, <2>7, <2>8, <2>9
<1>2. ASSUME Asks("domain", "suffix"), exit \in {0, 4}
      PROVE  exit = 0 <=>
               /\ Domain(v) # None
               /\ IsSuffix(Labels(expected("suffix")), Labels(Last(Split(v, "@"))))
  <2> DEFINE p == asked.pattern
             f == p.fields["suffix"]
             host == Lower(Last(Split(v, "@")))
             below == Lower(f.text)
  <2>1. /\ p.operator = "domain" /\ DOMAIN p.fields = {"suffix"}
        /\ asked.value.kind = "text" /\ v \in Seq(Char)
        /\ f.kind = "text" => f.text \in Seq(Char)
    BY <1>2, AskedIs
  <2>2. Compile(p) /\ (exit = 0 <=> Match(p, asked.value) = "yes")
    BY <1>2 DEF CheckInv, Answered, Asks
  <2>3. /\ "domain" \in DOMAIN Fields /\ 2 \in DOMAIN Fields["domain"]
        /\ Fields["domain"][2][1] = "suffix" /\ Fields["domain"][2][2] = "text"
    BY DEF Fields
  <2>4. f.kind = "text" /\ Usable("text", f)
    BY <2>1, <2>2, <2>3, CompiledText DEF Usable
  <2>5. Subject("domain", asked.value) = Domain(v)
    BY <2>1 DEF Subject
  <2>6. Domain(v) # None => Domain(v) = host
    BY DEF Domain
  <2>7. host \in Seq(Char) /\ below \in Seq(Char)
    BY <2>1, <2>4, LastIsText, LowerIsText
  <2>8. Match(p, asked.value) = "yes" <=>
          /\ Subject("domain", asked.value) # None
          /\ Holds("domain", "suffix", f, Subject("domain", asked.value))
    <3>1. OneField(p, "domain", 2, "suffix", "text")
      BY <2>1, <2>3, <2>4 DEF OneField
    <3> QED
      BY <3>1, MatchIsYes
  <2>9. Holds("domain", "suffix", f, host) <=> (host = below \/ IsSuffix(<<".">> \o below, host))
    BY DEF Holds
  <2>10. (host = below \/ IsSuffix(<<".">> \o below, host)) <=>
           IsSuffix(Labels(f.text), Labels(Last(Split(v, "@"))))
    <3> HIDE DEF host, below
    <3>1. (host = below \/ IsSuffix(<<".">> \o below, host)) <=>
            IsSuffix(Split(below, "."), Split(host, "."))
      BY <2>7, BelowDomain
    <3> QED
      BY <3>1 DEF Labels, host, below
  <2> QED
    BY <2>2, <2>5, <2>6, <2>8, <2>9, <2>10
<1> QED
  BY <1>1, <1>2 DEF Contained

\* A path that matches "within" goes down from the root component by component,
\* and a domain that matches "suffix" ends with its labels, whatever is asked:
\* normpath and the comparison of texts decide what components and labels do.
THEOREM ContainedMatches == Spec => []Contained
BY CheckInvariant, ContainedHolds, PTL

-----------------------------------------------------------------------------
(***************************************************************************)
(* Commands: what splits into words without an unmodeled one has no        *)
(* control character at all.                                               *)
(***************************************************************************)
Plain == Char \ Control
Ctl == Char \intersect Control

\* A word is all control characters, or none.
Uniform == Seq(Plain) \union Seq(Ctl)

Worded == Seq(Uniform) \ {<<>>}

WordNext ==
  [words \in Worded |-> [c \in Char |->
     IF c = " " THEN Append(words, <<>>)
     ELSE IF Last(words) # <<>> /\ (c \in Control) # (Last(Last(words)) \in Control)
          THEN Append(words, <<c>>)
     ELSE [words EXCEPT ![Len(words)] = Append(@, c)]]]

LEMMA SpaceIsPlain == " " \in Char /\ " " \notin Control
<1>1. " " \in Char
  BY LettersAreChars, Zenon
<1>2. " " \notin Control
  BY DEF Control, Backquote
<1> QED
  BY <1>1, <1>2

LEMMA LastOfAppend ==
  ASSUME NEW V, NEW parts \in Seq(V), NEW last \in V
  PROVE  /\ Last(Append(parts, last)) = last
         /\ Append(parts, last) \in Seq(V) /\ Append(parts, last) # <<>>
         /\ Len(Append(parts, last)) = Len(parts) + 1
         /\ \A i \in 1..Len(parts) : Append(parts, last)[i] = parts[i]
         /\ Append(parts, last)[Len(parts) + 1] = last
BY DEF Last

\* The last element in place of another.
LEMMA ReplaceLast ==
  ASSUME NEW V, NEW parts \in Seq(V), NEW last \in V, NEW new \in V
  PROVE  [Append(parts, last) EXCEPT ![Len(Append(parts, last))] = new] = Append(parts, new)
<1> DEFINE s == Append(parts, last)
           t == [s EXCEPT ![Len(s)] = new]
           u == Append(parts, new)
<1>1. s \in Seq(V) /\ Len(s) = Len(parts) + 1 /\ Len(parts) \in Nat /\ \A i \in 1..Len(parts) : s[i] = parts[i]
  BY LastOfAppend
<1>2. u \in Seq(V) /\ Len(u) = Len(parts) + 1 /\ \A i \in 1..Len(parts) : u[i] = parts[i]
  BY LastOfAppend
<1>3. u[Len(parts) + 1] = new
  BY LastOfAppend
<1> HIDE DEF s
<1>4. t \in Seq(V) /\ Len(t) = Len(s) /\ \A i \in 1..Len(s) : t[i] = IF i = Len(s) THEN new ELSE s[i]
  BY <1>1, ExceptSeq
<1> HIDE DEF t, u
<1>5. \A i \in 1..Len(u) : t[i] = u[i]
  BY <1>1, <1>2, <1>3, <1>4
<1>6. t = u
  BY <1>1, <1>2, <1>4, <1>5, SeqEqual
<1> QED
  BY <1>6 DEF t, u, s

LEMMA UniformAppend ==
  ASSUME NEW word \in Uniform, NEW c \in Char
  PROVE  /\ <<>> \in Uniform /\ <<c>> \in Uniform
         /\ word = <<>> => Append(word, c) \in Uniform
         /\ word # <<>> => (Last(word) \in Control <=> word \in Seq(Ctl))
         /\ word # <<>> => (Last(word) \notin Control <=> word \in Seq(Plain))
         /\ (c \in Control <=> word \in Seq(Ctl)) => Append(word, c) \in Uniform
         /\ c \in Control /\ word \in Seq(Ctl) => Append(word, c) \in Seq(Ctl)
         /\ c \notin Control /\ word \in Seq(Plain) => Append(word, c) \in Seq(Plain)
<1>1. \A d \in Plain : d \notin Control
  BY DEF Plain
<1>2. \A d \in Ctl : d \in Control
  BY DEF Ctl
<1>3. c \in Control => c \in Ctl
  BY DEF Ctl
<1>4. c \notin Control => c \in Plain
  BY DEF Plain
<1>5. word \in Seq(Plain) \/ word \in Seq(Ctl)
  BY DEF Uniform
<1> HIDE DEF Plain, Ctl
<1>6. word # <<>> => Len(word) \in 1..Len(word) /\ Last(word) = word[Len(word)]
  BY <1>5 DEF Last
<1>7. word # <<>> /\ word \in Seq(Plain) => Last(word) \notin Control
  BY <1>1, <1>6
<1>8. word # <<>> /\ word \in Seq(Ctl) => Last(word) \in Control
  BY <1>2, <1>6
<1>9. c \in Control /\ word \in Seq(Ctl) => Append(word, c) \in Seq(Ctl)
  BY <1>3
<1>10. c \notin Control /\ word \in Seq(Plain) => Append(word, c) \in Seq(Plain)
  BY <1>4
<1>11. <<>> \in Seq(Plain) /\ <<>> \in Seq(Ctl)
  BY EmptySeq
<1>12. <<c>> \in Seq(Ctl) \/ <<c>> \in Seq(Plain)
  BY <1>3, <1>4
<1>13. word = <<>> => Append(word, c) \in Seq(Ctl) \/ Append(word, c) \in Seq(Plain)
  BY <1>9, <1>10, <1>11
<1>14. (c \in Control <=> word \in Seq(Ctl)) => Append(word, c) \in Seq(Ctl) \/ Append(word, c) \in Seq(Plain)
  BY <1>5, <1>9, <1>10
<1> QED
  BY <1>5, <1>7, <1>8, <1>9, <1>10, <1>11, <1>12, <1>13, <1>14 DEF Uniform

\* The three ways a character goes on from the words so far.
LEMMA WordNextAtEnd ==
  ASSUME NEW parts \in Seq(Uniform), NEW last \in Uniform, NEW c \in Char
  PROVE  /\ Append(parts, last) \in Worded
         /\ c = " " => WordNext[Append(parts, last)][c] = Append(Append(parts, last), <<>>)
         /\ c # " " /\ last # <<>> /\ ~(c \in Control <=> last \in Seq(Ctl)) =>
              WordNext[Append(parts, last)][c] = Append(Append(parts, last), <<c>>)
         /\ c # " " /\ (last = <<>> \/ (c \in Control <=> last \in Seq(Ctl))) =>
              /\ WordNext[Append(parts, last)][c] = Append(parts, Append(last, c))
              /\ Append(last, c) \in Uniform
<1> DEFINE words == Append(parts, last)
           longer == Append(last, c)
<1>1. Last(words) = last /\ words \in Worded
  BY LastOfAppend DEF Worded
<1>2. /\ last = <<>> => longer \in Uniform
      /\ last # <<>> => (Last(last) \in Control <=> last \in Seq(Ctl))
      /\ (c \in Control <=> last \in Seq(Ctl)) => longer \in Uniform
  BY UniformAppend
<1>3. words[Len(words)] = last
  BY LastOfAppend
<1>4. longer \in Uniform => [words EXCEPT ![Len(words)] = longer] = Append(parts, longer)
  <2> HIDE DEF longer
  <2> QED
    BY ReplaceLast
<1>5. c = " " => WordNext[words][c] = Append(words, <<>>)
  BY <1>1 DEF WordNext
<1>6. c # " " /\ last # <<>> /\ ~(c \in Control <=> Last(last) \in Control) =>
        WordNext[words][c] = Append(words, <<c>>)
  <2> HIDE DEF words
  <2> QED
    BY <1>1 DEF WordNext
<1>7. c # " " /\ (last = <<>> \/ (c \in Control <=> Last(last) \in Control)) =>
        WordNext[words][c] = [words EXCEPT ![Len(words)] = longer]
  <2> HIDE DEF words
  <2>1. ASSUME c # " ", last = <<>> \/ (c \in Control <=> Last(last) \in Control)
        PROVE  WordNext[words][c] = [words EXCEPT ![Len(words)] = Append(@, c)]
    <3>1. CASE last = <<>>
      BY <1>1, <2>1, <3>1 DEF WordNext
    <3>2. CASE last # <<>> /\ c \in Control
      BY <1>1, <2>1, <3>2 DEF WordNext
    <3>3. CASE last # <<>> /\ c \notin Control
      <4>1. Last(last) \notin Control
        BY <2>1, <3>3
      <4>2. ~((c \in Control) # (Last(Last(words)) \in Control))
        BY <1>1, <3>3, <4>1
      <4> QED
        BY <1>1, <2>1, <4>2 DEF WordNext
    <3> QED
      BY <3>1, <3>2, <3>3
  <2>2. [words EXCEPT ![Len(words)] = Append(@, c)] = [words EXCEPT ![Len(words)] = Append(words[Len(words)], c)]
    OBVIOUS
  <2>3. [words EXCEPT ![Len(words)] = Append(@, c)] = [words EXCEPT ![Len(words)] = longer]
    BY <1>3, <2>2
  <2> HIDE DEF longer
  <2> QED
    BY <2>1, <2>3
<1> HIDE DEF words, longer
<1> QED
  BY <1>1, <1>2, <1>4, <1>5, <1>6, <1>7 DEF words, longer

LEMMA WordNextStays ==
  ASSUME NEW words \in Worded, NEW c \in Char
  PROVE  WordNext[words][c] \in Worded
<1>1. PICK parts \in Seq(Uniform), last \in Uniform : words = Append(parts, last)
  <2> DEFINE n == Len(words)
  <2>1. words \in Seq(Uniform) /\ words # <<>>
    BY DEF Worded
  <2> HIDE DEF Uniform
  <2>2. SubSeq(words, 1, n - 1) \in Seq(Uniform) /\ words[n] \in Uniform
    BY <2>1
  <2>3. words = Append(SubSeq(words, 1, n - 1), words[n])
    BY <2>1
  <2> QED
    BY <2>2, <2>3
<1> DEFINE longer == Append(last, c)
           single == <<c>>
<1>2. /\ words \in Seq(Uniform) /\ <<>> \in Uniform /\ single \in Uniform
  BY <1>1, UniformAppend DEF Worded
<1>3. \A new \in Uniform : Append(words, new) \in Worded /\ Append(parts, new) \in Worded
  BY <1>2, LastOfAppend DEF Worded
<1>4. /\ c = " " => WordNext[words][c] = Append(words, <<>>)
      /\ c # " " /\ last # <<>> /\ ~(c \in Control <=> last \in Seq(Ctl)) => WordNext[words][c] = Append(words, single)
      /\ c # " " /\ (last = <<>> \/ (c \in Control <=> last \in Seq(Ctl))) =>
           WordNext[words][c] = Append(parts, longer) /\ longer \in Uniform
  BY <1>1, WordNextAtEnd
<1> HIDE DEF longer, single
<1> QED
  BY <1>2, <1>3, <1>4

LEMMA WordsIsFold ==
  ASSUME NEW s \in Seq(Char)
  PROVE  Words(s) = NonEmpty(Fold(Worded, << <<>> >>, WordNext, s))
<1> DEFINE V == Worded
           base == << <<>> >>
           next == WordNext
           Extended(words, c) == IF c = " " THEN Append(words, <<>>)
                                 ELSE IF Last(words) # <<>> /\ (c \in Control) # (Last(Last(words)) \in Control)
                                      THEN Append(words, <<c>>)
                                 ELSE [words EXCEPT ![Len(words)] = Append(@, c)]
           Is(f) == f = [n \in 0..Len(s) |-> IF n = 0 THEN base ELSE Extended(f[n - 1], s[n])]
           f == CHOOSE f : Is(f)
<1>1. Words(s) = NonEmpty(f[Len(s)])
  BY DEF Words, Folded
<1>2. base \in V
  BY UniformAppend, EmptySeq DEF Worded, Uniform
<1>3. \A v \in V, c \in Char : next[v][c] = Extended(v, c) /\ next[v][c] \in V
  BY WordNextStays DEF WordNext
<1>4. Len(s) \in Nat /\ \A n \in 1..Len(s) : s[n] \in Char
  OBVIOUS
<1>5. Stays(V, Char, next)
  BY <1>3 DEF Stays
<1> HIDE DEF V, base, next
<1>6. \E g : Is(g)
  <2>1. PICK g : IsFold(g, V, base, next, s)
    BY <1>2, <1>5, FoldExists
  <2>2. g \in [0..Len(s) -> V] /\ g[0] = base /\ \A n \in 1..Len(s) : g[n] = next[g[n - 1]][s[n]]
    BY <2>1 DEF IsFold
  <2> HIDE DEF Extended
  <2>3. ASSUME NEW n \in 0..Len(s)
        PROVE  g[n] = IF n = 0 THEN base ELSE Extended(g[n - 1], s[n])
    <3>1. n # 0 => n \in 1..Len(s) /\ n - 1 \in 0..Len(s)
      BY <1>4
    <3> QED
      BY <1>3, <1>4, <2>2, <3>1
  <2>4. g = [n \in 0..Len(s) |-> g[n]]
    BY <2>2
  <2>5. Is(g)
    BY <2>3, <2>4, Zenon
  <2> QED
    BY <2>5
<1>7. Is(f)
  BY <1>6, Zenon
<1> HIDE DEF f, Extended
<1>8. f[0] = base
  BY <1>4, <1>7
<1>9. Follows(f, V, base, next, s)
  <2> SUFFICES ASSUME NEW n \in 1..Len(s), f[n - 1] \in V
               PROVE  f[n] = next[f[n - 1]][s[n]]
    BY <1>8 DEF Follows
  <2>1. n \in 0..Len(s) /\ n # 0
    BY <1>4
  <2>2. f[n] = Extended(f[n - 1], s[n])
    BY <1>7, <2>1
  <2> QED
    BY <1>3, <1>4, <2>2
<1> HIDE DEF Is
<1>10. f[Len(s)] = Fold(V, base, next, s)
  BY <1>2, <1>5, <1>9, FoldIs
<1> QED
  BY <1>1, <1>10 DEF V, base, next


\* The words before the empty ones are dropped.
RawWords(s) == Fold(Worded, << <<>> >>, WordNext, s)

LEMMA RawWordsOfAppend ==
  /\ RawWords(<<>>) = << <<>> >>
  /\ \A s \in Seq(Char) : /\ RawWords(s) \in Worded
                          /\ \A c \in Char : RawWords(Append(s, c)) = WordNext[RawWords(s)][c]
<1> DEFINE base == << <<>> >>
<1>1. base \in Worded
  BY EmptySeq DEF Worded, Uniform
<1>2. Stays(Worded, Char, WordNext)
  BY WordNextStays DEF Stays
<1> HIDE DEF base
<1>3. /\ Fold(Worded, base, WordNext, <<>>) = base
      /\ \A s \in Seq(Char) : /\ Fold(Worded, base, WordNext, s) \in Worded
                              /\ \A c \in Char : Fold(Worded, base, WordNext, Append(s, c)) = WordNext[Fold(Worded, base, WordNext, s)][c]
  BY <1>1, <1>2, FoldOfEmpty, FoldStays, FoldOfAppend
<1> QED
  BY <1>3 DEF base, RawWords

LEMMA AppendParts ==
  ASSUME NEW S, NEW V, NEW parts \in Seq(V), NEW last \in V, Append(parts, last) \in Seq(S)
  PROVE  parts \in Seq(S) /\ last \in S
<1> DEFINE s == Append(parts, last)
<1>1. /\ Len(s) = Len(parts) + 1 /\ \A i \in 1..Len(parts) : s[i] = parts[i]
      /\ s[Len(parts) + 1] = last /\ Len(parts) \in Nat
  BY LastOfAppend
<1> HIDE DEF s
<1>2. \A i \in 1..Len(s) : s[i] \in S
  BY DEF s
<1>3. \A i \in 1..Len(parts) : parts[i] \in S
  BY <1>1, <1>2
<1> QED
  BY <1>1, <1>2, <1>3

LEMMA SeparatorNext ==
  ASSUME NEW separator, NEW parts \in Seq(Free(separator)), NEW last \in Free(separator),
         NEW c \in Char, c = separator
  PROVE  SplitNext(separator)[Append(parts, last)][c] = Append(Append(parts, last), <<>>)
BY SplitNextAtEnd

LEMMA LetterNext ==
  ASSUME NEW separator, NEW parts \in Seq(Free(separator)), NEW last \in Free(separator),
         NEW c \in Char, c # separator
  PROVE  SplitNext(separator)[Append(parts, last)][c] = Append(parts, Append(last, c))
BY SplitNextAtEnd

LEMMA LastOfWorded ==
  ASSUME NEW words \in Worded
  PROVE  \E parts \in Seq(Uniform), last \in Uniform : words = Append(parts, last)
<1> DEFINE n == Len(words)
<1>1. words \in Seq(Uniform) /\ words # <<>>
  BY DEF Worded
<1> HIDE DEF Uniform
<1>2. SubSeq(words, 1, n - 1) \in Seq(Uniform) /\ words[n] \in Uniform
  BY <1>1
<1>3. words = Append(SubSeq(words, 1, n - 1), words[n])
  BY <1>1
<1> QED
  BY <1>2, <1>3

\* Without control characters the words are what spaces divide.
LEMMA RawWordsArePlain ==
  ASSUME NEW s \in Seq(Plain)
  PROVE  RawWords(s) = Split(s, " ") /\ RawWords(s) \in Seq(Seq(Plain))
<1> DEFINE All == {t \in Seq(Plain) : RawWords(t) = Split(t, " ") /\ RawWords(t) \in Seq(Seq(Plain))}
<1>1. <<>> \in All
  <2>1. <<>> \in Seq(Plain) /\ << <<>> >> \in Seq(Seq(Plain))
    BY EmptySeq
  <2>2. Split(<<>>, " ") = << <<>> >>
    BY SplitOfEmpty
  <2> QED
    BY <2>1, <2>2, RawWordsOfAppend
<1>2. ASSUME NEW t \in Seq(Plain), t \in All, NEW c \in Plain
      PROVE  Append(t, c) \in All
  <2>1. t \in Seq(Char) /\ c \in Char /\ c \notin Control /\ Append(t, c) \in Seq(Plain)
    BY DEF Plain
  <2>0. c \in Char
    BY <2>1
  <2>2. PICK front \in Seq(Free(" ")), last \in Free(" ") : Split(t, " ") = Append(front, last)
    <3>1. Split(t, " ") \in Divided(" ")
      BY <2>1, SplitDivides
    <3> QED
      BY <3>1, LastOfDivided
  <2> DEFINE words == Append(front, last)
             longer == Append(last, c)
  <2>3. front \in Seq(Seq(Plain)) /\ last \in Seq(Plain) /\ words \in Seq(Seq(Plain))
    <3>1. words \in Seq(Seq(Plain))
      BY <1>2, <2>2
    <3> QED
      BY <3>1, AppendParts
  <2>4. front \in Seq(Uniform) /\ last \in Uniform
    <3>1. Seq(Plain) \subseteq Uniform
      BY DEF Uniform
    <3>2. last \in Uniform
      BY <2>3, <3>1
    <3>3. Seq(Seq(Plain)) \subseteq Seq(Uniform)
      BY <3>1, SeqMonotonic
    <3>4. front \in Seq(Seq(Plain))
      BY <2>3
    <3> QED
      BY <3>2, <3>3, <3>4
  <2>5. last = <<>> \/ last \notin Seq(Ctl)
    <3>1. last # <<>> => Last(last) \notin Control
      BY <2>1, <2>3, <2>4, UniformAppend
    <3> QED
      BY <2>1, <2>4, <3>1, UniformAppend
  <2>6. RawWords(Append(t, c)) = WordNext[words][c] /\ Split(Append(t, c), " ") = SplitNext(" ")[words][c]
    <3>1. RawWords(t) = words /\ Split(t, " ") = words
      BY <1>2, <2>2
    <3>2. RawWords(Append(t, c)) = WordNext[RawWords(t)][c]
      BY <2>1, RawWordsOfAppend
    <3>3. Split(Append(t, c), " ") = SplitNext(" ")[Split(t, " ")][c]
      BY <2>1, SplitOfAppend
    <3> QED
      BY <3>1, <3>2, <3>3
  <2>7. <<>> \in Seq(Plain) /\ longer \in Seq(Plain)
    <3>1. <<>> \in Seq(Plain)
      BY EmptySeq
    <3>2. longer \in Seq(Plain)
      BY <2>3, AppendProperties
    <3> QED
      BY <3>1, <3>2
  <2>8. CASE c = " "
    <3>1. WordNext[words][c] = Append(words, <<>>)
      BY <2>1, <2>4, <2>8, WordNextAtEnd
    <3>2. SplitNext(" ")[words][c] = Append(words, <<>>)
      BY <2>0, <2>8, SeparatorNext
    <3>3. Append(words, <<>>) \in Seq(Seq(Plain))
      BY <2>3, <2>7, LastOfAppend
    <3> HIDE DEF words
    <3> QED
      BY <2>1, <2>6, <3>1, <3>2, <3>3
  <2>9. CASE c # " "
    <3>1. WordNext[words][c] = Append(front, longer)
      BY <2>1, <2>4, <2>5, <2>9, WordNextAtEnd
    <3>2. SplitNext(" ")[words][c] = Append(front, longer)
      BY <2>0, <2>9, LetterNext
    <3>3. Append(front, longer) \in Seq(Seq(Plain))
      <4> HIDE DEF longer
      <4> QED
        BY <2>3, <2>7, LastOfAppend
    <3> HIDE DEF words, longer
    <3> QED
      BY <2>1, <2>6, <3>1, <3>2, <3>3
  <2> QED
    BY <2>8, <2>9
<1> HIDE DEF All
<1>3. s \in All
  BY <1>1, <1>2, InductionOnTexts
<1> QED
  BY <1>3 DEF All

HasControl(words) == \E k \in 1..Len(words) : words[k] # <<>> /\ words[k] \in Seq(Ctl)

LEMMA HasControlAppend ==
  ASSUME NEW parts \in Seq(Uniform), NEW last \in Uniform
  PROVE  HasControl(Append(parts, last)) <=> HasControl(parts) \/ (last # <<>> /\ last \in Seq(Ctl))
<1> DEFINE s == Append(parts, last)
<1>1. /\ Len(s) = Len(parts) + 1 /\ \A i \in 1..Len(parts) : s[i] = parts[i]
      /\ s[Len(parts) + 1] = last /\ Len(parts) \in Nat
  BY LastOfAppend
<1> HIDE DEF s
<1>2. \A i \in 1..Len(s) : i \in 1..Len(parts) \/ i = Len(s)
  BY <1>1
<1>3. \A i \in 1..Len(parts) : i \in 1..Len(s)
  BY <1>1
<1>4. Len(s) \in 1..Len(s)
  BY <1>1
<1> QED
  BY <1>1, <1>2, <1>3, <1>4 DEF HasControl, s

\* A control character leaves a word of control characters.
LEMMA RawWordsOfControl ==
  ASSUME NEW s \in Seq(Char), s \notin Seq(Plain)
  PROVE  HasControl(RawWords(s))
<1> DEFINE All == {t \in Seq(Char) : t \notin Seq(Plain) => HasControl(RawWords(t))}
<1>1. <<>> \in All
  BY EmptySeq
<1>2. ASSUME NEW t \in Seq(Char), t \in All, NEW c \in Char
      PROVE  Append(t, c) \in All
  <2>1. SUFFICES ASSUME Append(t, c) \notin Seq(Plain)
                 PROVE  HasControl(RawWords(Append(t, c)))
    BY AppendProperties
  <2>2. PICK parts \in Seq(Uniform), last \in Uniform : RawWords(t) = Append(parts, last)
    BY RawWordsOfAppend, LastOfWorded
  <2> DEFINE words == Append(parts, last)
             longer == Append(last, c)
             single == <<c>>
  <2>3. RawWords(Append(t, c)) = WordNext[words][c]
    BY <2>2, RawWordsOfAppend
  <2>4. t \in Seq(Plain) => c \in Control
    BY <2>1 DEF Plain
  <2>5. t \in Seq(Plain) => ~HasControl(words)
    <3>1. ASSUME t \in Seq(Plain)
          PROVE  words \in Seq(Seq(Plain))
      BY <2>2, <3>1, RawWordsArePlain
    <3>2. ASSUME NEW word \in Seq(Plain), word # <<>>, word \in Seq(Ctl)
          PROVE  FALSE
      <4>1. word[1] \in Plain /\ word[1] \in Ctl
        BY <3>2
      <4> QED
        BY <4>1 DEF Plain, Ctl
    <3> HIDE DEF words
    <3> QED
      BY <3>1, <3>2 DEF HasControl
  <2>6. t \notin Seq(Plain) => HasControl(words)
    BY <1>2, <2>2
  <2>7. words \in Seq(Uniform) /\ <<>> \in Uniform /\ single \in Uniform
    BY UniformAppend, LastOfAppend
  <2>8. c \in Control => single # <<>> /\ single \in Seq(Ctl)
    BY DEF Ctl
  <2>9. HasControl(words) <=> HasControl(parts) \/ (last # <<>> /\ last \in Seq(Ctl))
    BY HasControlAppend
  <2>10. CASE c = " "
    <3>1. WordNext[words][c] = Append(words, <<>>)
      BY <2>10, WordNextAtEnd
    <3>2. HasControl(words)
      BY <2>4, <2>6, <2>10, SpaceIsPlain
    <3> HIDE DEF words
    <3> QED
      BY <2>3, <2>7, <3>1, <3>2, HasControlAppend
  <2>11. CASE c # " " /\ last # <<>> /\ ~(c \in Control <=> last \in Seq(Ctl))
    <3>1. WordNext[words][c] = Append(words, single)
      BY <2>11, WordNextAtEnd
    <3>2. HasControl(words) \/ (single # <<>> /\ single \in Seq(Ctl))
      BY <2>4, <2>6, <2>8
    <3> HIDE DEF words, single
    <3> QED
      BY <2>3, <2>7, <3>1, <3>2, HasControlAppend
  <2>12. CASE c # " " /\ (last = <<>> \/ (c \in Control <=> last \in Seq(Ctl)))
    <3>1. WordNext[words][c] = Append(parts, longer) /\ longer \in Uniform
      BY <2>12, WordNextAtEnd
    <3>2. c \in Control /\ last \in Seq(Ctl) => longer \in Seq(Ctl)
      BY UniformAppend
    <3>3. longer # <<>>
      BY DEF Uniform
    <3>4. HasControl(parts) \/ (longer # <<>> /\ longer \in Seq(Ctl))
      <4>1. CASE HasControl(parts)
        BY <4>1
      <4>2. CASE last # <<>> /\ last \in Seq(Ctl)
        BY <2>12, <3>2, <3>3, <4>2
      <4>3. CASE ~HasControl(words)
        <5>1. c \in Control
          BY <2>4, <2>6, <4>3
        <5>2. last = <<>> \/ last \in Seq(Ctl)
          BY <2>12, <5>1
        <5>3. <<>> \in Seq(Ctl)
          BY EmptySeq
        <5> QED
          BY <3>2, <3>3, <5>1, <5>2, <5>3
      <4> HIDE DEF words, longer
      <4> QED
        BY <2>9, <4>1, <4>2, <4>3
    <3> HIDE DEF words, longer
    <3> QED
      BY <2>3, <3>1, <3>4, HasControlAppend
  <2> QED
    BY <2>10, <2>11, <2>12
<1> HIDE DEF All
<1>3. s \in All
  BY <1>1, <1>2, InductionOnTexts
<1> QED
  BY <1>3 DEF All

NonEmptyNext ==
  [v \in Seq(Seq(Char)) |-> [part \in Seq(Char) |-> IF part = <<>> THEN v ELSE Append(v, part)]]

LEMMA NonEmptyNextStays ==
  ASSUME NEW v \in Seq(Seq(Char)), NEW part \in Seq(Char)
  PROVE  NonEmptyNext[v][part] \in Seq(Seq(Char))
<1> DEFINE V == Seq(Char)
<1>1. v \in Seq(V) /\ part \in V
  OBVIOUS
<1>2. NonEmptyNext[v][part] = IF part = <<>> THEN v ELSE Append(v, part)
  BY DEF NonEmptyNext
<1> HIDE DEF V
<1>3. Append(v, part) \in Seq(V)
  BY <1>1, AppendProperties
<1> QED
  BY <1>1, <1>2, <1>3 DEF V

LEMMA NonEmptyIsFold ==
  ASSUME NEW parts \in Seq(Seq(Char))
  PROVE  NonEmpty(parts) = Fold(Seq(Seq(Char)), <<>>, NonEmptyNext, parts)
<1> DEFINE V == Seq(Seq(Char))
           base == <<>>
           next == NonEmptyNext
           Extended(v, part) == IF part = <<>> THEN v ELSE Append(v, part)
           Is(f) == f = [n \in 0..Len(parts) |-> IF n = 0 THEN base ELSE Extended(f[n - 1], parts[n])]
           f == CHOOSE f : Is(f)
<1>1. NonEmpty(parts) = f[Len(parts)]
  BY DEF NonEmpty, Folded
<1>2. base \in V
  BY EmptySeq
<1>3. \A v \in V, c \in Seq(Char) : next[v][c] = Extended(v, c) /\ next[v][c] \in V
  BY NonEmptyNextStays DEF NonEmptyNext
<1>4. Len(parts) \in Nat /\ \A n \in 1..Len(parts) : parts[n] \in Seq(Char)
  OBVIOUS
<1>5. Stays(V, Seq(Char), next)
  BY <1>3 DEF Stays
<1> HIDE DEF V, base, next
<1>6. \E g : Is(g)
  <2>1. PICK g : IsFold(g, V, base, next, parts)
    BY <1>2, <1>5, FoldExists
  <2>2. g \in [0..Len(parts) -> V] /\ g[0] = base /\ \A n \in 1..Len(parts) : g[n] = next[g[n - 1]][parts[n]]
    BY <2>1 DEF IsFold
  <2> HIDE DEF Extended
  <2>3. ASSUME NEW n \in 0..Len(parts)
        PROVE  g[n] = IF n = 0 THEN base ELSE Extended(g[n - 1], parts[n])
    <3>1. n # 0 => n \in 1..Len(parts) /\ n - 1 \in 0..Len(parts)
      BY <1>4
    <3> QED
      BY <1>3, <1>4, <2>2, <3>1
  <2>4. g = [n \in 0..Len(parts) |-> g[n]]
    BY <2>2
  <2>5. Is(g)
    BY <2>3, <2>4, Zenon
  <2> QED
    BY <2>5
<1>7. Is(f)
  BY <1>6, Zenon
<1> HIDE DEF f, Extended
<1>8. f[0] = base
  BY <1>4, <1>7
<1>9. Follows(f, V, base, next, parts)
  <2> SUFFICES ASSUME NEW n \in 1..Len(parts), f[n - 1] \in V
               PROVE  f[n] = next[f[n - 1]][parts[n]]
    BY <1>8 DEF Follows
  <2>1. n \in 0..Len(parts) /\ n # 0
    BY <1>4
  <2>2. f[n] = Extended(f[n - 1], parts[n])
    BY <1>7, <2>1
  <2> QED
    BY <1>3, <1>4, <2>2
<1> HIDE DEF Is
<1>10. f[Len(parts)] = Fold(V, base, next, parts)
  BY <1>2, <1>5, <1>9, FoldIs
<1> QED
  BY <1>1, <1>10 DEF V, base, next


LEMMA NonEmptyOfAppend ==
  ASSUME NEW parts \in Seq(Seq(Char)), NEW part \in Seq(Char)
  PROVE  /\ NonEmpty(<<>>) = <<>>
         /\ NonEmpty(parts) \in Seq(Seq(Char))
         /\ part = <<>> => NonEmpty(Append(parts, part)) = NonEmpty(parts)
         /\ part # <<>> => NonEmpty(Append(parts, part)) = Append(NonEmpty(parts), part)
<1> DEFINE C == Seq(Char)
           V == Seq(C)
           next == NonEmptyNext
<1>1. <<>> \in V /\ Stays(V, C, next)
  BY NonEmptyNextStays, EmptySeq DEF Stays
<1>2. <<>> \in Seq(C) /\ parts \in Seq(C) /\ part \in C /\ Append(parts, part) \in Seq(C)
  BY EmptySeq, AppendProperties
<1>3. /\ NonEmpty(<<>>) = Fold(V, <<>>, next, <<>>)
      /\ NonEmpty(parts) = Fold(V, <<>>, next, parts)
      /\ NonEmpty(Append(parts, part)) = Fold(V, <<>>, next, Append(parts, part))
  BY <1>2, NonEmptyIsFold
<1>4. \A v \in V : next[v][part] = IF part = <<>> THEN v ELSE Append(v, part)
  BY DEF NonEmptyNext
<1> HIDE DEF V, C, next
<1>6. /\ Fold(V, <<>>, next, <<>>) = <<>>
      /\ Fold(V, <<>>, next, parts) \in V
      /\ Fold(V, <<>>, next, Append(parts, part)) = next[Fold(V, <<>>, next, parts)][part]
  BY <1>1, <1>2, FoldOfEmpty, FoldStays, FoldOfAppend
<1> QED
  BY <1>3, <1>4, <1>6 DEF V, C

\* A part that is not empty is kept.
Among(part, parts) == \E k \in 1..Len(parts) : parts[k] = part

LEMMA AmongAppend ==
  ASSUME NEW parts \in Seq(Seq(Char)), NEW last \in Seq(Char), NEW part
  PROVE  Among(part, Append(parts, last)) <=> Among(part, parts) \/ part = last
<1> DEFINE s == Append(parts, last)
<1>1. /\ Len(s) = Len(parts) + 1 /\ \A i \in 1..Len(parts) : s[i] = parts[i]
      /\ s[Len(parts) + 1] = last /\ Len(parts) \in Nat
  BY LastOfAppend
<1> HIDE DEF s
<1>2. \A i \in 1..Len(s) : i \in 1..Len(parts) \/ i = Len(s)
  BY <1>1
<1>3. \A i \in 1..Len(parts) : i \in 1..Len(s)
  BY <1>1
<1>4. Len(s) \in 1..Len(s)
  BY <1>1
<1> QED
  BY <1>1, <1>2, <1>3, <1>4 DEF Among, s

LEMMA NonEmptyKeeps ==
  ASSUME NEW parts \in Seq(Seq(Char)), NEW part, part # <<>>, Among(part, parts)
  PROVE  Among(part, NonEmpty(parts))
<1> DEFINE All == {p \in Seq(Seq(Char)) : Among(part, p) => Among(part, NonEmpty(p))}
<1>1. <<>> \in All
  BY EmptySeq DEF Among
<1>2. ASSUME NEW p \in Seq(Seq(Char)), p \in All, NEW last \in Seq(Char)
      PROVE  Append(p, last) \in All
  <2>1. /\ NonEmpty(p) \in Seq(Seq(Char))
        /\ last = <<>> => NonEmpty(Append(p, last)) = NonEmpty(p)
        /\ last # <<>> => NonEmpty(Append(p, last)) = Append(NonEmpty(p), last)
    BY NonEmptyOfAppend
  <2>2. Append(p, last) \in Seq(Seq(Char))
    BY AppendProperties
  <2>3. Among(part, Append(p, last)) <=> Among(part, p) \/ part = last
    BY AmongAppend
  <2>4. Among(part, Append(NonEmpty(p), last)) <=> Among(part, NonEmpty(p)) \/ part = last
    BY <2>1, AmongAppend
  <2> QED
    BY <1>2, <2>1, <2>2, <2>3, <2>4
<1> HIDE DEF All
<1>3. parts \in All
  BY <1>1, <1>2, InductionOnTexts
<1> QED
  BY <1>3 DEF All

\* A command text that has words, all of them modeled, has no control
\* character, and its words are what spaces divide.
LEMMA CommandWords ==
  ASSUME NEW s \in Seq(Char), \A token \in ToSet(Words(s)) : ~Unmodeled(token)
  PROVE  s \in Seq(Plain) /\ Words(s) = NonEmpty(Split(s, " "))
<1> DEFINE raw == RawWords(s)
<1>1. Words(s) = NonEmpty(raw)
  BY WordsIsFold DEF RawWords
<1>2. raw \in Seq(Uniform)
  BY RawWordsOfAppend DEF Worded
<1>3. raw \in Seq(Seq(Char))
  <2>1. Plain \subseteq Char /\ Ctl \subseteq Char
    BY DEF Plain, Ctl
  <2>2. Uniform \subseteq Seq(Char)
    BY <2>1, SeqMonotonic DEF Uniform
  <2> QED
    BY <1>2, <2>2, SeqMonotonic
<1> HIDE DEF raw
<1>4. s \in Seq(Plain)
  <2>1. SUFFICES ASSUME s \notin Seq(Plain)
                 PROVE  FALSE
    OBVIOUS
  <2>2. PICK k \in 1..Len(raw) : raw[k] # <<>> /\ raw[k] \in Seq(Ctl)
    BY <2>1, RawWordsOfControl DEF HasControl, raw
  <2> DEFINE token == raw[k]
  <2>3. token # <<>> /\ token \in Seq(Ctl) /\ Among(token, raw)
    BY <2>2 DEF Among
  <2> HIDE DEF token
  <2>4. Among(token, NonEmpty(raw))
    BY <1>3, <2>3, NonEmptyKeeps
  <2>5. token \in ToSet(Words(s))
    <3>1. NonEmpty(raw) \in Seq(Seq(Char))
      BY <1>3, NonEmptyOfAppend, EmptySeq
    <3> QED
      BY <1>1, <2>4, <3>1 DEF Among, ToSet
  <2>6. Chars(token) \subseteq Control
    BY <2>3 DEF Chars, ToSet, Ctl
  <2> QED
    BY <2>3, <2>5, <2>6 DEF Unmodeled
<1> QED
  BY <1>1, <1>4, RawWordsArePlain DEF raw

\* What a command matcher answers yes to.
LEMMA CommandHolds ==
  ASSUME NEW v, NEW e, v.kind = "text", v.text \in Seq(Char),
         Subject("command", v) # None, Holds("command", "argv_prefix", e, Subject("command", v))
  PROVE  LET prefix == Items(e)
             words == NonEmpty(Split(v.text, " "))
         IN /\ Chars(v.text) \intersect (Control \union {"\n"}) = {}
            /\ Len(prefix) <= Len(words)
            /\ \A i \in DOMAIN prefix : GlobMatch(prefix[i].text, words[i])
<1>1. Subject("command", v) = IF "\n" \in Chars(v.text) THEN None ELSE Argv(v)
  BY DEF Subject
<1>2. "\n" \notin Chars(v.text) /\ Argv(v) # None
  BY <1>1
<1>3. Argv(v) = Words(v.text) /\ \A token \in ToSet(Words(v.text)) : ~Unmodeled(token)
  BY <1>2, Zenon DEF Argv
<1>4. v.text \in Seq(Plain) /\ Words(v.text) = NonEmpty(Split(v.text, " "))
  BY <1>3, CommandWords
<1>5. Chars(v.text) \intersect Control = {}
  <2> DEFINE t == v.text
  <2>1. t \in Seq(Plain)
    BY <1>4
  <2>2. \A c \in Plain : c \notin Control
    BY DEF Plain
  <2> HIDE DEF t
  <2>3. \A i \in DOMAIN t : t[i] \notin Control
    BY <2>1, <2>2
  <2>4. Chars(t) \intersect Control = {}
    BY <2>3 DEF Chars, ToSet
  <2> QED
    BY <2>4 DEF t
<1>6. LET prefix == Items(e)
          words == Words(v.text)
      IN /\ Len(prefix) <= Len(words)
         /\ \A i \in DOMAIN prefix : GlobMatch(prefix[i].text, words[i])
  BY <1>1, <1>2, <1>3 DEF Holds
<1> QED
  BY <1>2, <1>4, <1>5, <1>6

-----------------------------------------------------------------------------
(***************************************************************************)
(* SQL: removing comments leaves what a scanner sees outside of them.      *)
(***************************************************************************)
LEMMA LineEndIs ==
  ASSUME NEW s \in Seq(Char), NEW i \in 1..(Len(s) + 1)
  PROVE  /\ LineEnd(s, i) \in i..(Len(s) + 1)
         /\ i <= Len(s) /\ s[i] = "\n" => LineEnd(s, i) = i
         /\ i <= Len(s) /\ s[i] # "\n" => LineEnd(s, i) = LineEnd(s, i + 1)
<1> DEFINE Halts(j) == {Len(s) + 1} \union {k \in j..Len(s) : s[k] = "\n"}
<1>1. Len(s) \in Nat
  OBVIOUS
<1>2. Halts(i) \subseteq Nat /\ Halts(i) # {} /\ Halts(i) \subseteq i..(Len(s) + 1)
  BY <1>1
<1>3. LineEnd(s, i) = Min(Halts(i)) /\ LineEnd(s, i + 1) = Min(Halts(i + 1))
  BY DEF LineEnd
<1>4. Min(Halts(i)) \in Halts(i) /\ \A k \in Halts(i) : Min(Halts(i)) <= k
  <2> DEFINE E == Halts(i)
  <2>1. E \subseteq Nat /\ E # {}
    BY <1>2
  <2> HIDE DEF E
  <2>2. Min(E) \in E /\ \A k \in E : Min(E) <= k
    BY <2>1, LeastIs
  <2> QED
    BY <2>2 DEF E
<1>5. LineEnd(s, i) \in i..(Len(s) + 1)
  BY <1>2, <1>3, <1>4
<1>6. ASSUME i <= Len(s), s[i] = "\n"
      PROVE  LineEnd(s, i) = i
  <2>1. i \in Halts(i)
    BY <1>1, <1>6
  <2>2. Min(Halts(i)) <= i
    BY <1>4, <2>1
  <2> QED
    BY <1>1, <1>3, <1>5, <2>2
<1>7. ASSUME i <= Len(s), s[i] # "\n"
      PROVE  LineEnd(s, i) = LineEnd(s, i + 1)
  <2>1. \A k \in i..Len(s) : s[k] = "\n" => k \in (i + 1)..Len(s)
    BY <1>1, <1>7
  <2>2. \A k \in (i + 1)..Len(s) : k \in i..Len(s)
    BY <1>1
  <2>3. Halts(i) = Halts(i + 1)
    BY <2>1, <2>2
  <2> QED
    BY <1>3, <2>3
<1> QED
  BY <1>5, <1>6, <1>7

Closes(s, i) == i < Len(s) /\ s[i] = "*" /\ s[i + 1] = "/"

LEMMA BlockEndIs ==
  ASSUME NEW s \in Seq(Char), NEW i \in 1..(Len(s) + 1)
  PROVE  /\ BlockEnd(s, i) \in i..(Len(s) + 1)
         /\ Closes(s, i) => BlockEnd(s, i) = i + 2
         /\ i <= Len(s) /\ ~Closes(s, i) => BlockEnd(s, i) = BlockEnd(s, i + 1)
<1> DEFINE Pairs(j) == {k \in j..(Len(s) - 1) : s[k] = "*" /\ s[k + 1] = "/"}
           Halts(j) == {Len(s) + 1} \union {k + 2 : k \in Pairs(j)}
<1>1. Len(s) \in Nat
  OBVIOUS
<1>2. Halts(i) \subseteq Nat /\ Halts(i) # {} /\ Halts(i) \subseteq i..(Len(s) + 1)
  BY <1>1
<1>3. BlockEnd(s, i) = Min(Halts(i)) /\ BlockEnd(s, i + 1) = Min(Halts(i + 1))
  BY DEF BlockEnd
<1>4. Min(Halts(i)) \in Halts(i) /\ \A k \in Halts(i) : Min(Halts(i)) <= k
  <2> DEFINE E == Halts(i)
  <2>1. E \subseteq Nat /\ E # {}
    BY <1>2
  <2> HIDE DEF E
  <2>2. Min(E) \in E /\ \A k \in E : Min(E) <= k
    BY <2>1, LeastIs
  <2> QED
    BY <2>2 DEF E
<1>5. BlockEnd(s, i) \in i..(Len(s) + 1)
  BY <1>2, <1>3, <1>4
<1>6. ASSUME Closes(s, i)
      PROVE  BlockEnd(s, i) = i + 2
  <2>1. i \in Pairs(i)
    BY <1>1, <1>6 DEF Closes
  <2>2. Min(Halts(i)) <= i + 2
    BY <1>4, <2>1
  <2>3. \A k \in Halts(i) : k >= i + 2
    BY <1>1, <1>6 DEF Closes
  <2>4. Min(Halts(i)) >= i + 2
    BY <1>4, <2>3
  <2> QED
    BY <1>2, <1>3, <1>4, <2>2, <2>4
<1>7. ASSUME i <= Len(s), ~Closes(s, i)
      PROVE  BlockEnd(s, i) = BlockEnd(s, i + 1)
  <2>1. \A k \in Pairs(i) : k \in Pairs(i + 1)
    BY <1>1, <1>7 DEF Closes
  <2>2. \A k \in Pairs(i + 1) : k \in Pairs(i)
    BY <1>1
  <2>3. Pairs(i) = Pairs(i + 1)
    BY <2>1, <2>2
  <2> QED
    BY <1>3, <2>3
<1> QED
  BY <1>5, <1>6, <1>7

\* f gives what is left of a text from each position on: what that position
\* gives, and what is left from where it leads to.
Leaves(f, C, to, out, m, n) ==
  /\ f \in [m..n -> Seq(C)]
  /\ f[n] = <<>>
  /\ \A i \in m..(n - 1) : f[i] = out[i] \o f[to[i]]

\* to leads on within 1..n.
Onward(C, to, out, n) == \A i \in 1..(n - 1) : to[i] \in (i + 1)..n /\ out[i] \in Seq(C)

LEMMA LeavesExists ==
  ASSUME NEW C, NEW n \in Nat \ {0}, NEW to, NEW out, Onward(C, to, out, n)
  PROVE  \E f : Leaves(f, C, to, out, 1, n)
<1> DEFINE Solved == {k \in Nat : k < n => \E f : Leaves(f, C, to, out, n - k, n)}
<1>1. 0 \in Solved
  <2> DEFINE f == [i \in n..n |-> <<>>]
  <2>1. f \in [n..n -> Seq(C)] /\ f[n] = <<>>
    BY EmptySeq
  <2> HIDE DEF f
  <2>2. \A i \in n..(n - 1) : FALSE
    OBVIOUS
  <2>3. Leaves(f, C, to, out, n, n)
    BY <2>1, <2>2 DEF Leaves
  <2>4. n - 0 = n
    OBVIOUS
  <2> QED
    BY <2>3, <2>4
<1>2. ASSUME NEW k \in Nat, k \in Solved
      PROVE  k + 1 \in Solved
  <2>1. SUFFICES ASSUME k + 1 < n
                 PROVE  \E f : Leaves(f, C, to, out, n - (k + 1), n)
    OBVIOUS
  <2> DEFINE m == n - k
             p == n - (k + 1)
  <2>2. PICK f : Leaves(f, C, to, out, m, n)
    BY <1>2, <2>1
  <2>3. m \in 2..n /\ p \in 1..(n - 1) /\ m = p + 1
    BY <2>1
  <2> HIDE DEF m, p
  <2>4. f \in [m..n -> Seq(C)] /\ f[n] = <<>> /\ \A i \in m..(n - 1) : f[i] = out[i] \o f[to[i]]
    BY <2>2 DEF Leaves
  <2> DEFINE x == out[p] \o f[to[p]]
             g == [i \in p..n |-> IF i = p THEN x ELSE f[i]]
  <2>5. to[p] \in m..n /\ out[p] \in Seq(C)
    BY <2>3 DEF Onward
  <2>6. x \in Seq(C)
    BY <2>4, <2>5, ConcatIsSeq
  <2> HIDE DEF x
  <2>7. \A i \in p..n : i = p \/ i \in m..n
    BY <2>3
  <2>8. g \in [p..n -> Seq(C)]
    BY <2>4, <2>6, <2>7
  <2>9. \A i \in m..n : i \in p..n /\ g[i] = f[i]
    BY <2>3
  <2>10. n \in m..n /\ p \in p..n
    BY <2>3
  <2>11. g[n] = <<>>
    BY <2>4, <2>9, <2>10
  <2>12. g[p] = out[p] \o g[to[p]]
    BY <2>5, <2>9, <2>10 DEF x
  <2> HIDE DEF g
  <2>13. ASSUME NEW i \in p..(n - 1)
         PROVE  g[i] = out[i] \o g[to[i]]
    <3>1. CASE i = p
      BY <2>12, <3>1
    <3>2. CASE i # p
      <4>1. i \in m..(n - 1) /\ i \in m..n /\ i \in 1..(n - 1)
        BY <2>3, <3>2
      <4>2. to[i] \in m..n
        BY <2>3, <4>1 DEF Onward
      <4> QED
        BY <2>4, <2>9, <4>1, <4>2
    <3> QED
      BY <3>1, <3>2
  <2>14. Leaves(g, C, to, out, p, n)
    BY <2>8, <2>11, <2>13 DEF Leaves
  <2> QED
    BY <2>14 DEF p
<1> HIDE DEF Solved
<1>3. \A k \in Nat : k \in Solved
  BY <1>1, <1>2, InductionOnNat
<1>4. n - 1 \in Nat /\ n - 1 < n /\ n - (n - 1) = 1
  OBVIOUS
<1> QED
  BY <1>3, <1>4 DEF Solved

\* Two functions that agree where they agree behind agree from the start.
AgreeBehind(f, g, n) ==
  /\ n \in Nat \ {0} /\ f[n] = g[n]
  /\ \A i \in 1..(n - 1) : (\A j \in (i + 1)..n : f[j] = g[j]) => f[i] = g[i]

LEMMA AgreeFromEnd ==
  ASSUME NEW n, NEW f, NEW g, AgreeBehind(f, g, n)
  PROVE  f[1] = g[1]
<1> USE DEF AgreeBehind
<1> DEFINE Same == {k \in Nat : k < n => \A i \in (n - k)..n : f[i] = g[i]}
<1>1. 0 \in Same
  <2>1. \A i \in (n - 0)..n : i = n
    OBVIOUS
  <2> QED
    BY <2>1
<1>2. ASSUME NEW k \in Nat, k \in Same
      PROVE  k + 1 \in Same
  <2>1. SUFFICES ASSUME k + 1 < n, NEW i \in (n - (k + 1))..n
                 PROVE  f[i] = g[i]
    OBVIOUS
  <2>2. \A j \in (n - k)..n : f[j] = g[j]
    BY <1>2, <2>1
  <2>3. CASE i \in (n - k)..n
    BY <2>2, <2>3
  <2>4. CASE i = n - (k + 1)
    <3>1. i \in 1..(n - 1) /\ i + 1 = n - k
      BY <2>1, <2>4
    <3> QED
      BY <2>2, <3>1
  <2> QED
    BY <2>1, <2>3, <2>4
<1> HIDE DEF Same
<1>3. \A k \in Nat : k \in Same
  BY <1>1, <1>2, InductionOnNat
<1>4. n - 1 \in Nat /\ n - 1 < n /\ 1 \in (n - (n - 1))..n
  OBVIOUS
<1> QED
  BY <1>3, <1>4 DEF Same

Opens(s, i, a, b) == i < Len(s) /\ s[i] = a /\ s[i + 1] = b

LineOpens(s, i) == s[i] = "#" \/ Opens(s, i, "-", "-")

Shown(c) == IF c = "\n" THEN " " ELSE c

\* Where each position of a text leads to, and what it leaves of the text.
Leads(s) ==
  [i \in 1..Len(s) |-> IF LineOpens(s, i) THEN LineEnd(s, i)
                       ELSE IF Opens(s, i, "/", "*") THEN BlockEnd(s, i + 2)
                       ELSE i + 1]

Gives(s) ==
  [i \in 1..Len(s) |-> IF LineOpens(s, i) \/ Opens(s, i, "/", "*") THEN <<>> ELSE << Shown(s[i]) >>]

LEMMA ShownIsChar ==
  ASSUME NEW c \in Char
  PROVE  Shown(c) \in Char /\ <<Shown(c)>> \in Seq(Char)
<1>1. Shown(c) \in Char
  BY SpaceIsPlain DEF Shown
<1> QED
  BY <1>1, CharText

LEMMA LeadsOnward ==
  ASSUME NEW s \in Seq(Char)
  PROVE  Onward(Char, Leads(s), Gives(s), Len(s) + 1)
<1>1. Len(s) \in Nat
  OBVIOUS
<1>2. SUFFICES ASSUME NEW i \in 1..Len(s)
               PROVE  Leads(s)[i] \in (i + 1)..(Len(s) + 1) /\ Gives(s)[i] \in Seq(Char)
  BY <1>1 DEF Onward
<1>3. CASE LineOpens(s, i)
  <2>1. s[i] # "\n"
    BY <1>3 DEF LineOpens, Opens
  <2>2. LineEnd(s, i) = LineEnd(s, i + 1) /\ i + 1 \in 1..(Len(s) + 1) /\ i \in 1..(Len(s) + 1)
    BY <1>1, <2>1, LineEndIs
  <2>3. LineEnd(s, i + 1) \in (i + 1)..(Len(s) + 1)
    BY <2>2, LineEndIs
  <2> QED
    BY <1>3, <2>2, <2>3, EmptySeq DEF Leads, Gives
<1>4. CASE ~LineOpens(s, i) /\ Opens(s, i, "/", "*")
  <2>1. i + 2 \in 1..(Len(s) + 1)
    BY <1>1, <1>4 DEF Opens
  <2>2. BlockEnd(s, i + 2) \in (i + 2)..(Len(s) + 1)
    BY <2>1, BlockEndIs
  <2>3. BlockEnd(s, i + 2) \in (i + 1)..(Len(s) + 1)
    BY <1>1, <2>2
  <2> QED
    BY <1>4, <2>3, EmptySeq DEF Leads, Gives
<1>5. CASE ~LineOpens(s, i) /\ ~Opens(s, i, "/", "*")
  <2>1. s[i] \in Char
    OBVIOUS
  <2>2. << Shown(s[i]) >> \in Seq(Char)
    BY <2>1, ShownIsChar
  <2>3. Leads(s)[i] = i + 1 /\ Gives(s)[i] = << Shown(s[i]) >>
    BY <1>5 DEF Leads, Gives
  <2> QED
    BY <1>1, <2>2, <2>3
<1> QED
  BY <1>3, <1>4, <1>5

\* f is what removing comments leaves from each position on.
Uncommented(s, f) == Leaves(f, Char, Leads(s), Gives(s), 1, Len(s) + 1)

LEMMA UncommentedAt ==
  ASSUME NEW s \in Seq(Char), NEW f, Uncommented(s, f)
  PROVE  /\ \A i \in 1..(Len(s) + 1) : f[i] \in Seq(Char)
         /\ f[Len(s) + 1] = <<>>
         /\ \A i \in 1..Len(s) :
              /\ LineOpens(s, i) => f[i] = f[LineEnd(s, i)]
              /\ ~LineOpens(s, i) /\ Opens(s, i, "/", "*") => f[i] = f[BlockEnd(s, i + 2)]
              /\ ~LineOpens(s, i) /\ ~Opens(s, i, "/", "*") => f[i] = << Shown(s[i]) >> \o f[i + 1]
<1>1. Len(s) \in Nat
  OBVIOUS
<1>2. /\ f \in [1..(Len(s) + 1) -> Seq(Char)] /\ f[Len(s) + 1] = <<>>
      /\ \A i \in 1..Len(s) : f[i] = Gives(s)[i] \o f[Leads(s)[i]]
  <2>1. (Len(s) + 1) - 1 = Len(s)
    BY <1>1
  <2> QED
    BY <2>1, Zenon DEF Uncommented, Leaves
<1>3. \A i \in 1..Len(s) : Leads(s)[i] \in 1..(Len(s) + 1)
  BY <1>1, LeadsOnward DEF Onward
<1>4. ASSUME NEW i \in 1..Len(s)
      PROVE  /\ LineOpens(s, i) => f[i] = f[LineEnd(s, i)]
             /\ ~LineOpens(s, i) /\ Opens(s, i, "/", "*") => f[i] = f[BlockEnd(s, i + 2)]
             /\ ~LineOpens(s, i) /\ ~Opens(s, i, "/", "*") => f[i] = << Shown(s[i]) >> \o f[i + 1]
  <2>1. f[i] = Gives(s)[i] \o f[Leads(s)[i]] /\ f[Leads(s)[i]] \in Seq(Char)
    BY <1>2, <1>3
  <2> DEFINE x == f[Leads(s)[i]]
  <2>2. <<>> \o x = x
    BY <2>1
  <2>3. ASSUME LineOpens(s, i)
        PROVE  Leads(s)[i] = LineEnd(s, i) /\ Gives(s)[i] = <<>>
    BY <2>3 DEF Leads, Gives
  <2>4. ASSUME ~LineOpens(s, i), Opens(s, i, "/", "*")
        PROVE  Leads(s)[i] = BlockEnd(s, i + 2) /\ Gives(s)[i] = <<>>
    BY <2>4 DEF Leads, Gives
  <2>5. ASSUME ~LineOpens(s, i), ~Opens(s, i, "/", "*")
        PROVE  Leads(s)[i] = i + 1 /\ Gives(s)[i] = << Shown(s[i]) >>
    BY <2>5 DEF Leads, Gives
  <2> QED
    BY <2>1, <2>2, <2>3, <2>4, <2>5
<1> QED
  BY <1>2, <1>4

LEMMA UncommentedIs ==
  ASSUME NEW s \in Seq(Char)
  PROVE  \E f : Uncommented(s, f) /\ StripSqlComments(s) = f[1]
<1> DEFINE n == Len(s) + 1
           Next1(f, i) ==
             CASE i > Len(s) -> <<>>
               [] i <= Len(s) /\ (s[i] = "#" \/ (i < Len(s) /\ s[i] = "-" /\ s[i + 1] = "-")) -> f[LineEnd(s, i)]
               [] i < Len(s) /\ s[i] = "/" /\ s[i + 1] = "*" -> f[BlockEnd(s, i + 2)]
               [] OTHER -> <<IF s[i] = "\n" THEN " " ELSE s[i]>> \o f[i + 1]
           Is(f) == f = [i \in 1..(Len(s) + 1) |-> Next1(f, i)]
           f == CHOOSE f : Is(f)
<1>1. Len(s) \in Nat
  OBVIOUS
<1>2. StripSqlComments(s) = f[1]
  BY DEF StripSqlComments
<1>3. PICK g : Uncommented(s, g)
  BY <1>1, LeadsOnward, LeavesExists DEF Uncommented
<1>4. /\ \A i \in 1..(Len(s) + 1) : g[i] \in Seq(Char)
      /\ g[Len(s) + 1] = <<>>
      /\ \A i \in 1..Len(s) :
              /\ LineOpens(s, i) => g[i] = g[LineEnd(s, i)]
              /\ ~LineOpens(s, i) /\ Opens(s, i, "/", "*") => g[i] = g[BlockEnd(s, i + 2)]
              /\ ~LineOpens(s, i) /\ ~Opens(s, i, "/", "*") => g[i] = << Shown(s[i]) >> \o g[i + 1]
  BY <1>3, UncommentedAt
<1>5. ASSUME NEW h
      PROVE  /\ Next1(h, Len(s) + 1) = <<>>
             /\ \A i \in 1..Len(s) :
                  /\ LineOpens(s, i) => Next1(h, i) = h[LineEnd(s, i)]
                  /\ ~LineOpens(s, i) /\ Opens(s, i, "/", "*") => Next1(h, i) = h[BlockEnd(s, i + 2)]
                  /\ ~LineOpens(s, i) /\ ~Opens(s, i, "/", "*") => Next1(h, i) = << Shown(s[i]) >> \o h[i + 1]
  <2>1. Next1(h, Len(s) + 1) = <<>>
    BY <1>1
  <2>2. ASSUME NEW i \in 1..Len(s), LineOpens(s, i)
        PROVE  Next1(h, i) = h[LineEnd(s, i)]
    <3>1. i <= Len(s) /\ ~(i > Len(s))
      BY <1>1
    <3>2. s[i] = "#" \/ (i < Len(s) /\ s[i] = "-" /\ s[i + 1] = "-")
      BY <2>2 DEF LineOpens, Opens
    <3>3. ~(i < Len(s) /\ s[i] = "/" /\ s[i + 1] = "*")
      BY <3>2
    <3> QED
      BY <3>1, <3>2, <3>3
  <2>3. ASSUME NEW i \in 1..Len(s), ~LineOpens(s, i), Opens(s, i, "/", "*")
        PROVE  Next1(h, i) = h[BlockEnd(s, i + 2)]
    <3>1. i <= Len(s) /\ ~(i > Len(s))
      BY <1>1
    <3>2. ~(s[i] = "#" \/ (i < Len(s) /\ s[i] = "-" /\ s[i + 1] = "-"))
      BY <2>3 DEF LineOpens, Opens
    <3>3. i < Len(s) /\ s[i] = "/" /\ s[i + 1] = "*"
      BY <2>3 DEF Opens
    <3> QED
      BY <3>1, <3>2, <3>3
  <2>4. ASSUME NEW i \in 1..Len(s), ~LineOpens(s, i), ~Opens(s, i, "/", "*")
        PROVE  Next1(h, i) = << Shown(s[i]) >> \o h[i + 1]
    <3>1. i <= Len(s) /\ ~(i > Len(s))
      BY <1>1
    <3>2. ~(s[i] = "#" \/ (i < Len(s) /\ s[i] = "-" /\ s[i + 1] = "-"))
      BY <2>4 DEF LineOpens, Opens
    <3>3. ~(i < Len(s) /\ s[i] = "/" /\ s[i + 1] = "*")
      BY <2>4 DEF Opens
    <3>4. Next1(h, i) = <<IF s[i] = "\n" THEN " " ELSE s[i]>> \o h[i + 1]
      BY <3>1, <3>2, <3>3
    <3> QED
      BY <3>4, Zenon DEF Shown
  <2> QED
    BY <2>1, <2>2, <2>3, <2>4
<1> HIDE DEF Next1
<1>6. \A i \in 1..(Len(s) + 1) : i \in 1..Len(s) \/ i = Len(s) + 1
  BY <1>1
<1>7. \A i \in 1..(Len(s) + 1) : g[i] = Next1(g, i)
  BY <1>4, <1>5, <1>6
<1>8. g = [i \in 1..(Len(s) + 1) |-> g[i]]
  BY <1>1, <1>3 DEF Uncommented, Leaves
<1>9. Is(g)
  BY <1>7, <1>8, Zenon
<1>10. Is(f)
  BY <1>9, Zenon
<1> HIDE DEF f
<1>11. \A i \in 1..(Len(s) + 1) : f[i] = Next1(f, i)
  BY <1>10
<1>12. f[Len(s) + 1] = g[Len(s) + 1]
  <2>1. Len(s) + 1 \in 1..(Len(s) + 1)
    BY <1>1
  <2> QED
    BY <1>4, <1>5, <1>11, <2>1
<1>13. ASSUME NEW i \in 1..Len(s), \A j \in (i + 1)..(Len(s) + 1) : f[j] = g[j]
       PROVE  f[i] = g[i]
  <2>1. i \in 1..(Len(s) + 1) /\ i + 1 \in (i + 1)..(Len(s) + 1)
    BY <1>1
  <2>2. f[i] = Next1(f, i) /\ f[i + 1] = g[i + 1]
    BY <1>11, <1>13, <2>1
  <2>3. Leads(s)[i] \in (i + 1)..(Len(s) + 1)
    BY <1>1, LeadsOnward DEF Onward
  <2>4. f[Leads(s)[i]] = g[Leads(s)[i]]
    BY <1>13, <2>3
  <2>5. CASE LineOpens(s, i)
    <3>1. Leads(s)[i] = LineEnd(s, i)
      BY <2>5 DEF Leads
    <3> QED
      BY <1>4, <1>5, <2>2, <2>4, <2>5, <3>1
  <2>6. CASE ~LineOpens(s, i) /\ Opens(s, i, "/", "*")
    <3>1. Leads(s)[i] = BlockEnd(s, i + 2)
      BY <2>6 DEF Leads
    <3> QED
      BY <1>4, <1>5, <2>2, <2>4, <2>6, <3>1
  <2>7. CASE ~LineOpens(s, i) /\ ~Opens(s, i, "/", "*")
    <3>1. g[i] = << Shown(s[i]) >> \o g[i + 1]
      BY <1>4, <2>7
    <3>2. Next1(f, i) = << Shown(s[i]) >> \o f[i + 1]
      BY <1>5, <2>7
    <3> QED
      BY <2>2, <3>1, <3>2
  <2> QED
    BY <2>5, <2>6, <2>7
<1>14. f[1] = g[1]
  <2>1. n \in Nat \ {0} /\ n - 1 = Len(s) /\ f[n] = g[n]
    BY <1>1, <1>12
  <2>2. \A i \in 1..(n - 1) : (\A j \in (i + 1)..n : f[j] = g[j]) => f[i] = g[i]
    BY <1>13, <2>1
  <2> HIDE DEF n
  <2>3. AgreeBehind(f, g, n)
    BY <2>1, <2>2 DEF AgreeBehind
  <2> QED
    BY <2>3, AgreeFromEnd
<1> QED
  BY <1>2, <1>3, <1>14

Modes == {"code", "string", "line", "block", "veiled"}

ScanState == [mode : Modes, pending : Seq(Char), seen : Seq(Char)]

\* Outside of comments.
InText(r) == r.mode \in {"code", "string"}

Scanning == [r \in ScanState |-> [c \in Char |-> ScanNext(r, c)]]

ScanStart == Scanned("code", <<>>, <<>>)

LEMMA ScannedIs ==
  ASSUME NEW mode \in Modes, NEW pending \in Seq(Char), NEW seen \in Seq(Char)
  PROVE  /\ Scanned(mode, pending, seen) \in ScanState
         /\ Scanned(mode, pending, seen).mode = mode
         /\ Scanned(mode, pending, seen).pending = pending
         /\ Scanned(mode, pending, seen).seen = seen
BY DEF Scanned, ScanState

\* The mode behind a character that opens no comment.
Toggled(r, c) ==
  IF c = Quote THEN IF r.mode = "string" THEN "code" ELSE "string" ELSE r.mode

LEMMA ScanNextStays ==
  ASSUME NEW r \in ScanState, NEW c \in Char
  PROVE  ScanNext(r, c) \in ScanState
<1>1. r.mode \in Modes /\ r.pending \in Seq(Char) /\ r.seen \in Seq(Char)
  BY DEF ScanState
<1>2. r.seen \o r.pending \in Seq(Char)
  BY <1>1, ConcatIsSeq
<1>3. <<Shown(c)>> \in Seq(Char) /\ <<c>> \in Seq(Char) /\ <<" ">> \in Seq(Char) /\ <<>> \in Seq(Char)
  BY ShownIsChar, CharText, LettersAreChars, EmptySeq
<1>4. (r.seen \o r.pending) \o <<Shown(c)>> \in Seq(Char)
  BY <1>2, <1>3, ConcatIsSeq
<1>5. r.seen \o <<" ">> \in Seq(Char)
  BY <1>1, <1>3, ConcatIsSeq
<1> DEFINE a == r.seen \o r.pending
           b == (r.seen \o r.pending) \o <<Shown(c)>>
           d == r.seen \o <<" ">>
<1>6. ASSUME InText(r)
      PROVE  \E mode \in Modes : ScanNext(r, c) \in {Scanned(mode, <<>>, a), Scanned(mode, <<>>, r.seen),
                                                    Scanned(mode, <<c>>, a), Scanned(mode, <<>>, b)}
  <2> HIDE DEF a, b
  <2>1. ScanNext(r, c) = ScanText(r, c)
    BY <1>6 DEF ScanNext, InText
  <2>2. ScanText(r, c) = CASE c = "#" -> Commented(r, "line", a)
             [] r.pending = <<"-">> /\ c = "-" -> Commented(r, "line", r.seen)
             [] r.pending = <<"/">> /\ c = "*" -> Commented(r, "block", r.seen)
             [] c \in {"-", "/"} /\ ~(r.pending = <<"-">> /\ c = "-") -> Scanned(r.mode, <<c>>, a)
             [] OTHER -> Scanned(Toggled(r, c), <<>>, b)
    BY Zenon DEF ScanText, Shown, Toggled, a, b
  <2>3. \A seen : \E mode \in Modes : Commented(r, "line", seen) = Scanned(mode, <<>>, seen)
    BY DEF Commented, Modes
  <2>4. \A seen : \E mode \in Modes : Commented(r, "block", seen) = Scanned(mode, <<>>, seen)
    BY DEF Commented, Modes
  <2>5. r.mode \in Modes /\ Toggled(r, c) \in Modes
    BY <1>1 DEF Toggled, Modes
  <2> QED
    BY <2>1, <2>2, <2>3, <2>4, <2>5, Zenon
<1>7. ASSUME r.mode = "line"
      PROVE  ScanNext(r, c) \in {Scanned("code", <<>>, d), r}
  BY <1>7 DEF ScanNext
<1>8. ASSUME r.mode = "block"
      PROVE  ScanNext(r, c) \in {Scanned("code", <<>>, r.seen), Scanned("block", <<c>>, r.seen)}
  BY <1>8 DEF ScanNext
<1> HIDE DEF a, b, d
<1>9. a \in Seq(Char) /\ b \in Seq(Char) /\ d \in Seq(Char)
  BY <1>2, <1>4, <1>5 DEF a, b, d
<1>10. CASE InText(r)
  <2>1. \A mode \in Modes : /\ Scanned(mode, <<>>, a) \in ScanState /\ Scanned(mode, <<>>, r.seen) \in ScanState
                            /\ Scanned(mode, <<c>>, a) \in ScanState /\ Scanned(mode, <<>>, b) \in ScanState
    BY <1>1, <1>3, <1>9, ScannedIs
  <2> QED
    BY <1>6, <1>10, <2>1
<1>11. CASE r.mode = "line"
  <2>1. Scanned("code", <<>>, d) \in ScanState
    BY <1>1, <1>3, <1>9, ScannedIs DEF Modes
  <2> QED
    BY <1>7, <1>11, <2>1
<1>12. CASE r.mode = "block"
  <2>1. Scanned("code", <<>>, r.seen) \in ScanState /\ Scanned("block", <<c>>, r.seen) \in ScanState
    BY <1>1, <1>3, <1>9, ScannedIs DEF Modes
  <2> QED
    BY <1>8, <1>12, <2>1
<1>13. CASE r.mode = "veiled"
  BY <1>13 DEF ScanNext
<1> QED
  BY <1>1, <1>10, <1>11, <1>12, <1>13 DEF InText, Modes

LEMMA ScanIsFold ==
  ASSUME NEW s \in Seq(Char)
  PROVE  ScanEnd(s) = Fold(ScanState, ScanStart, Scanning, s)
<1> DEFINE V == ScanState
           base == ScanStart
           next == Scanning
           Extended(r, c) == ScanNext(r, c)
           Is(f) == f = [n \in 0..Len(s) |-> IF n = 0 THEN base ELSE Extended(f[n - 1], s[n])]
           f == CHOOSE f : Is(f)
<1>1. ScanEnd(s) = f[Len(s)]
  BY DEF ScanEnd, ScanStart, Folded
<1>2. base \in V
  BY ScannedIs, EmptySeq DEF ScanStart, Modes
<1>3. \A v \in V, c \in Char : next[v][c] = Extended(v, c) /\ next[v][c] \in V
  BY ScanNextStays DEF Scanning
<1>4. Len(s) \in Nat /\ \A n \in 1..Len(s) : s[n] \in Char
  OBVIOUS
<1>5. Stays(V, Char, next)
  BY <1>3 DEF Stays
<1> HIDE DEF V, base, next
<1>6. \E g : Is(g)
  <2>1. PICK g : IsFold(g, V, base, next, s)
    BY <1>2, <1>5, FoldExists
  <2>2. g \in [0..Len(s) -> V] /\ g[0] = base /\ \A n \in 1..Len(s) : g[n] = next[g[n - 1]][s[n]]
    BY <2>1 DEF IsFold
  <2> HIDE DEF Extended
  <2>3. ASSUME NEW n \in 0..Len(s)
        PROVE  g[n] = IF n = 0 THEN base ELSE Extended(g[n - 1], s[n])
    <3>1. n # 0 => n \in 1..Len(s) /\ n - 1 \in 0..Len(s)
      BY <1>4
    <3> QED
      BY <1>3, <1>4, <2>2, <3>1
  <2>4. g = [n \in 0..Len(s) |-> g[n]]
    BY <2>2
  <2>5. Is(g)
    BY <2>3, <2>4, Zenon
  <2> QED
    BY <2>5
<1>7. Is(f)
  BY <1>6, Zenon
<1> HIDE DEF f, Extended
<1>8. f[0] = base
  BY <1>4, <1>7
<1>9. Follows(f, V, base, next, s)
  <2> SUFFICES ASSUME NEW n \in 1..Len(s), f[n - 1] \in V
               PROVE  f[n] = next[f[n - 1]][s[n]]
    BY <1>8 DEF Follows
  <2>1. n \in 0..Len(s) /\ n # 0
    BY <1>4
  <2>2. f[n] = Extended(f[n - 1], s[n])
    BY <1>7, <2>1
  <2> QED
    BY <1>3, <1>4, <2>2
<1> HIDE DEF Is
<1>10. f[Len(s)] = Fold(V, base, next, s)
  BY <1>2, <1>5, <1>9, FoldIs
<1> QED
  BY <1>1, <1>10 DEF V, base, next

\* Before it reads position m, the scanner has seen what is left outside of the
\* comments of s, but for what f leaves from where it is on; a text that is
\* veiled is read no further.
Reads(s, f, r, m) ==
  /\ InText(r) /\ r.pending = <<>> => f[1] = r.seen \o f[m]
  /\ InText(r) /\ r.pending # <<>> =>
       /\ m >= 2 /\ s[m - 1] \in {"-", "/"} /\ r.pending = <<s[m - 1]>>
       /\ f[1] = r.seen \o f[m - 1]
  /\ r.mode = "line" => f[1] = r.seen \o f[LineEnd(s, m)]
  /\ r.mode = "block" /\ r.pending = <<"*">> =>
       m >= 2 /\ s[m - 1] = "*" /\ f[1] = r.seen \o f[BlockEnd(s, m - 1)]
  /\ r.mode = "block" /\ r.pending # <<"*">> => f[1] = r.seen \o f[BlockEnd(s, m)]

\* What a scanner is in between two characters.
Scans(s, f, r, m) ==
  /\ s \in Seq(Char) /\ Uncommented(s, f) /\ r \in ScanState
  /\ Reads(s, f, r, m)

\* No comment opens with the pending character.
Opening(r, c) == (r.pending = <<"-">> /\ c = "-") \/ (r.pending = <<"/">> /\ c = "*")

CodeAt(s, f, r, m) == m \in 1..Len(s) /\ Scans(s, f, r, m) /\ InText(r) /\ ~Opening(r, s[m])

SeenTo(f, r, m) == f[1] = (r.seen \o r.pending) \o f[m]

LEMMA CodeReads ==
  ASSUME NEW s, NEW f, NEW r, NEW m, CodeAt(s, f, r, m)
  PROVE  SeenTo(f, r, m)
<1> USE DEF CodeAt, SeenTo
<1>1. s \in Seq(Char) /\ Uncommented(s, f) /\ Len(s) \in Nat
  BY DEF Scans
<1>2. r.pending \in Seq(Char) /\ r.seen \in Seq(Char)
  BY DEF Scans, ScanState
<1>3. /\ \A i \in 1..(Len(s) + 1) : f[i] \in Seq(Char)
      /\ \A i \in 1..Len(s) :
              ~LineOpens(s, i) /\ ~Opens(s, i, "/", "*") => f[i] = << Shown(s[i]) >> \o f[i + 1]
  BY <1>1, UncommentedAt
<1>4. Reads(s, f, r, m)
  BY DEF Scans
<1>5. CASE r.pending = <<>>
  <2>1. f[1] = r.seen \o f[m]
    BY <1>4, <1>5 DEF Reads
  <2>2. r.seen \o r.pending = r.seen
    BY <1>2, <1>5
  <2> QED
    BY <2>1, <2>2
<1>6. CASE r.pending # <<>>
  <2> DEFINE n == m - 1
             c == s[n]
  <2>1. /\ m >= 2 /\ c \in {"-", "/"} /\ r.pending = <<c>>
        /\ f[1] = r.seen \o f[n]
    BY <1>4, <1>6 DEF Reads
  <2>2. n \in 1..Len(s) /\ n + 1 = m /\ m \in 1..(Len(s) + 1)
    BY <1>1, <2>1
  <2>3. ~Opens(s, n, "/", "*")
    <3>1. SUFFICES ASSUME c = "/", s[n + 1] = "*"
                   PROVE  FALSE
      BY DEF Opens
    <3> QED
      BY <2>1, <2>2, <3>1 DEF Opening
  <2>4. ~LineOpens(s, n)
    <3>1. c # "#"
      BY <2>1
    <3>2. SUFFICES ASSUME c = "-", s[n + 1] = "-"
                   PROVE  FALSE
      BY <3>1 DEF Opens, LineOpens
    <3> QED
      BY <2>1, <2>2, <3>2 DEF Opening
  <2>5. Shown(c) = c
    BY <2>1 DEF Shown
  <2> HIDE DEF c, n
  <2>6. f[n] = <<c>> \o f[m]
    BY <1>3, <2>2, <2>3, <2>4, <2>5 DEF c
  <2> DEFINE t == f[m]
             u == r.seen
             w == r.pending
  <2>7. Three(Char, u, w, t)
    BY <1>2, <1>3, <2>2 DEF Three
  <2> HIDE DEF t, u, w
  <2>8. (u \o w) \o t = u \o (w \o t)
    BY <2>7, ConcatThree
  <2> QED
    BY <2>1, <2>6, <2>8 DEF t, u, w
<1> QED
  BY <1>5, <1>6

\* A character is read in the text, in a line comment, and in a block comment.
LEMMA ScansText ==
  ASSUME NEW s, NEW f, NEW r, NEW m \in 1..Len(s), Scans(s, f, r, m), InText(r)
  PROVE  Reads(s, f, ScanNext(r, s[m]), m + 1)
<1> DEFINE c == s[m]
           q == ScanNext(r, c)
           a == r.seen \o r.pending
<1>1. s \in Seq(Char) /\ Uncommented(s, f) /\ Len(s) \in Nat /\ c \in Char
  BY DEF Scans
<1>2. r.pending \in Seq(Char) /\ r.seen \in Seq(Char)
  BY DEF Scans, ScanState
<1>3. /\ \A i \in 1..(Len(s) + 1) : f[i] \in Seq(Char)
      /\ \A i \in 1..Len(s) :
              /\ LineOpens(s, i) => f[i] = f[LineEnd(s, i)]
              /\ ~LineOpens(s, i) /\ Opens(s, i, "/", "*") => f[i] = f[BlockEnd(s, i + 2)]
              /\ ~LineOpens(s, i) /\ ~Opens(s, i, "/", "*") => f[i] = << Shown(s[i]) >> \o f[i + 1]
  BY <1>1, UncommentedAt
<1>4. a \in Seq(Char) /\ <<c>> \in Seq(Char) /\ <<Shown(c)>> \in Seq(Char) /\ <<>> \in Seq(Char)
  BY <1>1, <1>2, ConcatIsSeq, CharText, ShownIsChar, EmptySeq
<1> HIDE DEF a
<1>5. a \o <<Shown(c)>> \in Seq(Char)
  BY <1>4, ConcatIsSeq
<1>6. q = ScanText(r, c)
  BY DEF ScanNext, InText
<1>7. ScanText(r, c) = CASE c = "#" -> Commented(r, "line", a)
             [] r.pending = <<"-">> /\ c = "-" -> Commented(r, "line", r.seen)
             [] r.pending = <<"/">> /\ c = "*" -> Commented(r, "block", r.seen)
             [] c \in {"-", "/"} /\ ~(r.pending = <<"-">> /\ c = "-") -> Scanned(r.mode, <<c>>, a)
             [] OTHER -> Scanned(Toggled(r, c), <<>>, a \o <<Shown(c)>>)
  BY Zenon DEF ScanText, Shown, Toggled, a
<1>8. ASSUME ~Opening(r, c)
      PROVE  f[1] = a \o f[m]
  <2>1. CodeAt(s, f, r, m)
    BY <1>8 DEF CodeAt
  <2>2. SeenTo(f, r, m)
    BY <2>1, CodeReads
  <2> QED
    BY <2>2 DEF SeenTo, a
<1>9. m + 1 \in 1..(Len(s) + 1) /\ m \in 1..(Len(s) + 1) /\ (m + 1) - 1 = m
  BY <1>1
<1>10. CASE c = "#"
  <2>1. q = Commented(r, "line", a)
    BY <1>6, <1>7, <1>10
  <2> HIDE DEF q
  <2>2. q.mode \in {"line", "veiled"} /\ q.seen = a
    BY <2>1 DEF Commented, Scanned
  <2>3. f[m] = f[LineEnd(s, m)] /\ LineEnd(s, m) = LineEnd(s, m + 1)
    <3>1. LineOpens(s, m) /\ s[m] # "\n"
      BY <1>10 DEF LineOpens
    <3>2. m <= Len(s)
      BY <1>1
    <3>3. LineEnd(s, m) = LineEnd(s, m + 1)
      BY <1>1, <1>9, <3>1, <3>2, LineEndIs
    <3>4. f[m] = f[LineEnd(s, m)]
      BY <1>3, <3>1
    <3> QED
      BY <3>3, <3>4
  <2>4. f[1] = a \o f[m]
    BY <1>8, <1>10 DEF Opening
  <2>5. ~InText(q) /\ q.mode # "block"
    BY <2>2 DEF InText
  <2> QED
    BY <2>2, <2>3, <2>4, <2>5 DEF Reads, q
<1>11. CASE r.pending = <<"-">> /\ c = "-"
  <2>1. q = Commented(r, "line", r.seen)
    BY <1>6, <1>7, <1>11
  <2> HIDE DEF q
  <2>2. q.mode \in {"line", "veiled"} /\ q.seen = r.seen
    BY <2>1 DEF Commented, Scanned
  <2>3. m >= 2 /\ s[m - 1] = "-" /\ f[1] = r.seen \o f[m - 1]
    <3>1. Reads(s, f, r, m) /\ r.pending # <<>>
      BY <1>11 DEF Scans
    <3>2. m >= 2 /\ r.pending = <<s[m - 1]>> /\ f[1] = r.seen \o f[m - 1]
      BY <3>1 DEF Reads
    <3> QED
      BY <1>11, <3>2
  <2> DEFINE n == m - 1
  <2>4. n \in 1..Len(s) /\ n \in 1..(Len(s) + 1) /\ n + 1 = m /\ n < Len(s) /\ n <= Len(s)
    BY <1>1, <2>3
  <2>5. s[n] = "-"
    BY <2>3
  <2> HIDE DEF n
  <2>6. LineOpens(s, n)
    BY <1>11, <2>4, <2>5 DEF LineOpens, Opens
  <2>7. f[n] = f[LineEnd(s, n)]
    BY <1>3, <2>4, <2>6
  <2>8. LineEnd(s, n) = LineEnd(s, n + 1)
    BY <1>1, <2>4, <2>5, LineEndIs
  <2>9. LineEnd(s, m) = LineEnd(s, m + 1)
    BY <1>1, <1>9, <1>11, LineEndIs
  <2>10. f[1] = r.seen \o f[LineEnd(s, m + 1)]
    BY <2>3, <2>4, <2>7, <2>8, <2>9 DEF n
  <2>11. ~InText(q) /\ q.mode # "block"
    BY <2>2 DEF InText
  <2> QED
    BY <2>2, <2>10, <2>11 DEF Reads, q
<1>12. CASE r.pending = <<"/">> /\ c = "*"
  <2>1. q = Commented(r, "block", r.seen)
    <3>1. c # "#" /\ ~(r.pending = <<"-">> /\ c = "-")
      BY <1>12
    <3> QED
      BY <1>6, <1>7, <1>12, <3>1
  <2> HIDE DEF q
  <2>2. q.mode \in {"block", "veiled"} /\ q.pending = <<>> /\ q.seen = r.seen
    BY <2>1 DEF Commented, Scanned
  <2>3. m >= 2 /\ s[m - 1] = "/" /\ f[1] = r.seen \o f[m - 1]
    <3>1. Reads(s, f, r, m) /\ r.pending # <<>>
      BY <1>12 DEF Scans
    <3>2. m >= 2 /\ r.pending = <<s[m - 1]>> /\ f[1] = r.seen \o f[m - 1]
      BY <3>1 DEF Reads
    <3> QED
      BY <1>12, <3>2
  <2> DEFINE n == m - 1
  <2>4. n \in 1..Len(s) /\ n + 1 = m /\ n < Len(s) /\ n + 2 = m + 1
    BY <1>1, <2>3
  <2>5. s[n] = "/"
    BY <2>3
  <2> HIDE DEF n
  <2>6. Opens(s, n, "/", "*") /\ ~LineOpens(s, n)
    BY <1>12, <2>4, <2>5 DEF LineOpens, Opens
  <2>7. f[n] = f[BlockEnd(s, n + 2)]
    BY <1>3, <2>4, <2>6
  <2>8. f[1] = r.seen \o f[BlockEnd(s, m + 1)]
    BY <2>3, <2>4, <2>7 DEF n
  <2>9. ~InText(q) /\ q.mode # "line" /\ q.pending # <<"*">>
    BY <2>2 DEF InText
  <2> QED
    BY <2>2, <2>8, <2>9 DEF Reads, q
<1>13. CASE c \in {"-", "/"} /\ ~Opening(r, c)
  <2>1. q = Scanned(r.mode, <<c>>, a)
    <3>1. c # "#" /\ ~(r.pending = <<"-">> /\ c = "-") /\ c # "*"
      BY <1>13 DEF Opening
    <3> QED
      BY <1>6, <1>7, <1>13, <3>1
  <2> HIDE DEF q
  <2>2. InText(q) /\ q.pending = <<c>> /\ q.seen = a
    BY <2>1 DEF Scanned, InText
  <2>3. f[1] = a \o f[m]
    BY <1>8, <1>13
  <2>4. m + 1 >= 2 /\ s[(m + 1) - 1] = c
    BY <1>1, <1>9
  <2>5. q.mode # "line" /\ q.mode # "block" /\ q.pending # <<>>
    BY <2>2 DEF InText
  <2> QED
    BY <1>9, <1>13, <2>2, <2>3, <2>4, <2>5 DEF Reads, q
<1>14. CASE c \notin {"-", "/", "#"} /\ ~Opening(r, c)
  <2>1. q = Scanned(Toggled(r, c), <<>>, a \o <<Shown(c)>>)
    <3>1. c # "#" /\ c \notin {"-", "/"} /\ ~(r.pending = <<"-">> /\ c = "-") /\ ~(r.pending = <<"/">> /\ c = "*")
      BY <1>14 DEF Opening
    <3> QED
      BY <1>6, <1>7, <3>1
  <2> HIDE DEF q
  <2>2. InText(q) /\ q.pending = <<>> /\ q.seen = a \o <<Shown(c)>>
    BY <2>1 DEF Scanned, InText, Toggled
  <2>3. ~LineOpens(s, m) /\ ~Opens(s, m, "/", "*")
    BY <1>14 DEF LineOpens, Opens
  <2>4. f[m] = <<Shown(c)>> \o f[m + 1]
    BY <1>3, <2>3
  <2>5. f[1] = a \o f[m]
    BY <1>8, <1>14
  <2>6. f[1] = (a \o <<Shown(c)>>) \o f[m + 1]
    <3> DEFINE t == f[m + 1]
               w == <<Shown(c)>>
    <3>1. Three(Char, a, w, t)
      BY <1>3, <1>4, <1>9 DEF Three
    <3> HIDE DEF t, w
    <3>2. (a \o w) \o t = a \o (w \o t)
      BY <3>1, ConcatThree
    <3> QED
      BY <2>4, <2>5, <3>2 DEF t, w
  <2>7. q.mode # "line" /\ q.mode # "block"
    BY <2>2 DEF InText
  <2> QED
    BY <2>2, <2>6, <2>7 DEF Reads, q
<1> QED
  BY <1>10, <1>11, <1>12, <1>13, <1>14 DEF Opening

LEMMA ScansLine ==
  ASSUME NEW s, NEW f, NEW r, NEW m \in 1..Len(s), Scans(s, f, r, m), r.mode = "line"
  PROVE  Reads(s, f, ScanNext(r, s[m]), m + 1)
<1> DEFINE c == s[m]
           q == ScanNext(r, c)
<1>1. s \in Seq(Char) /\ Uncommented(s, f) /\ Len(s) \in Nat /\ m \in 1..(Len(s) + 1)
      /\ m + 1 \in 1..(Len(s) + 1) /\ m <= Len(s)
  BY DEF Scans
<1>2. r.seen \in Seq(Char) /\ <<" ">> \in Seq(Char) /\ <<>> \in Seq(Char)
  BY LettersAreChars, EmptySeq DEF Scans, ScanState
<1>3. f[1] = r.seen \o f[LineEnd(s, m)]
  BY DEF Scans, Reads
<1>4. CASE c = "\n"
  <2>1. q = Scanned("code", <<>>, r.seen \o <<" ">>)
    BY <1>4 DEF ScanNext
  <2> HIDE DEF q
  <2>2. InText(q) /\ q.pending = <<>> /\ q.seen = r.seen \o <<" ">>
    BY <2>1 DEF Scanned, InText
  <2>3. LineEnd(s, m) = m
    BY <1>1, <1>4, LineEndIs
  <2>4. ~LineOpens(s, m) /\ ~Opens(s, m, "/", "*") /\ Shown(c) = " "
    BY <1>4 DEF LineOpens, Opens, Shown
  <2>5. f[m] = << Shown(s[m]) >> \o f[m + 1] /\ f[m + 1] \in Seq(Char)
    BY <1>1, <2>4, UncommentedAt
  <2>6. f[1] = (r.seen \o <<" ">>) \o f[m + 1]
    <3> DEFINE t == f[m + 1]
               u == r.seen
               w == <<" ">>
    <3>1. Three(Char, u, w, t)
      BY <1>2, <2>5 DEF Three
    <3>2. f[m] = w \o t
      BY <2>4, <2>5
    <3> HIDE DEF t, u, w
    <3>3. (u \o w) \o t = u \o (w \o t)
      BY <3>1, ConcatThree
    <3> QED
      BY <1>3, <2>3, <3>2, <3>3 DEF t, u, w
  <2>7. q.mode # "line" /\ q.mode # "block"
    BY <2>2 DEF InText
  <2> QED
    BY <2>2, <2>6, <2>7 DEF Reads, q
<1>5. CASE c # "\n"
  <2>1. q = r
    BY <1>5 DEF ScanNext
  <2>2. LineEnd(s, m) = LineEnd(s, m + 1)
    BY <1>1, <1>5, LineEndIs
  <2>3. q.mode = "line" /\ ~InText(q) /\ q.mode # "block" /\ q.seen = r.seen
    BY <2>1 DEF InText
  <2> QED
    BY <1>3, <2>2, <2>3 DEF Reads, q
<1> QED
  BY <1>4, <1>5

LEMMA ScansBlock ==
  ASSUME NEW s, NEW f, NEW r, NEW m \in 1..Len(s), Scans(s, f, r, m), r.mode = "block"
  PROVE  Reads(s, f, ScanNext(r, s[m]), m + 1)
<1> DEFINE c == s[m]
           q == ScanNext(r, c)
           n == m - 1
<1>1. s \in Seq(Char) /\ Uncommented(s, f) /\ Len(s) \in Nat /\ m \in 1..(Len(s) + 1)
      /\ m + 1 \in 1..(Len(s) + 1) /\ m <= Len(s) /\ c \in Char /\ (m + 1) - 1 = m /\ m + 1 >= 2
  BY DEF Scans
<1>2. r.seen \in Seq(Char) /\ <<c>> \in Seq(Char) /\ <<>> \in Seq(Char)
  BY <1>1, CharText, EmptySeq DEF Scans, ScanState
<1>3. Reads(s, f, r, m)
  BY DEF Scans
<1>4. ASSUME r.pending = <<"*">>
      PROVE  /\ n \in 1..(Len(s) + 1) /\ n + 1 = m /\ n < Len(s) /\ n + 2 = m + 1
             /\ s[n] = "*" /\ f[1] = r.seen \o f[BlockEnd(s, n)]
  <2>1. m >= 2 /\ s[n] = "*" /\ f[1] = r.seen \o f[BlockEnd(s, n)]
    BY <1>3, <1>4 DEF Reads
  <2>2. n \in 1..(Len(s) + 1) /\ n + 1 = m /\ n < Len(s) /\ n + 2 = m + 1
    BY <1>1, <2>1
  <2> QED
    BY <2>1, <2>2
<1> HIDE DEF n
<1>5. CASE r.pending = <<"*">> /\ c = "/"
  <2>1. q = Scanned("code", <<>>, r.seen)
    BY <1>5 DEF ScanNext
  <2> HIDE DEF q
  <2>2. InText(q) /\ q.pending = <<>> /\ q.seen = r.seen
    BY <2>1 DEF Scanned, InText
  <2>3. Closes(s, n)
    BY <1>4, <1>5 DEF Closes
  <2>4. BlockEnd(s, n) = m + 1
    BY <1>1, <1>4, <1>5, <2>3, BlockEndIs
  <2>5. q.mode # "line" /\ q.mode # "block"
    BY <2>2 DEF InText
  <2> QED
    BY <1>4, <1>5, <2>2, <2>4, <2>5 DEF Reads, q
<1>6. CASE ~(r.pending = <<"*">> /\ c = "/")
  <2>1. q = Scanned("block", <<c>>, r.seen)
    BY <1>6 DEF ScanNext
  <2> HIDE DEF q
  <2>2. q.mode = "block" /\ q.pending = <<c>> /\ q.seen = r.seen
    BY <2>1 DEF Scanned
  <2>3. f[1] = r.seen \o f[BlockEnd(s, m)]
    <3>1. CASE r.pending = <<"*">>
      <4>1. ~Closes(s, n)
        BY <1>4, <1>6, <3>1 DEF Closes
      <4>2. BlockEnd(s, n) = BlockEnd(s, n + 1)
        BY <1>1, <1>4, <3>1, <4>1, BlockEndIs
      <4> QED
        BY <1>4, <3>1, <4>2
    <3>2. CASE r.pending # <<"*">>
      BY <1>3, <3>2 DEF Reads
    <3> QED
      BY <3>1, <3>2
  <2>4. c # "*" => BlockEnd(s, m) = BlockEnd(s, m + 1)
    <3>1. c # "*" => ~Closes(s, m)
      BY DEF Closes
    <3> QED
      BY <1>1, <3>1, BlockEndIs
  <2>5. q.mode # "line" /\ ~InText(q) /\ (q.pending = <<"*">> <=> c = "*")
    BY <2>2 DEF InText
  <2> QED
    BY <1>1, <2>2, <2>3, <2>4, <2>5 DEF Reads, q
<1> QED
  BY <1>5, <1>6

LEMMA ScansTrace ==
  ASSUME NEW s \in Seq(Char), NEW f, Uncommented(s, f)
  PROVE  Scans(s, f, ScanEnd(s), Len(s) + 1)
<1>1. Len(s) \in Nat
  OBVIOUS
<1>2. \A r \in ScanState, c \in Char : Scanning[r][c] = ScanNext(r, c) /\ Scanning[r][c] \in ScanState
  BY ScanNextStays DEF Scanning
<1>3. Stays(ScanState, Char, Scanning)
  BY <1>2 DEF Stays
<1>4. ScanStart \in ScanState
  BY ScannedIs, EmptySeq DEF ScanStart, Modes
<1>5. PICK g : IsFold(g, ScanState, ScanStart, Scanning, s)
  BY <1>3, <1>4, FoldExists
<1>6. /\ \A n \in 0..Len(s) : g[n] \in ScanState
      /\ g[0] = ScanStart /\ \A n \in 1..Len(s) : g[n] = Scanning[g[n - 1]][s[n]]
      /\ g[Len(s)] = Fold(ScanState, ScanStart, Scanning, s)
  BY <1>3, <1>4, <1>5, FoldTrace
<1>7. ScanEnd(s) = g[Len(s)]
  BY <1>6, ScanIsFold
<1> DEFINE Right == {n \in Nat : n <= Len(s) => Reads(s, f, g[n], n + 1)}
<1>8. 0 \in Right
  <2> DEFINE r == g[0]
  <2>1. r = Scanned("code", <<>>, <<>>)
    BY <1>6 DEF ScanStart
  <2> HIDE DEF r
  <2>2. InText(r) /\ r.pending = <<>> /\ r.seen = <<>>
    BY <2>1 DEF Scanned, InText
  <2>3. f[1] \in Seq(Char)
    <3>1. 1 \in 1..(Len(s) + 1)
      BY <1>1
    <3> QED
      BY <3>1, UncommentedAt
  <2>4. f[1] = <<>> \o f[0 + 1]
    BY <2>3
  <2>5. r.mode # "line" /\ r.mode # "block"
    BY <2>2 DEF InText
  <2>6. Reads(s, f, r, 0 + 1)
    BY <2>2, <2>4, <2>5 DEF Reads
  <2> QED
    BY <2>6 DEF r
<1>9. ASSUME NEW n \in Nat, n \in Right
      PROVE  n + 1 \in Right
  <2>1. SUFFICES ASSUME n + 1 <= Len(s)
                 PROVE  Reads(s, f, g[n + 1], (n + 1) + 1)
    OBVIOUS
  <2> DEFINE m == n + 1
             r == g[n]
  <2>2. m \in 1..Len(s) /\ n \in 0..Len(s) /\ n <= Len(s) /\ m - 1 = n
    BY <1>1, <2>1
  <2>3. Reads(s, f, r, m)
    BY <1>9, <2>2
  <2> HIDE DEF m, r
  <2>4. r \in ScanState
    BY <1>6, <2>2 DEF r
  <2>5. g[m] = ScanNext(r, s[m])
    <3>1. s[m] \in Char
      BY <2>2
    <3>2. g[m] = Scanning[r][s[m]]
      BY <1>6, <2>2 DEF r
    <3> QED
      BY <1>2, <2>4, <3>1, <3>2
  <2>6. Scans(s, f, r, m)
    BY <2>3, <2>4 DEF Scans
  <2>7. InText(r) \/ r.mode \in {"line", "block", "veiled"}
    BY <2>4 DEF ScanState, Modes, InText
  <2>8. r.mode = "veiled" => Reads(s, f, ScanNext(r, s[m]), m + 1)
    BY DEF ScanNext, Reads, InText
  <2>9. Reads(s, f, ScanNext(r, s[m]), m + 1)
    BY <2>2, <2>6, <2>7, <2>8, ScansText, ScansLine, ScansBlock
  <2> QED
    BY <2>5, <2>9 DEF m
<1> HIDE DEF Right
<1>10. \A n \in Nat : n \in Right
  BY <1>8, <1>9, InductionOnNat
<1>11. Reads(s, f, g[Len(s)], Len(s) + 1)
  BY <1>1, <1>10 DEF Right
<1>12. g[Len(s)] \in ScanState
  BY <1>1, <1>6
<1> QED
  BY <1>7, <1>11, <1>12 DEF Scans

LEMMA ScanIsStrip ==
  ASSUME NEW s \in Seq(Char), ~Veiled(s)
  PROVE  Scan(s) = StripSqlComments(s) /\ Scan(s) \in Seq(Char)
<1>1. PICK f : Uncommented(s, f) /\ StripSqlComments(s) = f[1]
  BY UncommentedIs
<1>2. Len(s) \in Nat /\ 1 \in 1..(Len(s) + 1) /\ Len(s) + 1 \in 1..(Len(s) + 1) /\ (Len(s) + 1) - 1 = Len(s)
  OBVIOUS
<1>3. /\ f[1] \in Seq(Char) /\ f[Len(s) + 1] = <<>>
      /\ \A i \in 1..Len(s) :
           ~LineOpens(s, i) /\ ~Opens(s, i, "/", "*") => f[i] = << Shown(s[i]) >> \o f[i + 1]
  BY <1>1, <1>2, UncommentedAt
<1> DEFINE r == ScanEnd(s)
<1>4. Scans(s, f, r, Len(s) + 1)
  BY <1>1, ScansTrace
<1>5. /\ Scan(s) = IF InText(r) THEN r.seen \o r.pending ELSE r.seen
      /\ r.mode # "veiled"
  BY DEF Scan, InText, Veiled
<1> HIDE DEF r
<1>6. (InText(r) \/ r.mode \in {"line", "block"}) /\ r.pending \in Seq(Char) /\ r.seen \in Seq(Char)
      /\ Reads(s, f, r, Len(s) + 1)
  BY <1>4, <1>5 DEF Scans, ScanState, Modes, InText
<1>7. r.seen \o <<>> = r.seen
  BY <1>6
<1>8. CASE InText(r) /\ r.pending = <<>>
  <2>1. f[1] = r.seen \o f[Len(s) + 1]
    BY <1>6, <1>8 DEF Reads
  <2>2. Scan(s) = r.seen \o <<>>
    BY <1>5, <1>8
  <2> QED
    BY <1>1, <1>3, <2>1, <2>2
<1>9. CASE InText(r) /\ r.pending # <<>>
  <2> DEFINE n == Len(s)
             c == s[n]
  <2>1. /\ n + 1 >= 2 /\ c \in {"-", "/"} /\ r.pending = <<c>>
        /\ f[1] = r.seen \o f[n]
    BY <1>2, <1>6, <1>9 DEF Reads
  <2>2. n \in 1..Len(s)
    BY <1>2, <2>1
  <2>3. ~LineOpens(s, n) /\ ~Opens(s, n, "/", "*")
    BY <1>2, <2>1 DEF LineOpens, Opens
  <2>4. f[n] = << Shown(c) >> \o f[n + 1]
    BY <1>3, <2>2, <2>3
  <2>5. Shown(c) = c /\ f[n + 1] = <<>>
    BY <1>3, <2>1 DEF Shown
  <2>6. f[n] = <<c>> \o <<>>
    BY <2>4, <2>5
  <2>7. <<c>> \o <<>> = <<c>>
    OBVIOUS
  <2>8. f[n] = r.pending
    BY <2>1, <2>6, <2>7
  <2>9. Scan(s) = r.seen \o r.pending
    BY <1>5, <1>9
  <2> QED
    BY <1>1, <1>3, <2>1, <2>8, <2>9
<1>10. CASE r.mode = "line"
  <2>1. f[1] = r.seen \o f[LineEnd(s, Len(s) + 1)]
    BY <1>6, <1>10 DEF Reads
  <2>2. LineEnd(s, Len(s) + 1) = Len(s) + 1
    <3>1. LineEnd(s, Len(s) + 1) \in (Len(s) + 1)..(Len(s) + 1)
      BY <1>2, LineEndIs
    <3> QED
      BY <1>2, <3>1
  <2>3. Scan(s) = r.seen
    BY <1>5, <1>10 DEF InText
  <2> QED
    BY <1>1, <1>3, <1>7, <2>1, <2>2, <2>3
<1>11. CASE r.mode = "block"
  <2>1. BlockEnd(s, Len(s) + 1) = Len(s) + 1
    <3>1. BlockEnd(s, Len(s) + 1) \in (Len(s) + 1)..(Len(s) + 1)
      BY <1>2, BlockEndIs
    <3> QED
      BY <1>2, <3>1
  <2>2. f[1] = r.seen \o f[Len(s) + 1]
    <3>1. CASE r.pending = <<"*">>
      <4>1. Len(s) + 1 >= 2 /\ f[1] = r.seen \o f[BlockEnd(s, Len(s))]
        BY <1>2, <1>6, <1>11, <3>1 DEF Reads
      <4>2. Len(s) \in 1..(Len(s) + 1) /\ Len(s) <= Len(s) /\ ~Closes(s, Len(s))
        BY <1>2, <4>1 DEF Closes
      <4>3. BlockEnd(s, Len(s)) = BlockEnd(s, Len(s) + 1)
        BY <4>2, BlockEndIs
      <4> QED
        BY <2>1, <4>1, <4>3
    <3>2. CASE r.pending # <<"*">>
      <4>1. f[1] = r.seen \o f[BlockEnd(s, Len(s) + 1)]
        BY <1>6, <1>11, <3>2 DEF Reads
      <4> QED
        BY <2>1, <4>1
    <3> QED
      BY <3>1, <3>2
  <2>3. Scan(s) = r.seen
    BY <1>5, <1>11 DEF InText
  <2> QED
    BY <1>1, <1>3, <1>7, <2>2, <2>3
<1> QED
  BY <1>6, <1>8, <1>9, <1>10, <1>11

-----------------------------------------------------------------------------
\* Positions of a text.
LEMMA SubSeqIs ==
  ASSUME NEW C, NEW s \in Seq(C), NEW a \in 1..(Len(s) + 1), NEW b \in (a - 1)..Len(s)
  PROVE  /\ SubSeq(s, a, b) \in Seq(C)
         /\ Len(SubSeq(s, a, b)) = (b - a) + 1
         /\ \A i \in 1..((b - a) + 1) : SubSeq(s, a, b)[i] = s[(a + i) - 1]
OBVIOUS

\* A text cut at a position.
LEMMA CutAt ==
  ASSUME NEW C, NEW s \in Seq(C), NEW j \in 1..Len(s)
  PROVE  s = SubSeq(s, 1, j - 1) \o <<s[j]>> \o SubSeq(s, j + 1, Len(s))
<1>1. Len(s) \in Nat /\ Len(s) \in 1..Len(s) /\ 1 \in 1..(Len(s) + 1)
  OBVIOUS
<1>2. SubSeq(s, 1, j) = SubSeq(s, 1, j - 1) \o <<s[j]>>
  <2>1. 1 \in 1..Len(s) /\ j \in 1..Len(s)
    BY <1>1
  <2> QED
    BY <2>1, SubSeqRecursiveSecond
<1>3. s = SubSeq(s, 1, j) \o SubSeq(s, j + 1, Len(s))
  <2>1. SubSeq(s, 1, Len(s)) = s
    BY SubSeqFull
  <2>2. j \in (1 - 1)..Len(s) /\ Len(s) \in j..Len(s) /\ 1 \in 1..(Len(s) + 1)
    BY <1>1
  <2>3. SubSeq(s, 1, j) \o SubSeq(s, j + 1, Len(s)) = SubSeq(s, 1, Len(s))
    BY <2>2, ConcatAdjacentSubSeq
  <2> QED
    BY <2>1, <2>3
<1> QED
  BY <1>2, <1>3

-----------------------------------------------------------------------------
\* Stripping s of chars leaves the positions from lo to hi.
Spans(C, s, chars, lo, hi) ==
  /\ s \in Seq(C) /\ lo \in 1..Len(s) /\ hi \in lo..Len(s)
  /\ \A i \in 1..(lo - 1) : s[i] \in chars
  /\ \A i \in (hi + 1)..Len(s) : s[i] \in chars
  /\ s[lo] \notin chars /\ s[hi] \notin chars

LEMMA StripSpans ==
  ASSUME NEW C, NEW s, NEW chars, NEW lo, NEW hi, Spans(C, s, chars, lo, hi)
  PROVE  Strip(s, chars) = SubSeq(s, lo, hi)
<1>1. /\ s \in Seq(C) /\ lo \in 1..Len(s) /\ hi \in lo..Len(s) /\ Len(s) \in Nat
      /\ \A i \in 1..(lo - 1) : s[i] \in chars
      /\ \A i \in (hi + 1)..Len(s) : s[i] \in chars
      /\ s[lo] \notin chars /\ s[hi] \notin chars
  BY DEF Spans
<1>2. PICK k \in 0..Len(s) : /\ RStrip(s, chars) = SubSeq(s, 1, k)
                             /\ \A i \in (k + 1)..Len(s) : s[i] \in chars
                             /\ k > 0 => s[k] \notin chars
  BY <1>1, RStripIs
<1>3. k = hi
  BY <1>1, <1>2
<1> DEFINE t == SubSeq(s, 1, hi)
<1>4. 1 \in 1..(Len(s) + 1) /\ hi \in (1 - 1)..Len(s) /\ (hi - 1) + 1 = hi /\ hi \in 1..Len(s) /\ 1 \in 1..Len(s)
  BY <1>1
<1>5. t \in Seq(C) /\ Len(t) = hi /\ \A i \in 1..hi : t[i] = s[i]
  <2>1. /\ t \in Seq(C) /\ Len(t) = (hi - 1) + 1
        /\ \A i \in 1..((hi - 1) + 1) : t[i] = s[(1 + i) - 1]
    BY <1>1, <1>4, SubSeqIs
  <2>2. \A i \in 1..hi : (1 + i) - 1 = i
    BY <1>4
  <2> QED
    BY <1>4, <2>1, <2>2
<1> HIDE DEF t
<1>6. PICK j \in 1..(Len(t) + 1) : /\ LStrip(t, chars) = SubSeq(t, j, Len(t))
                                   /\ \A i \in 1..(j - 1) : t[i] \in chars
                                   /\ j <= Len(t) => t[j] \notin chars
  BY <1>5, LStripIs
<1>7. j = lo
  BY <1>1, <1>4, <1>5, <1>6
<1>8. Strip(s, chars) = SubSeq(t, lo, hi)
  BY <1>2, <1>3, <1>5, <1>6, <1>7 DEF Strip, t
<1>9. SubSeq(t, lo, hi) = SubSeq(s, (1 + lo) - 1, (1 + hi) - 1)
  <2>1. hi \in 1..Len(s) /\ lo \in 1..((hi - 1) + 1) /\ hi \in 1..((hi - 1) + 1)
    BY <1>1, <1>4
  <2> QED
    BY <1>1, <1>4, <2>1, SubSeqOfSubSeq DEF t
<1>10. (1 + lo) - 1 = lo /\ (1 + hi) - 1 = hi
  BY <1>1
<1> QED
  BY <1>8, <1>9, <1>10

LEMMA StripToNothing ==
  ASSUME NEW C, NEW s \in Seq(C), NEW chars, \A i \in 1..Len(s) : s[i] \in chars
  PROVE  Strip(s, chars) = <<>>
<1>1. RStrip(s, chars) = <<>>
  BY AllToStrip
<1>2. ASSUME NEW t \in Seq(C), Len(t) = 0
      PROVE  LStrip(t, chars) = <<>>
  <2>1. PICK k \in 1..(Len(t) + 1) : LStrip(t, chars) = SubSeq(t, k, Len(t))
    BY LStripIs
  <2>2. k = 1
    BY <1>2, <2>1
  <2> QED
    BY <1>2, <2>1, <2>2, SubSeqEmpty
<1>3. <<>> \in Seq(C) /\ Len(<<>>) = 0
  BY EmptySeq
<1>4. LStrip(<<>>, chars) = <<>>
  BY <1>2, <1>3
<1> QED
  BY <1>1, <1>4 DEF Strip

LEMMA SpansExist ==
  ASSUME NEW C, NEW s \in Seq(C), NEW chars, \E i \in 1..Len(s) : s[i] \notin chars
  PROVE  \E lo, hi : Spans(C, s, chars, lo, hi)
<1>1. Len(s) \in Nat
  OBVIOUS
<1>2. PICK i \in 1..Len(s) : s[i] \notin chars
  OBVIOUS
<1>3. PICK hi \in 0..Len(s) : /\ \A k \in (hi + 1)..Len(s) : s[k] \in chars
                              /\ hi > 0 => s[hi] \notin chars
  BY RStripIs
<1>4. PICK lo \in 1..(Len(s) + 1) : /\ \A k \in 1..(lo - 1) : s[k] \in chars
                                    /\ lo <= Len(s) => s[lo] \notin chars
  BY LStripIs
<1>5. lo <= i /\ i <= hi
  BY <1>1, <1>2, <1>3, <1>4
<1>6. Spans(C, s, chars, lo, hi)
  BY <1>1, <1>3, <1>4, <1>5 DEF Spans
<1> QED
  BY <1>6

\* The first part of a text, as long as it is up to the first blank: the first
\* k characters of s.
FirstPart(s, blank) == Split(s, blank)[1]

FirstEnds(s, blank, k) ==
  /\ s \in Seq(Char) /\ k \in 0..Len(s)
  /\ \A i \in 1..k : s[i] # blank
  /\ k < Len(s) => s[k + 1] = blank

LEMMA FirstEndsExists ==
  ASSUME NEW blank, NEW s \in Seq(Char)
  PROVE  \E k : FirstEnds(s, blank, k)
<1> DEFINE S == {Len(s) + 1} \union {i \in 1..Len(s) : s[i] = blank}
           n == Min(S)
<1>1. Len(s) \in Nat
  OBVIOUS
<1>2. S \subseteq Nat /\ S # {} /\ S \subseteq 1..(Len(s) + 1)
  BY <1>1
<1>3. n \in S /\ \A i \in S : n <= i
  <2> HIDE DEF S
  <2> QED
    BY <1>2, LeastIs
<1> HIDE DEF n
<1>4. n \in 1..(Len(s) + 1) /\ (n <= Len(s) => s[n] = blank)
  BY <1>1, <1>2, <1>3
<1>5. \A i \in 1..(n - 1) : s[i] # blank
  BY <1>1, <1>3, <1>4
<1>6. FirstEnds(s, blank, n - 1)
  BY <1>1, <1>4, <1>5 DEF FirstEnds
<1> QED
  BY <1>6

LEMMA FirstPartIs ==
  ASSUME NEW blank \in Char, NEW s, NEW k, FirstEnds(s, blank, k)
  PROVE  FirstPart(s, blank) = SubSeq(s, 1, k)
<1>0. s \in Seq(Char)
  BY DEF FirstEnds
<1>1. /\ s \in Seq(Char) /\ k \in 0..Len(s) /\ Len(s) \in Nat
      /\ \A i \in 1..k : s[i] # blank
      /\ k < Len(s) => s[k + 1] = blank
  BY <1>0 DEF FirstEnds
<1> DEFINE p == SubSeq(s, 1, k)
<1>2. p \in Free(blank)
  <2>1. /\ p \in Seq(Char) /\ Len(p) = (k - 1) + 1
        /\ \A i \in 1..((k - 1) + 1) : p[i] = s[(1 + i) - 1]
    <3>1. 1 \in 1..(Len(s) + 1) /\ k \in (1 - 1)..Len(s)
      BY <1>1
    <3> QED
      BY <1>1, <3>1, SubSeqIs
  <2>2. Len(p) = k /\ \A i \in 1..k : i \in 1..((k - 1) + 1) /\ (1 + i) - 1 = i
    BY <1>1, <2>1
  <2> HIDE DEF p
  <2> QED
    BY <1>1, <2>1, <2>2 DEF Free
<1>3. Split(p, blank) = <<p>>
  <2> HIDE DEF p
  <2> QED
    BY <1>2, SplitWhole
<1>4. CASE k = Len(s)
  <2>1. p = s
    BY <1>1, <1>4, SubSeqFull
  <2> HIDE DEF p
  <2>2. FirstPart(s, blank) = <<p>>[1]
    BY <1>3, <2>1 DEF FirstPart
  <2> QED
    BY <2>2 DEF p
<1>5. CASE k < Len(s)
  <2> DEFINE j == k + 1
             t == SubSeq(s, j + 1, Len(s))
  <2>1. j \in 1..Len(s) /\ s[j] = blank /\ j - 1 = k
    BY <1>1, <1>5
  <2>2. t \in Seq(Char)
    <3>1. j + 1 \in 1..(Len(s) + 1) /\ Len(s) \in ((j + 1) - 1)..Len(s)
      BY <1>1, <2>1
    <3> QED
      BY <1>1, <3>1, SubSeqIs
  <2> HIDE DEF j
  <2>3. s = p \o <<blank>> \o t
    <3>1. s = SubSeq(s, 1, j - 1) \o <<s[j]>> \o SubSeq(s, j + 1, Len(s))
      BY <1>1, <2>1, CutAt
    <3> QED
      BY <2>1, <3>1
  <2> HIDE DEF p, t
  <2>4. Split(s, blank) = Split(p, blank) \o Split(t, blank)
    <3>1. p \in Seq(Char)
      BY <1>2 DEF Free
    <3>2. Split(p \o <<blank>> \o t, blank) = Split(p, blank) \o Split(t, blank)
      BY <2>2, <3>1, SplitConcat
    <3> QED
      BY <2>3, <3>2
  <2> DEFINE u == <<p>>
             w == Split(t, blank)
  <2>5. u \in Seq(Free(blank)) /\ w \in Seq(Free(blank)) /\ Len(u) = 1 /\ u[1] = p
    <3>1. w \in Divided(blank)
      BY <2>2, SplitDivides
    <3> QED
      BY <1>2, <3>1 DEF Divided
  <2> HIDE DEF u, w
  <2>6. (u \o w)[1] = u[1]
    BY <2>5, ConcatProperties
  <2>7. FirstPart(s, blank) = (u \o w)[1]
    BY <1>3, <2>4 DEF FirstPart, u, w
  <2> QED
    BY <2>5, <2>6, <2>7 DEF p
<1> QED
  BY <1>1, <1>4, <1>5

\* Two texts that begin with the same part.
LEMMA SameFirstPart ==
  ASSUME NEW blank \in Char, NEW s, NEW t, NEW k, FirstEnds(s, blank, k), FirstEnds(t, blank, k), \A i \in 1..k : s[i] = t[i]
  PROVE  FirstPart(s, blank) = FirstPart(t, blank)
<1> DEFINE p == SubSeq(s, 1, k)
           q == SubSeq(t, 1, k)
<1>0. s \in Seq(Char) /\ t \in Seq(Char)
  BY DEF FirstEnds
<1>1. s \in Seq(Char) /\ t \in Seq(Char) /\ k \in 0..Len(s) /\ k \in 0..Len(t) /\ Len(s) \in Nat /\ Len(t) \in Nat
  BY <1>0 DEF FirstEnds
<1>2. /\ p \in Seq(Char) /\ Len(p) = (k - 1) + 1
      /\ \A i \in 1..((k - 1) + 1) : p[i] = s[(1 + i) - 1]
  <2>1. 1 \in 1..(Len(s) + 1) /\ k \in (1 - 1)..Len(s)
    BY <1>1
  <2> QED
    BY <1>1, <2>1, SubSeqIs
<1>3. /\ q \in Seq(Char) /\ Len(q) = (k - 1) + 1
      /\ \A i \in 1..((k - 1) + 1) : q[i] = t[(1 + i) - 1]
  <2>1. 1 \in 1..(Len(t) + 1) /\ k \in (1 - 1)..Len(t)
    BY <1>1
  <2> QED
    BY <1>1, <2>1, SubSeqIs
<1>4. FirstPart(s, blank) = p /\ FirstPart(t, blank) = q
  BY FirstPartIs
<1> HIDE DEF p, q
<1>5. \A i \in 1..k : (1 + i) - 1 = i
  BY <1>1
<1>6. (k - 1) + 1 = k
  BY <1>1
<1>7. \A i \in 1..Len(p) : p[i] = q[i]
  BY <1>2, <1>3, <1>5, <1>6
<1>8. p = q
  BY <1>2, <1>3, <1>7, SeqEqual
<1> QED
  BY <1>4, <1>8

\* Parts of which only the first is not empty.
OnlyFirst(parts) ==
  /\ parts \in Seq(Seq(Char)) /\ parts # <<>> /\ parts[1] # <<>>
  /\ \A i \in 2..Len(parts) : parts[i] = <<>>

LEMMA NonEmptyOfOnlyFirst ==
  ASSUME NEW parts, OnlyFirst(parts)
  PROVE  NonEmpty(parts) = << parts[1] >>
<1> DEFINE All == {p \in Seq(Seq(Char)) : OnlyFirst(p) => NonEmpty(p) = << p[1] >>}
<1>1. <<>> \in All
  BY EmptySeq DEF OnlyFirst
<1>2. ASSUME NEW p \in Seq(Seq(Char)), p \in All, NEW part \in Seq(Char)
      PROVE  Append(p, part) \in All
  <2> DEFINE q == Append(p, part)
  <2>1. /\ q \in Seq(Seq(Char)) /\ Len(q) = Len(p) + 1 /\ Len(p) \in Nat
        /\ \A i \in 1..Len(p) : q[i] = p[i]
        /\ q[Len(p) + 1] = part
    <3>1. /\ Append(p, part) \in Seq(Seq(Char)) /\ Len(Append(p, part)) = Len(p) + 1
          /\ \A i \in 1..Len(p) : Append(p, part)[i] = p[i]
          /\ Append(p, part)[Len(p) + 1] = part
      BY LastOfAppend
    <3> QED
      BY <3>1
  <2> HIDE DEF q
  <2>2. SUFFICES ASSUME OnlyFirst(q)
                 PROVE  NonEmpty(q) = << q[1] >>
    BY <2>1 DEF q
  <2>3. q[1] # <<>> /\ \A i \in 2..Len(q) : q[i] = <<>>
    BY <2>2 DEF OnlyFirst
  <2>4. CASE p = <<>>
    <3>1. Len(p) = 0 /\ q[1] = part
      BY <2>1, <2>4
    <3>2. NonEmpty(q) = Append(NonEmpty(p), part)
      BY <2>3, <3>1, NonEmptyOfAppend DEF q
    <3>3. NonEmpty(p) = <<>>
      BY <2>4, NonEmptyOfAppend
    <3> QED
      BY <3>1, <3>2, <3>3
  <2>5. CASE p # <<>>
    <3>1. Len(p) > 0
      BY <2>1, <2>5
    <3>2. q[1] = p[1] /\ part = <<>>
      <4>1. 1 \in 1..Len(p) /\ Len(p) + 1 \in 2..Len(q)
        BY <2>1, <3>1
      <4> QED
        BY <2>1, <2>3, <4>1
    <3>3. OnlyFirst(p)
      <4>1. \A i \in 2..Len(p) : i \in 2..Len(q) /\ q[i] = p[i]
        BY <2>1
      <4> QED
        BY <2>3, <2>5, <3>2, <4>1 DEF OnlyFirst
    <3>4. NonEmpty(q) = NonEmpty(p)
      BY <3>2, NonEmptyOfAppend DEF q
    <3> QED
      BY <1>2, <3>2, <3>3, <3>4
  <2> QED
    BY <2>4, <2>5
<1>3. parts \in Seq(Seq(Char))
  BY DEF OnlyFirst
<1> HIDE DEF All
<1>4. parts \in All
  BY <1>1, <1>2, <1>3, InductionOnTexts
<1> QED
  BY <1>4 DEF All

\* What semicolons divide text of spaces and semicolons into is spaces.
LEMMA SplitOfBlanks ==
  ASSUME NEW blank \in Char, NEW semi \in Char, blank # semi, NEW s \in Seq({blank, semi})
  PROVE  Split(s, semi) \in Seq(Seq({blank}))
<1> DEFINE Trailing == {blank, semi}
           Blanks == {blank}
           All == {t \in Seq(Trailing) : Split(t, semi) \in Seq(Seq(Blanks))}
<1>1. <<>> \in All
  <2>1. <<>> \in Seq(Trailing) /\ << <<>> >> \in Seq(Seq(Blanks))
    BY EmptySeq
  <2> QED
    BY <2>1, SplitOfEmpty
<1>2. ASSUME NEW t \in Seq(Trailing), t \in All, NEW c \in Trailing
      PROVE  Append(t, c) \in All
  <2>1. c \in Char /\ Trailing \subseteq Char
    OBVIOUS
  <2>2. t \in Seq(Char)
    BY <2>1, SeqMonotonic
  <2>3. Append(t, c) \in Seq(Trailing)
    BY AppendProperties
  <2>4. PICK front \in Seq(Free(semi)), last \in Free(semi) : Split(t, semi) = Append(front, last)
    <3>1. Split(t, semi) \in Divided(semi)
      BY <2>2, SplitDivides
    <3> QED
      BY <3>1, LastOfDivided
  <2>5. front \in Seq(Seq(Blanks)) /\ last \in Seq(Blanks) /\ Append(front, last) \in Seq(Seq(Blanks))
    <3>1. Append(front, last) \in Seq(Seq(Blanks))
      BY <1>2, <2>4
    <3> QED
      BY <3>1, AppendParts
  <2>6. Split(Append(t, c), semi) = SplitNext(semi)[Append(front, last)][c]
    BY <2>1, <2>2, <2>4, SplitOfAppend
  <2>7. CASE c = semi
    <3>1. Split(Append(t, c), semi) = Append(Append(front, last), <<>>)
      BY <2>1, <2>6, <2>7, SeparatorNext
    <3>2. Append(Append(front, last), <<>>) \in Seq(Seq(Blanks))
      <4>1. <<>> \in Seq(Blanks)
        BY EmptySeq
      <4> QED
        BY <2>5, <4>1, LastOfAppend
    <3> QED
      BY <2>3, <3>1, <3>2
  <2>8. CASE c # semi
    <3>1. Split(Append(t, c), semi) = Append(front, Append(last, c))
      BY <2>1, <2>6, <2>8, LetterNext
    <3>2. Append(last, c) \in Seq(Blanks)
      <4>1. c \in Blanks
        BY <2>8
      <4> QED
        BY <2>5, <4>1, LastOfAppend
    <3>3. Append(front, Append(last, c)) \in Seq(Seq(Blanks))
      BY <2>5, <3>2, LastOfAppend
    <3> QED
      BY <2>3, <3>1, <3>3
  <2> QED
    BY <2>7, <2>8
<1>3. s \in Seq(Trailing)
  OBVIOUS
<1> HIDE DEF All, Trailing
<1>4. s \in All
  BY <1>1, <1>2, <1>3, InductionOnTexts
<1> QED
  BY <1>4 DEF All

\* Upper-casing neither adds nor removes a character that is no letter.
LEMMA UpperKeeps ==
  ASSUME NEW e \in Seq(Char), NEW w \in Seq(Char), NEW semi, semi # "a", semi # "A",
         Upper(w) = Upper(e), semi \notin Chars(e)
  PROVE  \A i \in 1..Len(w) : w[i] # semi
<1> SUFFICES ASSUME NEW i \in 1..Len(w), w[i] = semi
             PROVE  FALSE
  OBVIOUS
<1>1. i \in DOMAIN w /\ DOMAIN Upper(w) = DOMAIN w /\ DOMAIN Upper(e) = DOMAIN e
  BY DEF Upper
<1>2. i \in DOMAIN e
  BY <1>1
<1>3. Upper(w)[i] = semi
  BY <1>1 DEF Upper
<1>4. Upper(e)[i] = IF e[i] = "a" THEN "A" ELSE e[i]
  BY <1>2 DEF Upper
<1>5. e[i] = semi
  BY <1>3, <1>4
<1> QED
  BY <1>2, <1>5 DEF Chars, ToSet

Trimmed(parts, blank) == [i \in DOMAIN parts |-> Strip(parts[i], {blank})]

LEMMA TrimmedHead ==
  ASSUME NEW blank, NEW parts \in Seq(Seq(Char)), parts # <<>>,
         Strip(parts[1], {blank}) \in Seq(Char), Strip(parts[1], {blank}) # <<>>,
         \A i \in 2..Len(parts) : parts[i] \in Seq({blank})
  PROVE  NonEmpty(Trimmed(parts, blank)) = << Strip(parts[1], {blank}) >>
<1> DEFINE u == Trimmed(parts, blank)
<1>1. Len(parts) \in Nat /\ Len(parts) >= 1 /\ DOMAIN parts = 1..Len(parts)
  OBVIOUS
<1>2. u = [i \in 1..Len(parts) |-> Strip(parts[i], {blank})]
  BY <1>1 DEF Trimmed
<1>3. ASSUME NEW i \in 2..Len(parts)
      PROVE  Strip(parts[i], {blank}) = <<>>
  <2> DEFINE t == parts[i]
             Blanks == {blank}
  <2>1. t \in Seq(Blanks)
    OBVIOUS
  <2> HIDE DEF t
  <2>2. \A k \in 1..Len(t) : t[k] \in Blanks
    BY <2>1
  <2> HIDE DEF Blanks
  <2>3. Strip(t, Blanks) = <<>>
    BY <2>1, <2>2, StripToNothing
  <2> QED
    BY <2>3 DEF t, Blanks
<1>4. ASSUME NEW i \in 1..Len(parts)
      PROVE  Strip(parts[i], {blank}) \in Seq(Char)
  <2>1. i = 1 \/ i \in 2..Len(parts)
    BY <1>1
  <2> QED
    BY <1>3, <2>1, EmptySeq
<1> HIDE DEF u
<1>5. u \in Seq(Seq(Char)) /\ Len(u) = Len(parts)
  <2>1. u \in [1..Len(parts) -> Seq(Char)]
    BY <1>2, <1>4, Zenon
  <2> DEFINE V == Seq(Char)
  <2>2. u \in [1..Len(parts) -> V]
    BY <2>1
  <2> HIDE DEF V
  <2>3. u \in Seq(V) /\ Len(u) = Len(parts)
    BY <1>1, <2>2
  <2> QED
    BY <2>3 DEF V
<1>6. u # <<>> /\ u[1] = Strip(parts[1], {blank}) /\ \A i \in 2..Len(u) : u[i] = <<>>
  <2>1. u # <<>>
    BY <1>1, <1>5
  <2>2. 1 \in 1..Len(parts) /\ \A i \in 2..Len(u) : i \in 1..Len(parts) /\ i \in 2..Len(parts)
    BY <1>1, <1>5
  <2>3. u[1] = Strip(parts[1], {blank})
    BY <1>2, <2>2, Zenon
  <2>4. \A i \in 2..Len(u) : u[i] = Strip(parts[i], {blank})
    BY <1>2, <2>2, Zenon
  <2> QED
    BY <1>3, <2>1, <2>2, <2>3, <2>4
<1>7. OnlyFirst(u)
  BY <1>5, <1>6 DEF OnlyFirst
<1> QED
  BY <1>6, <1>7, NonEmptyOfOnlyFirst DEF u

\* The text C is divided by semi into a single statement, which is what is left
\* of it without the blanks around it and what follows the first semi.
Divisions(C, blank, semi) == NonEmpty(Trimmed(Split(C, semi), blank))

\* C without blanks begins at lo with a word of k characters; hi ends it, and
\* from its position b on there is only semi.
Cut(C, blank, semi, lo, hi, b, k) ==
  /\ blank \in Char /\ semi \in Char /\ blank # semi
  /\ Spans(Char, C, {blank}, lo, hi)
  /\ b \in 1..((hi - lo) + 1) /\ k \in 1..b
  /\ \A i \in lo..((lo + b) - 1) : C[i] # semi
  /\ \A i \in (lo + b)..hi : C[i] = semi
  /\ \A i \in lo..((lo + k) - 1) : C[i] # blank
  /\ lo + k <= hi => C[lo + k] = blank

\* A text from position lo on begins with a word of k characters.
LEMMA PartFrom ==
  ASSUME NEW blank, NEW C \in Seq(Char), NEW lo \in 1..Len(C), NEW hi \in lo..Len(C),
         NEW k \in 0..((hi - lo) + 1), \A i \in lo..((lo + k) - 1) : C[i] # blank,
         lo + k <= hi => C[lo + k] = blank
  PROVE  FirstEnds(SubSeq(C, lo, hi), blank, k)
<1> DEFINE t == SubSeq(C, lo, hi)
<1>1. Len(C) \in Nat /\ lo \in 1..(Len(C) + 1) /\ hi \in (lo - 1)..Len(C)
  OBVIOUS
<1>2. /\ t \in Seq(Char) /\ Len(t) = (hi - lo) + 1
      /\ \A i \in 1..((hi - lo) + 1) : t[i] = C[(lo + i) - 1]
  BY <1>1, SubSeqIs
<1> HIDE DEF t
<1>3. \A i \in 1..k : t[i] # blank
  <2> SUFFICES ASSUME NEW i \in 1..k
               PROVE  t[i] # blank
    OBVIOUS
  <2>1. i \in 1..((hi - lo) + 1) /\ (lo + i) - 1 \in lo..((lo + k) - 1)
    BY <1>1
  <2> QED
    BY <1>2, <2>1
<1>4. k < Len(t) => t[k + 1] = blank
  <2> SUFFICES ASSUME k < Len(t)
               PROVE  t[k + 1] = blank
    OBVIOUS
  <2>1. k + 1 \in 1..((hi - lo) + 1) /\ (lo + (k + 1)) - 1 = lo + k /\ lo + k <= hi
    BY <1>1, <1>2
  <2> QED
    BY <1>2, <2>1
<1> QED
  BY <1>1, <1>2, <1>3, <1>4 DEF FirstEnds, t

\* The first semi of C is at j, and blanks and others follow it.
FirstSemi(C, blank, semi, j) ==
  /\ C \in Seq(Char) /\ blank \in Char /\ semi \in Char /\ blank # semi /\ j \in 1..Len(C)
  /\ C[j] = semi /\ \A i \in 1..(j - 1) : C[i] # semi
  /\ \A i \in (j + 1)..Len(C) : C[i] \in {blank, semi}

LEMMA SplitAtSemi ==
  ASSUME NEW C, NEW blank, NEW semi, NEW j, FirstSemi(C, blank, semi, j)
  PROVE  /\ Split(C, semi) \in Seq(Seq(Char)) /\ Split(C, semi) # <<>>
         /\ Split(C, semi)[1] = SubSeq(C, 1, j - 1)
         /\ \A i \in 2..Len(Split(C, semi)) : Split(C, semi)[i] \in Seq({blank})
<1> DEFINE head == SubSeq(C, 1, j - 1)
           tail == SubSeq(C, j + 1, Len(C))
           u == <<head>>
           w == Split(tail, semi)
           Trailing == {blank, semi}
           F == Free(semi)
           Blanks == {blank}
<1>0. /\ C \in Seq(Char) /\ blank \in Char /\ semi \in Char /\ blank # semi /\ j \in 1..Len(C)
      /\ C[j] = semi /\ \A i \in 1..(j - 1) : C[i] # semi
      /\ \A i \in (j + 1)..Len(C) : C[i] \in {blank, semi}
  BY DEF FirstSemi
<1> USE <1>0
<1>1. Len(C) \in Nat
  OBVIOUS
<1>2. head \in F
  <2>1. 1 \in 1..(Len(C) + 1) /\ j - 1 \in (1 - 1)..Len(C)
    BY <1>1
  <2>2. /\ head \in Seq(Char) /\ Len(head) = ((j - 1) - 1) + 1
        /\ \A i \in 1..(((j - 1) - 1) + 1) : head[i] = C[(1 + i) - 1]
    BY <2>1, SubSeqIs
  <2> HIDE DEF head
  <2>3. ASSUME NEW i \in 1..Len(head)
        PROVE  head[i] # semi
    <3>1. i \in 1..(((j - 1) - 1) + 1) /\ (1 + i) - 1 = i /\ i \in 1..(j - 1)
      BY <1>1, <2>2
    <3> QED
      BY <2>2, <3>1
  <2> QED
    BY <2>2, <2>3 DEF Free
<1>3. tail \in Seq(Trailing) /\ tail \in Seq(Char)
  <2>1. j + 1 \in 1..(Len(C) + 1) /\ Len(C) \in ((j + 1) - 1)..Len(C)
    BY <1>1
  <2>2. /\ tail \in Seq(Char) /\ Len(tail) = (Len(C) - (j + 1)) + 1
        /\ \A i \in 1..((Len(C) - (j + 1)) + 1) : tail[i] = C[((j + 1) + i) - 1]
    BY <2>1, SubSeqIs
  <2>3. \A i \in (j + 1)..Len(C) : C[i] \in Trailing
    OBVIOUS
  <2> HIDE DEF tail, Trailing
  <2>4. ASSUME NEW i \in 1..Len(tail)
        PROVE  tail[i] \in Trailing
    <3>1. i \in 1..((Len(C) - (j + 1)) + 1) /\ ((j + 1) + i) - 1 \in (j + 1)..Len(C)
      BY <1>1, <2>2
    <3> QED
      BY <2>2, <2>3, <3>1
  <2>5. tail = [i \in 1..Len(tail) |-> tail[i]] /\ Len(tail) \in Nat
    BY <2>2
  <2>6. tail \in [1..Len(tail) -> Trailing]
    BY <2>4, <2>5, Zenon
  <2>7. tail \in Seq(Trailing)
    BY <2>5, <2>6
  <2> QED
    BY <2>2, <2>7
<1>4. w \in Seq(Seq(Blanks)) /\ w \in Divided(semi)
  <2> HIDE DEF tail
  <2>1. w \in Divided(semi)
    BY <1>3, SplitDivides
  <2>2. Split(tail, semi) \in Seq(Seq({blank}))
    BY <1>3, SplitOfBlanks
  <2> QED
    BY <2>1, <2>2
<1>5. Split(C, semi) = u \o w
  <2>1. C = head \o <<C[j]>> \o tail
    BY CutAt
  <2> HIDE DEF head, tail
  <2>2. head \in Seq(Char)
    BY <1>2 DEF Free
  <2>3. Split(head \o <<semi>> \o tail, semi) = Split(head, semi) \o Split(tail, semi)
    BY <1>3, <2>2, SplitConcat
  <2>4. Split(head, semi) = <<head>>
    BY <1>2, SplitWhole
  <2> QED
    BY <2>1, <2>3, <2>4
<1>6. u \in Seq(F) /\ Len(u) = 1 /\ u[1] = head
  <2> HIDE DEF F, head
  <2> QED
    BY <1>2
<1>7. w \in Seq(F) /\ Len(w) \in Nat
  BY <1>4 DEF Divided
<1> HIDE DEF u, w
<1>8. /\ u \o w \in Seq(F) /\ Len(u \o w) = 1 + Len(w)
      /\ \A i \in 1..(1 + Len(w)) : (u \o w)[i] = IF i <= 1 THEN u[i] ELSE w[i - 1]
  <2> HIDE DEF F
  <2>1. /\ u \o w \in Seq(F) /\ Len(u \o w) = Len(u) + Len(w)
        /\ \A i \in 1..(Len(u) + Len(w)) : (u \o w)[i] = IF i <= Len(u) THEN u[i] ELSE w[i - Len(u)]
    BY <1>6, <1>7, ConcatProperties
  <2> QED
    BY <1>6, <2>1
<1> DEFINE v == u \o w
<1>9. v \in Seq(Seq(Char))
  <2>1. F \subseteq Seq(Char)
    BY DEF Free
  <2>2. Seq(F) \subseteq Seq(Seq(Char))
    BY <2>1, SeqMonotonic
  <2> QED
    BY <1>8, <2>2
<1>10. v # <<>> /\ v[1] = head
  <2> HIDE DEF F, head
  <2>1. 1 \in 1..(1 + Len(w)) /\ 1 + Len(w) # 0
    BY <1>7
  <2> QED
    BY <1>6, <1>8, <2>1
<1>11. ASSUME NEW i \in 2..Len(v)
       PROVE  v[i] \in Seq(Blanks)
  <2>1. i \in 1..(1 + Len(w)) /\ ~(i <= 1) /\ i - 1 \in 1..Len(w)
    BY <1>7, <1>8
  <2>2. v[i] = w[i - 1]
    BY <1>8, <2>1
  <2> DEFINE V == Seq(Blanks)
  <2>3. w \in Seq(V)
    BY <1>4
  <2> HIDE DEF V, v
  <2>4. w[i - 1] \in V
    BY <2>1, <2>3, ElementOfSeq
  <2> QED
    BY <2>2, <2>4 DEF V
<1> QED
  BY <1>5, <1>9, <1>10, <1>11

LEMMA CutDivides ==
  ASSUME NEW C, NEW blank, NEW semi, NEW lo, NEW hi, NEW b, NEW k, Cut(C, blank, semi, lo, hi, b, k)
  PROVE  \E w : /\ Divisions(C, blank, semi) = <<w>>
                /\ FirstPart(w, blank) = FirstPart(SubSeq(C, lo, hi), blank)
<1> DEFINE Blanks == {blank}
           n == (hi - lo) + 1
           stripped == SubSeq(C, lo, hi)
<1>1. /\ blank \in Char /\ semi \in Char /\ blank # semi
      /\ Spans(Char, C, Blanks, lo, hi) /\ C \in Seq(Char)
  BY DEF Cut, Spans
<1>2. Len(C) \in Nat
  BY <1>1
<1>3. /\ lo \in 1..Len(C) /\ hi \in lo..Len(C)
      /\ \A i \in 1..(lo - 1) : C[i] = blank
      /\ \A i \in (hi + 1)..Len(C) : C[i] = blank
      /\ C[lo] # blank /\ C[hi] # blank
  BY <1>1 DEF Spans
<1>4. /\ b \in 1..n /\ k \in 1..b
      /\ \A i \in lo..((lo + b) - 1) : C[i] # semi
      /\ \A i \in (lo + b)..hi : C[i] = semi
      /\ \A i \in lo..((lo + k) - 1) : C[i] # blank
      /\ lo + k <= hi => C[lo + k] = blank
  BY DEF Cut
<1>5. /\ stripped \in Seq(Char) /\ Len(stripped) = n
      /\ \A i \in 1..n : stripped[i] = C[(lo + i) - 1]
  <2>1. lo \in 1..(Len(C) + 1) /\ hi \in (lo - 1)..Len(C)
    BY <1>2, <1>3
  <2> QED
    BY <1>1, <2>1, SubSeqIs
<1>6. Strip(C, Blanks) = stripped
  <2> HIDE DEF Blanks
  <2>1. Strip(C, Blanks) = SubSeq(C, lo, hi)
    BY <1>1, StripSpans
  <2> QED
    BY <2>1
<1>7. k \in 0..((hi - lo) + 1) /\ n \in Nat /\ n > 0
  BY <1>2, <1>3, <1>4
<1>8. FirstEnds(stripped, blank, k)
  BY <1>1, <1>3, <1>4, <1>7, PartFrom
<1> HIDE DEF stripped
<1>9. CASE b = n
  <2>1. \A i \in 1..Len(C) : C[i] # semi
    <3> SUFFICES ASSUME NEW i \in 1..Len(C)
                 PROVE  C[i] # semi
      OBVIOUS
    <3>1. i \in 1..(lo - 1) \/ i \in lo..((lo + b) - 1) \/ i \in (hi + 1)..Len(C)
      BY <1>2, <1>3, <1>9
    <3> QED
      BY <1>1, <1>3, <1>4, <3>1
  <2>2. C \in Free(semi)
    BY <1>1, <2>1 DEF Free
  <2>3. Split(C, semi) = <<C>>
    BY <2>2, SplitWhole
  <2> DEFINE parts == <<C>>
  <2>4. parts \in Seq(Seq(Char)) /\ parts # <<>> /\ parts[1] = C /\ Len(parts) = 1
    BY <1>1
  <2> HIDE DEF parts
  <2>5. stripped # <<>>
    BY <1>5, <1>7
  <2>6. \A i \in 2..Len(parts) : parts[i] \in Seq({blank})
    BY <2>4
  <2>7. NonEmpty(Trimmed(parts, blank)) = << Strip(parts[1], {blank}) >>
    BY <1>5, <1>6, <2>4, <2>5, <2>6, TrimmedHead
  <2>8. Divisions(C, blank, semi) = <<stripped>>
    BY <1>6, <2>3, <2>4, <2>7 DEF Divisions, parts
  <2> QED
    BY <2>8 DEF stripped
<1>10. CASE b < n
  <2> DEFINE j == lo + b
             head == SubSeq(C, 1, j - 1)
             parts == Split(C, semi)
  <2>1. j \in 1..Len(C) /\ j <= hi /\ j - 1 \in 1..Len(C) /\ j - 1 < hi /\ lo <= j - 1 /\ (lo + k) - 1 \in lo..(j - 1)
    BY <1>2, <1>3, <1>4, <1>10
  <2>2. C[j] = semi
    <3>1. j \in (lo + b)..hi
      BY <1>2, <1>3, <1>4, <2>1
    <3> QED
      BY <1>4, <3>1
  <2>3. ASSUME NEW i \in 1..(j - 1)
        PROVE  C[i] # semi
    <3>1. i \in 1..(lo - 1) \/ i \in lo..((lo + b) - 1)
      BY <1>2, <1>3, <1>4
    <3> QED
      BY <1>1, <1>3, <1>4, <3>1
  <2>4. ASSUME NEW i \in (j + 1)..Len(C)
        PROVE  C[i] \in {blank, semi}
    <3>1. i \in (lo + b)..hi \/ i \in (hi + 1)..Len(C)
      BY <1>2, <1>3, <1>4
    <3> QED
      BY <1>3, <1>4, <3>1
  <2> HIDE DEF j
  <2>5. /\ parts \in Seq(Seq(Char)) /\ parts # <<>> /\ parts[1] = head
        /\ \A i \in 2..Len(parts) : parts[i] \in Seq({blank})
    <3>1. FirstSemi(C, blank, semi, j)
      BY <1>1, <2>1, <2>2, <2>3, <2>4 DEF FirstSemi
    <3> QED
      BY <3>1, SplitAtSemi
  <2>6. /\ head \in Seq(Char) /\ Len(head) = j - 1
        /\ \A i \in 1..(j - 1) : head[i] = C[i]
    <3>1. 1 \in 1..(Len(C) + 1) /\ j - 1 \in (1 - 1)..Len(C) /\ ((j - 1) - 1) + 1 = j - 1
      BY <1>2, <2>1
    <3>2. /\ head \in Seq(Char) /\ Len(head) = ((j - 1) - 1) + 1
          /\ \A i \in 1..(((j - 1) - 1) + 1) : head[i] = C[(1 + i) - 1]
      BY <1>1, <3>1, SubSeqIs
    <3>3. \A i \in 1..(j - 1) : (1 + i) - 1 = i
      BY <1>2, <2>1
    <3> QED
      BY <3>1, <3>2, <3>3
  <2> HIDE DEF head, parts
  <2>7. lo \in 1..Len(head) /\ head[lo] \notin Blanks
    BY <1>2, <1>3, <2>1, <2>6
  <2>8. PICK first, end : Spans(Char, head, Blanks, first, end)
    <3>1. \E i \in 1..Len(head) : head[i] \notin Blanks
      BY <2>7
    <3> HIDE DEF Blanks
    <3> QED
      BY <2>6, <3>1, SpansExist
  <2>9. /\ first \in 1..Len(head) /\ end \in first..Len(head)
        /\ \A i \in 1..(first - 1) : head[i] = blank
        /\ \A i \in (end + 1)..Len(head) : head[i] = blank
        /\ head[first] # blank
    BY <2>8 DEF Spans
  <2>10. first = lo
    <3>1. ~(lo < first)
      <4>1. lo < first => lo \in 1..(first - 1)
        BY <1>2, <2>1, <2>6, <2>7, <2>9
      <4> QED
        BY <2>7, <2>9, <4>1
    <3>2. ~(first < lo)
      <4>1. first < lo => first \in 1..(lo - 1) /\ first \in 1..(j - 1)
        BY <1>2, <1>3, <2>1, <2>6, <2>7, <2>9
      <4> QED
        BY <1>3, <2>6, <2>9, <4>1
    <3> QED
      BY <1>2, <1>3, <2>1, <2>6, <2>9, <3>1, <3>2
  <2>11. (lo + k) - 1 <= end
    <3> DEFINE m == (lo + k) - 1
    <3>1. m \in lo..((lo + k) - 1) /\ m \in 1..(j - 1) /\ m \in 1..Len(head)
      BY <1>2, <1>3, <1>4, <2>1, <2>6
    <3> HIDE DEF m
    <3>2. head[m] # blank
      BY <1>4, <2>6, <3>1
    <3>3. ~(end < m)
      <4>1. end < m => m \in (end + 1)..Len(head)
        BY <1>2, <2>1, <2>6, <2>9, <3>1
      <4> QED
        BY <2>9, <3>2, <4>1
    <3>4. m <= end
      BY <1>2, <2>1, <2>6, <2>9, <3>1, <3>3
    <3> QED
      BY <3>4 DEF m
  <2> DEFINE word == SubSeq(head, lo, end)
  <2>12. Strip(head, Blanks) = word
    <3>1. Spans(Char, head, Blanks, lo, end)
      BY <2>8, <2>10
    <3> HIDE DEF Blanks
    <3>2. Strip(head, Blanks) = SubSeq(head, lo, end)
      BY <3>1, StripSpans
    <3> QED
      BY <3>2
  <2>13. lo \in 1..Len(head) /\ end \in lo..Len(head) /\ k \in 0..((end - lo) + 1) /\ end <= j - 1 /\ Len(head) \in Nat
    BY <1>2, <1>3, <1>4, <2>1, <2>6, <2>9, <2>10, <2>11
  <2>14. /\ word \in Seq(Char) /\ Len(word) = (end - lo) + 1
         /\ \A i \in 1..((end - lo) + 1) : word[i] = head[(lo + i) - 1]
    <3>1. lo \in 1..(Len(head) + 1) /\ end \in (lo - 1)..Len(head)
      BY <2>13
    <3> QED
      BY <2>6, <3>1, SubSeqIs
  <2>15. FirstEnds(word, blank, k)
    <3>1. ASSUME NEW i \in lo..((lo + k) - 1)
          PROVE  head[i] # blank
      <4>1. i \in 1..(j - 1)
        BY <1>2, <1>3, <1>4, <2>1, <3>1
      <4> QED
        BY <1>4, <2>6, <4>1
    <3>2. ASSUME lo + k <= end
          PROVE  head[lo + k] = blank
      <4>1. lo + k \in 1..(j - 1) /\ lo + k <= hi
        BY <1>2, <1>3, <1>4, <2>1, <2>13, <3>2
      <4> QED
        BY <1>4, <2>6, <4>1
    <3> QED
      BY <2>6, <2>13, <3>1, <3>2, PartFrom
  <2> HIDE DEF word
  <2>16. \A i \in 1..k : word[i] = stripped[i]
    <3> SUFFICES ASSUME NEW i \in 1..k
                 PROVE  word[i] = stripped[i]
      OBVIOUS
    <3>1. i \in 1..((end - lo) + 1) /\ i \in 1..n /\ (lo + i) - 1 \in 1..(j - 1)
      BY <1>2, <1>3, <1>4, <2>1, <2>13
    <3> QED
      BY <1>5, <2>6, <2>14, <3>1
  <2>17. FirstPart(word, blank) = FirstPart(stripped, blank)
    BY <1>1, <1>8, <2>15, <2>16, SameFirstPart
  <2>18. word # <<>>
    BY <2>13, <2>14
  <2>19. NonEmpty(Trimmed(parts, blank)) = << Strip(parts[1], {blank}) >>
    BY <2>5, <2>12, <2>14, <2>18, TrimmedHead
  <2>20. Divisions(C, blank, semi) = <<word>>
    BY <2>5, <2>12, <2>19 DEF Divisions, parts
  <2> QED
    BY <2>17, <2>20 DEF stripped
<1> QED
  BY <1>4, <1>7, <1>9, <1>10

\* C is SQL without its comments, and e the operation that is looked for.
Operates(C, e, blank, semi) ==
  LET stripped == Strip(C, {blank}) IN
  /\ blank \in Char /\ semi \in Char /\ blank # semi /\ semi # "a" /\ semi # "A"
  /\ C \in Seq(Char) /\ e \in Seq(Char) /\ semi \notin Chars(e)
  /\ stripped # <<>> /\ semi \notin Chars(RStrip(stripped, {semi}))
  /\ Upper(FirstPart(stripped, blank)) = Upper(e)

\* What is left of C without the blanks around it.
CutOut(C, blank, semi, stripped) ==
  \E lo, hi, b, k : Cut(C, blank, semi, lo, hi, b, k) /\ stripped = SubSeq(C, lo, hi)

LEMMA CutExists ==
  ASSUME NEW C, NEW e, NEW blank, NEW semi, Operates(C, e, blank, semi)
  PROVE  CutOut(C, blank, semi, Strip(C, {blank}))
<1> DEFINE Blanks == {blank}
           Semis == {semi}
           stripped == Strip(C, Blanks)
<1>1. /\ blank \in Char /\ semi \in Char /\ blank # semi /\ semi # "a" /\ semi # "A"
      /\ C \in Seq(Char) /\ e \in Seq(Char) /\ semi \notin Chars(e)
      /\ stripped # <<>> /\ semi \notin Chars(RStrip(stripped, Semis))
      /\ Upper(FirstPart(stripped, blank)) = Upper(e)
  BY DEF Operates
<1>2. PICK lo, hi : Spans(Char, C, Blanks, lo, hi)
  <2> HIDE DEF Blanks
  <2>1. \E i \in 1..Len(C) : C[i] \notin Blanks
    BY <1>1, StripToNothing
  <2> QED
    BY <1>1, <2>1, SpansExist
<1>3. stripped = SubSeq(C, lo, hi)
  <2> HIDE DEF Blanks
  <2> QED
    BY <1>2, StripSpans
<1>4. Len(C) \in Nat
  BY <1>1
<1>5. lo \in 1..Len(C) /\ hi \in lo..Len(C) /\ C[lo] # blank
  BY <1>2 DEF Spans
<1> DEFINE n == (hi - lo) + 1
<1>6. n \in Nat /\ n >= 1 /\ lo \in 1..(Len(C) + 1) /\ hi \in (lo - 1)..Len(C)
  BY <1>4, <1>5
<1> HIDE DEF stripped
<1>7. /\ stripped \in Seq(Char) /\ Len(stripped) = n
      /\ \A i \in 1..n : stripped[i] = C[(lo + i) - 1]
  <2>1. /\ SubSeq(C, lo, hi) \in Seq(Char) /\ Len(SubSeq(C, lo, hi)) = (hi - lo) + 1
        /\ \A i \in 1..((hi - lo) + 1) : SubSeq(C, lo, hi)[i] = C[(lo + i) - 1]
    BY <1>1, <1>6, SubSeqIs
  <2> QED
    BY <1>3, <2>1
<1> HIDE DEF n
<1>8. PICK b \in 0..Len(stripped) : /\ RStrip(stripped, Semis) = SubSeq(stripped, 1, b)
                                    /\ \A i \in (b + 1)..Len(stripped) : stripped[i] \in Semis
  <2> HIDE DEF Semis
  <2> QED
    BY <1>7, RStripIs
<1>9. ASSUME NEW i \in 1..b
      PROVE  stripped[i] # semi
  <2> DEFINE t == SubSeq(stripped, 1, b)
  <2>1. 1 \in 1..(Len(stripped) + 1) /\ b \in (1 - 1)..Len(stripped)
    BY <1>6, <1>7
  <2>2. /\ t \in Seq(Char) /\ Len(t) = (b - 1) + 1
        /\ \A m \in 1..((b - 1) + 1) : t[m] = stripped[(1 + m) - 1]
    BY <1>7, <2>1, SubSeqIs
  <2>3. semi \notin Chars(t)
    BY <1>1, <1>8
  <2> HIDE DEF t
  <2>4. i \in 1..((b - 1) + 1) /\ (1 + i) - 1 = i /\ i \in 1..Len(t)
    BY <1>6, <1>7, <2>2
  <2>5. t[i] = stripped[i] /\ i \in DOMAIN t
    BY <2>2, <2>4
  <2>6. t[i] \in Chars(t)
    BY <2>5 DEF Chars, ToSet
  <2> QED
    BY <2>3, <2>5, <2>6
<1>10. PICK k : FirstEnds(stripped, blank, k)
  BY <1>7, FirstEndsExists
<1>11. /\ k \in 0..n /\ \A i \in 1..k : stripped[i] # blank
       /\ k < n => stripped[k + 1] = blank
  BY <1>7, <1>10 DEF FirstEnds
<1>12. ASSUME NEW i \in 1..k
       PROVE  stripped[i] # semi
  <2> DEFINE w == SubSeq(stripped, 1, k)
  <2>1. 1 \in 1..(Len(stripped) + 1) /\ k \in (1 - 1)..Len(stripped)
    BY <1>6, <1>7, <1>11
  <2>2. /\ w \in Seq(Char) /\ Len(w) = (k - 1) + 1
        /\ \A m \in 1..((k - 1) + 1) : w[m] = stripped[(1 + m) - 1]
    BY <1>7, <2>1, SubSeqIs
  <2>3. Upper(w) = Upper(e)
    BY <1>1, <1>10, FirstPartIs
  <2> HIDE DEF w
  <2>4. \A m \in 1..Len(w) : w[m] # semi
    BY <1>1, <2>2, <2>3, UpperKeeps
  <2>5. i \in 1..((k - 1) + 1) /\ (1 + i) - 1 = i /\ i \in 1..Len(w)
    BY <1>6, <1>11, <2>2
  <2> QED
    BY <2>2, <2>4, <2>5
<1>13. stripped[1] # blank
  <2>1. 1 \in 1..n /\ (lo + 1) - 1 = lo
    BY <1>4, <1>5, <1>6
  <2> QED
    BY <1>5, <1>7, <2>1
<1>14. k >= 1
  BY <1>6, <1>11, <1>13
<1>15. k <= b
  <2> SUFFICES ASSUME ~(k <= b)
               PROVE  FALSE
    OBVIOUS
  <2>1. k \in (b + 1)..Len(stripped) /\ k \in 1..k
    BY <1>6, <1>7, <1>8, <1>11, <1>14
  <2>2. stripped[k] = semi
    BY <1>8, <2>1
  <2> QED
    BY <1>12, <2>1, <2>2
<1>16. b \in 1..n /\ k \in 1..b
  BY <1>6, <1>7, <1>8, <1>11, <1>14, <1>15
<1>17. ASSUME NEW i \in lo..hi
       PROVE  /\ (i - lo) + 1 \in 1..n /\ stripped[(i - lo) + 1] = C[i]
              /\ i <= (lo + b) - 1 => (i - lo) + 1 \in 1..b
              /\ i >= lo + b => (i - lo) + 1 \in (b + 1)..n
              /\ i <= (lo + k) - 1 => (i - lo) + 1 \in 1..k
  <2> DEFINE m == (i - lo) + 1
  <2>1. m \in 1..n /\ (lo + m) - 1 = i
    BY <1>4, <1>5 DEF n
  <2>2. stripped[m] = C[i]
    BY <1>7, <2>1
  <2>3. i <= (lo + b) - 1 => m \in 1..b
    BY <1>4, <1>5, <1>16, <2>1
  <2>4. i >= lo + b => m \in (b + 1)..n
    BY <1>4, <1>5, <1>16, <2>1
  <2>5. i <= (lo + k) - 1 => m \in 1..k
    BY <1>4, <1>5, <1>16, <2>1
  <2> QED
    BY <2>1, <2>2, <2>3, <2>4, <2>5
<1>18. \A i \in lo..((lo + b) - 1) : C[i] # semi
  <2> SUFFICES ASSUME NEW i \in lo..((lo + b) - 1)
               PROVE  C[i] # semi
    OBVIOUS
  <2>1. i \in lo..hi /\ i <= (lo + b) - 1
    BY <1>4, <1>5, <1>16 DEF n
  <2> QED
    BY <1>9, <1>17, <2>1
<1>19. \A i \in (lo + b)..hi : C[i] = semi
  <2> SUFFICES ASSUME NEW i \in (lo + b)..hi
               PROVE  C[i] = semi
    OBVIOUS
  <2>1. i \in lo..hi /\ i >= lo + b
    BY <1>4, <1>5, <1>16 DEF n
  <2>2. (i - lo) + 1 \in (b + 1)..Len(stripped)
    BY <1>7, <1>17, <2>1
  <2> QED
    BY <1>8, <1>17, <2>1, <2>2
<1>20. \A i \in lo..((lo + k) - 1) : C[i] # blank
  <2> SUFFICES ASSUME NEW i \in lo..((lo + k) - 1)
               PROVE  C[i] # blank
    OBVIOUS
  <2>1. i \in lo..hi /\ i <= (lo + k) - 1
    BY <1>4, <1>5, <1>16 DEF n
  <2> QED
    BY <1>11, <1>17, <2>1
<1>21. ASSUME lo + k <= hi
       PROVE  C[lo + k] = blank
  <2>1. lo + k \in lo..hi /\ ((lo + k) - lo) + 1 = k + 1 /\ k < n
    BY <1>4, <1>5, <1>16, <1>21 DEF n
  <2> QED
    BY <1>11, <1>17, <2>1
<1>22. Cut(C, blank, semi, lo, hi, b, k)
  BY <1>1, <1>2, <1>16, <1>18, <1>19, <1>20, <1>21 DEF Cut, n
<1>23. CutOut(C, blank, semi, stripped)
  BY <1>3, <1>22 DEF CutOut
<1> QED
  BY <1>23 DEF stripped

\* The divided text is a single statement with that operation.
Once(C, e, blank, semi) ==
  /\ Len(Divisions(C, blank, semi)) = 1
  /\ Upper(FirstPart(Divisions(C, blank, semi)[1], blank)) = Upper(e)

LEMMA OperatesOnce ==
  ASSUME NEW C, NEW e, NEW blank, NEW semi, Operates(C, e, blank, semi)
  PROVE  Once(C, e, blank, semi)
<1> DEFINE Blanks == {blank}
           stripped == Strip(C, Blanks)
<1>1. CutOut(C, blank, semi, stripped)
  BY CutExists, Zenon
<1>2. Upper(FirstPart(stripped, blank)) = Upper(e)
  BY DEF Operates
<1> HIDE DEF stripped
<1>3. PICK lo, hi, b, k : Cut(C, blank, semi, lo, hi, b, k) /\ stripped = SubSeq(C, lo, hi)
  BY <1>1 DEF CutOut
<1>4. PICK w : /\ Divisions(C, blank, semi) = <<w>>
               /\ FirstPart(w, blank) = FirstPart(SubSeq(C, lo, hi), blank)
  BY <1>3, CutDivides
<1>5. FirstPart(w, blank) = FirstPart(stripped, blank)
  BY <1>3, <1>4
<1>6. Len(<<w>>) = 1 /\ <<w>>[1] = w
  OBVIOUS
<1>7. Len(Divisions(C, blank, semi)) = 1
  BY <1>4, <1>6
<1>8. Divisions(C, blank, semi)[1] = w
  BY <1>4, <1>6
<1>9. Upper(FirstPart(Divisions(C, blank, semi)[1], blank)) = Upper(e)
  BY <1>2, <1>5, <1>8
<1> QED
  BY <1>7, <1>9 DEF Once

LEMMA SqlHolds ==
  ASSUME NEW s \in Seq(Char), ~Veiled(s), NEW e \in Seq(Char), ";" \notin Chars(e),
         SqlOperation(s) # None, SqlOperation(s) = Upper(e)
  PROVE  /\ Len(Statements(Scan(s))) = 1
         /\ Upper(FirstWord(Statements(Scan(s))[1])) = Upper(e)
<1> DEFINE C == Scan(s)
           stripped == Strip(C, {" "})
<1>1. C = StripSqlComments(s) /\ C \in Seq(Char)
  BY ScanIsStrip
<1>2. /\ stripped # <<>> /\ ";" \notin Chars(RStrip(stripped, {";"}))
      /\ Upper(FirstWord(stripped)) = Upper(e)
  BY <1>1, Zenon DEF SqlOperation
<1>3. \A t : FirstWord(t) = FirstPart(t, " ")
  BY Zenon DEF FirstWord, FirstPart
<1>4. Statements(C) = Divisions(C, " ", ";")
  BY Zenon DEF Statements, Divisions, Trimmed
<1>5. " " \in Char /\ ";" \in Char
  BY LettersAreChars, Zenon
<1>6. " " # ";" /\ ";" # "a" /\ ";" # "A"
  BY Zenon
<1> HIDE DEF C
<1>7. Operates(C, e, " ", ";")
  BY <1>1, <1>2, <1>3, <1>5, <1>6, Zenon DEF Operates
<1>8. Once(C, e, " ", ";")
  BY <1>7, OperatesOnce, Zenon
<1> QED
  BY <1>3, <1>4, <1>8, Zenon DEF C, Once

\* What check answered for a matcher with this field, the k-th of the operator's.
Fulfilled(operator, k, field, type) ==
  /\ asked.value.kind = "text" /\ asked.value.text \in Seq(Char)
  /\ asked.pattern.fields[field].kind = "text" => asked.pattern.fields[field].text \in Seq(Char)
  /\ type = "text" => asked.pattern.fields[field].kind = "text"
  /\ Subject(operator, asked.value) # None
  /\ Holds(operator, field, asked.pattern.fields[field], Subject(operator, asked.value))

LEMMA AnsweredYes ==
  ASSUME CheckInv, NEW operator \in DOMAIN Fields, NEW k \in DOMAIN Fields[operator], NEW field, NEW type,
         Fields[operator][k][1] = field, Fields[operator][k][2] = type,
         Asks(operator, field), exit = 0
  PROVE  Fulfilled(operator, k, field, type)
<1> DEFINE p == asked.pattern
           f == p.fields[field]
<1>1. /\ p.operator = operator /\ DOMAIN p.fields = {field}
      /\ asked.value.kind = "text" /\ asked.value.text \in Seq(Char)
      /\ f.kind = "text" => f.text \in Seq(Char)
  BY AskedIs
<1>2. Compile(p) /\ Match(p, asked.value) = "yes"
  BY DEF CheckInv, Answered, Asks
<1>3. Usable(type, f)
  BY <1>1, <1>2, CompiledFieldIsUsable
<1>4. OneField(p, operator, k, field, type)
  BY <1>1, <1>3 DEF OneField
<1>5. Subject(operator, asked.value) # None /\ Holds(operator, field, f, Subject(operator, asked.value))
  BY <1>2, <1>4, MatchOfOne
<1>6. type = "text" => f.kind = "text"
  BY <1>3 DEF Usable
<1> QED
  BY <1>1, <1>5, <1>6 DEF Fulfilled

LEMMA OneStatementHolds == CheckInv => OneStatement
<1> SUFFICES ASSUME CheckInv
             PROVE  OneStatement
  OBVIOUS
<1> DEFINE v == asked.value.text
           fields == asked.pattern.fields
           words == NonEmpty(Split(v, " "))
<1>1. ASSUME Asks("sql", "equals"), exit = 0, ~Veiled(v), ";" \notin Chars(fields["equals"].text)
      PROVE  /\ Len(Statements(Scan(v))) = 1
             /\ Upper(FirstWord(Statements(Scan(v))[1])) = Upper(fields["equals"].text)
  <2>1. /\ "sql" \in DOMAIN Fields /\ 1 \in DOMAIN Fields["sql"]
        /\ Fields["sql"][1][1] = "equals" /\ Fields["sql"][1][2] = "text"
    BY DEF Fields
  <2>2. Fulfilled("sql", 1, "equals", "text")
    BY <1>1, <2>1, AnsweredYes
  <2>3. /\ v \in Seq(Char) /\ fields["equals"].text \in Seq(Char)
        /\ Subject("sql", asked.value) = SqlOperation(v)
    BY <2>2 DEF Fulfilled, Subject
  <2>4. SqlOperation(v) # None /\ SqlOperation(v) = Upper(fields["equals"].text)
    BY <2>2, <2>3 DEF Fulfilled, Holds
  <2> QED
    BY <1>1, <2>3, <2>4, SqlHolds, Zenon
<1>2. ASSUME Asks("command", "argv_prefix"), exit = 0
      PROVE  LET prefix == Items(fields["argv_prefix"])
             IN /\ Chars(v) \intersect (Control \union {"\n"}) = {}
                /\ Len(prefix) <= Len(words)
                /\ \A i \in DOMAIN prefix : GlobMatch(prefix[i].text, words[i])
  <2>1. /\ "command" \in DOMAIN Fields /\ 2 \in DOMAIN Fields["command"]
        /\ Fields["command"][2][1] = "argv_prefix" /\ Fields["command"][2][2] = "texts"
    BY DEF Fields
  <2>2. Fulfilled("command", 2, "argv_prefix", "texts")
    BY <1>2, <2>1, AnsweredYes
  <2>3. /\ asked.value.kind = "text" /\ v \in Seq(Char) /\ Subject("command", asked.value) # None
        /\ Holds("command", "argv_prefix", fields["argv_prefix"], Subject("command", asked.value))
    BY <2>2 DEF Fulfilled
  <2> QED
    BY <2>3, CommandHolds, Zenon
<1> QED
  BY <1>1, <1>2, Zenon DEF OneStatement

\* What an sql matcher accepts is one statement with the operation of the
\* policy, read by a scanner that knows string literals and nothing of how
\* matchers.py cuts comments and semicolons, unless a literal holds the mark of
\* a comment; and what a command matcher accepts has no character
\* that starts another command: whatever text check is asked about.
THEOREM OneStatementMatches == Spec => []OneStatement
BY CheckInvariant, OneStatementHolds, PTL

-----------------------------------------------------------------------------
\* The position behind the class at i, if there is one, is behind its bracket.
LEMMA ClosingIs ==
  ASSUME NEW p, Len(p) \in Nat, NEW i \in 1..Len(p), Closing(p, i) # {}
  PROVE  Min(Closing(p, i)) \in (i + 2)..Len(p)
<1>1. Closing(p, i) \subseteq (i + 2)..Len(p)
  BY DEF Closing
<1>2. Closing(p, i) \subseteq Nat
  BY <1>1
<1> QED
  BY <1>1, <1>2, LeastIs

\* A character that no pattern names leads nowhere that another does not.
LEMMA FreshLed ==
  ASSUME NEW p, Len(p) \in Nat, NEW i, NEW c, NEW z, \A k \in 1..Len(p) : p[k] # z, i \in 1..(Len(p) + 1)
  PROVE  Led(p, i, z) \subseteq Led(p, i, c)
<1>1. CASE i > Len(p) \/ p[i] = "*"
  BY <1>1 DEF Led
<1>2. CASE i <= Len(p) /\ p[i] # "*" /\ Closing(p, i) = {}
  BY <1>2 DEF Led
<1>3. CASE i <= Len(p) /\ p[i] # "*" /\ Closing(p, i) # {}
  <2> DEFINE last == Min(Closing(p, i))
  <2>1. last \in (i + 2)..Len(p)
    BY <1>3, ClosingIs
  <2>2. Led(p, i, z) = {j \in {last + 1} : \E k \in (i + 1)..(j - 2) : p[k] = z}
    BY <1>3 DEF Led
  <2> HIDE DEF last
  <2>3. \A k \in (i + 1)..((last + 1) - 2) : k \in 1..Len(p)
    BY <1>3, <2>1
  <2>4. Led(p, i, z) = {}
    BY <2>2, <2>3
  <2> QED
    BY <2>4
<1> QED
  BY <1>1, <1>2, <1>3

LEMMA OverMore ==
  ASSUME NEW p, NEW u, NEW v, u \subseteq v
  PROVE  OverStars(p, u) \subseteq OverStars(p, v)
BY DEF OverStars

\* What matches a text with such characters in some places matches it with any
\* others there.
LEMMA FreshMatch ==
  ASSUME NEW p, NEW s, NEW t, NEW z, Len(p) \in Nat, Len(s) \in Nat, Len(t) = Len(s),
         \A k \in 1..Len(p) : p[k] # z, \A n \in 1..Len(s) : s[n] \in {z, t[n]},
         GlobMatch(p, s)
  PROVE  GlobMatch(p, t)
<1> DEFINE a == Reached(p, s)
           b == Reached(p, t)
           Fewer == {n \in Nat : n <= Len(s) => a[n] \subseteq b[n]}
<1>1. /\ a[0] = OverStars(p, {1}) /\ b[0] = OverStars(p, {1})
      /\ \A n \in 1..Len(s) : a[n] = Follow(p, s, n, a[n - 1])
      /\ \A n \in 1..Len(s) : b[n] = Follow(p, t, n, b[n - 1])
      /\ \A n \in 0..Len(s) : a[n] \subseteq 1..(Len(p) + 1)
  BY ReachedAt
<1>2. Len(p) + 1 \in a[Len(s)]
  BY DEF GlobMatch
<1>3. Len(p) + 1 \in b[Len(s)] => GlobMatch(p, t)
  BY DEF GlobMatch
<1> HIDE DEF a, b
<1>4. 0 \in Fewer
  BY <1>1
<1>5. ASSUME NEW n \in Nat, n \in Fewer
      PROVE  n + 1 \in Fewer
  <2> DEFINE m == n + 1
             u == UNION {Led(p, i, s[m]) : i \in a[n]}
             v == UNION {Led(p, i, t[m]) : i \in b[n]}
  <2>1. SUFFICES ASSUME m <= Len(s)
                 PROVE  a[m] \subseteq b[m]
    OBVIOUS
  <2>2. m \in 1..Len(s) /\ m - 1 = n /\ n \in 0..Len(s)
    BY <2>1
  <2>3. a[m] = OverStars(p, u) /\ b[m] = OverStars(p, v)
    BY <1>1, <2>2 DEF Follow
  <2>4. a[n] \subseteq b[n] /\ a[n] \subseteq 1..(Len(p) + 1)
    BY <1>1, <1>5, <2>2
  <2>5. s[m] \in {z, t[m]}
    BY <2>2
  <2> HIDE DEF m
  <2>6. \A i \in a[n] : Led(p, i, s[m]) \subseteq Led(p, i, t[m])
    BY <2>4, <2>5, FreshLed
  <2>7. u \subseteq v
    BY <2>4, <2>6
  <2> QED
    BY <2>3, <2>7, OverMore
<1> HIDE DEF Fewer
<1>6. Len(s) \in Fewer
  BY <1>4, <1>5, InductionOnNat
<1>7. a[Len(s)] \subseteq b[Len(s)]
  BY <1>6 DEF Fewer
<1> QED
  BY <1>2, <1>3, <1>7

\* Without stars, a pattern matches no text that is longer than itself.
LEMMA StarlessLength ==
  ASSUME NEW p, NEW s, Len(p) \in Nat, Len(s) \in Nat, \A k \in 1..Len(p) : p[k] # "*", GlobMatch(p, s)
  PROVE  Len(s) <= Len(p)
<1> DEFINE r == Reached(p, s)
           Beyond == {n \in Nat : n <= Len(s) => \A j \in r[n] : j >= n + 1}
<1>1. /\ r[0] = OverStars(p, {1})
      /\ \A n \in 1..Len(s) : r[n] = Follow(p, s, n, r[n - 1])
      /\ \A n \in 0..Len(s) : r[n] \subseteq 1..(Len(p) + 1)
  BY ReachedAt
<1>2. Len(p) + 1 \in r[Len(s)]
  BY DEF GlobMatch
<1> HIDE DEF r
<1>3. 0 \in Beyond
  <2>1. \A j \in r[0] : j >= 0 + 1
    BY <1>1 DEF OverStars
  <2> QED
    BY <2>1
<1>4. ASSUME NEW n \in Nat, n \in Beyond
      PROVE  n + 1 \in Beyond
  <2> DEFINE m == n + 1
             u == UNION {Led(p, i, s[m]) : i \in r[n]}
  <2>1. SUFFICES ASSUME m <= Len(s)
                 PROVE  \A j \in r[m] : j >= m + 1
    OBVIOUS
  <2>2. m \in 1..Len(s) /\ m - 1 = n /\ n \in 0..Len(s)
    BY <2>1
  <2>3. r[m] = OverStars(p, u)
    BY <1>1, <2>2 DEF Follow
  <2>4. \A i \in r[n] : i \in 1..(Len(p) + 1) /\ i >= m
    BY <1>1, <1>4, <2>2
  <2>5. ASSUME NEW i \in r[n], NEW j \in Led(p, i, s[m])
        PROVE  j \in Nat /\ j >= m + 1
    <3>1. i \in 1..Len(p) /\ p[i] # "*"
      BY <2>4, <2>5 DEF Led
    <3>2. CASE Closing(p, i) = {}
      <4>1. j = i + 1
        BY <2>5, <3>1, <3>2 DEF Led
      <4> QED
        BY <2>4, <4>1
    <3>3. CASE Closing(p, i) # {}
      <4> DEFINE last == Min(Closing(p, i))
      <4>1. last \in (i + 2)..Len(p)
        BY <3>1, <3>3, ClosingIs
      <4>2. j = last + 1
        BY <2>5, <3>1, <3>3 DEF Led
      <4> HIDE DEF last
      <4> QED
        BY <2>4, <4>1, <4>2
    <3> QED
      BY <3>2, <3>3
  <2>6. \A j \in u : j \in Nat /\ j >= m + 1
    BY <2>5
  <2> HIDE DEF u, m
  <2>7. \A j \in OverStars(p, u) : \E i \in u : i <= j /\ j \in Nat
    BY DEF OverStars
  <2>8. m \in Nat
    BY DEF m
  <2> QED
    BY <2>3, <2>6, <2>7, <2>8
<1> HIDE DEF Beyond
<1>5. Len(s) \in Beyond
  BY <1>3, <1>4, InductionOnNat
<1>6. Len(p) + 1 >= Len(s) + 1
  BY <1>2, <1>5 DEF Beyond
<1> QED
  BY <1>6

\* Letters and a star behind them match what starts with the letters.
LEMMA PrefixMatch ==
  ASSUME NEW p, NEW s, NEW k \in Nat, Len(p) = k + 1, Len(s) \in Nat,
         \A i \in 1..k : p[i] \notin {"*", "?", "["}, GlobMatch(p, s)
  PROVE  k <= Len(s) /\ \A i \in 1..k : s[i] = p[i]
<1> DEFINE r == Reached(p, s)
           Begins(n) == \A i \in 1..k : i <= n => s[i] = p[i]
           At(n, j) == n < k => j = n + 1
           Begun == {n \in Nat : n <= Len(s) => \A j \in r[n] : Begins(n) /\ At(n, j)}
<1>1. /\ r[0] = OverStars(p, {1})
      /\ \A n \in 1..Len(s) : r[n] = Follow(p, s, n, r[n - 1])
      /\ \A n \in 0..Len(s) : r[n] \subseteq 1..(Len(p) + 1)
  BY ReachedAt
<1>2. Len(p) + 1 \in r[Len(s)]
  BY DEF GlobMatch
<1> HIDE DEF r
<1>3. ASSUME NEW n \in Nat, NEW u, \A i \in u : i = n + 1, n < k, NEW j \in OverStars(p, u)
      PROVE  j = n + 1
  <2>1. PICK i \in u : i <= j /\ \A m \in i..(j - 1) : p[m] = "*"
    BY <1>3 DEF OverStars
  <2>2. j \in 1..(Len(p) + 1)
    BY <1>3 DEF OverStars
  <2>3. i = n + 1 /\ i \in 1..k /\ p[i] # "*"
    BY <1>3, <2>1
  <2>4. ~(i <= j - 1)
    <3> SUFFICES ASSUME i <= j - 1
                 PROVE  FALSE
      OBVIOUS
    <3>1. i \in i..(j - 1)
      BY <2>2, <2>3
    <3> QED
      BY <2>1, <2>3, <3>1
  <2> QED
    BY <2>1, <2>2, <2>3, <2>4
<1>4. 0 \in Begun
  <2>1. ASSUME 0 < k, NEW j \in r[0]
        PROVE  j = 0 + 1
    <3> DEFINE base == {1}
    <3>1. j \in OverStars(p, base) /\ \A i \in base : i = 0 + 1
      BY <1>1, <2>1
    <3> HIDE DEF base
    <3> QED
      BY <1>3, <2>1, <3>1
  <2>2. Begins(0)
    OBVIOUS
  <2> QED
    BY <2>1, <2>2
<1>5. ASSUME NEW n \in Nat, n \in Begun
      PROVE  n + 1 \in Begun
  <2> DEFINE m == n + 1
             u == UNION {Led(p, i, s[m]) : i \in r[n]}
  <2>1. SUFFICES ASSUME m <= Len(s), NEW j \in r[m]
                 PROVE  Begins(m) /\ At(m, j)
    OBVIOUS
  <2>2. m \in 1..Len(s) /\ m - 1 = n /\ n \in 0..Len(s)
    BY <2>1
  <2>3. r[m] = OverStars(p, u)
    BY <1>1, <2>2 DEF Follow
  <2>4. \A i \in r[n] : Begins(n) /\ At(n, i)
    BY <1>5, <2>2
  <2>5. PICK h \in u : h <= j
    BY <2>1, <2>3 DEF OverStars
  <2>6. PICK i \in r[n] : h \in Led(p, i, s[m])
    BY <2>5
  <2>7. Begins(n)
    BY <2>4
  <2>8. CASE n < k
    <3>1. \A g \in r[n] : g = m
      BY <2>4, <2>8
    <3>2. m \in 1..k /\ p[m] \notin {"*", "?", "["} /\ m <= Len(p)
      BY <2>8
    <3>3. Closing(p, m) = {}
      BY <3>2 DEF Closing
    <3>4. Led(p, m, s[m]) = {g \in {m + 1} : p[m] = s[m]}
      BY <3>2, <3>3 DEF Led
    <3>5. s[m] = p[m]
      BY <2>6, <3>1, <3>4
    <3>6. Begins(m)
      <4>1. \A g \in 1..k : g <= m => g <= n \/ g = m
        OBVIOUS
      <4> HIDE DEF m
      <4> QED
        BY <2>7, <3>5, <4>1
    <3>7. \A g \in u : g = m + 1
      BY <3>1, <3>4
    <3>8. At(m, j)
      <4>1. m \in Nat
        OBVIOUS
      <4> HIDE DEF m, u
      <4> QED
        BY <1>3, <2>1, <2>3, <3>7, <4>1
    <3> QED
      BY <3>6, <3>8
  <2>9. CASE ~(n < k)
    BY <2>7, <2>9
  <2> QED
    BY <2>8, <2>9
<1> HIDE DEF Begun
<1>6. Len(s) \in Begun
  BY <1>4, <1>5, InductionOnNat
<1>7. Begins(Len(s)) /\ At(Len(s), k + 2)
  BY <1>2, <1>6 DEF Begun
<1>8. k <= Len(s)
  BY <1>7
<1> QED
  BY <1>7, <1>8

\* A pattern as a name: z for each wildcard, and for the star at f, where there
\* is one, as often as more says.
AsName(p, f, more, z) ==
  LET letter(c) == IF c \in {"*", "?"} THEN z ELSE c
  IN [m \in 1..(Len(p) + more) |->
        IF m <= f THEN letter(p[m]) ELSE IF m <= f + more THEN z ELSE letter(p[m - more])]

\* What it is, place by place.
Spells(w, p, f, more, z) ==
  /\ Len(w) = Len(p) + more
  /\ \A m \in 1..(Len(p) + more) :
       w[m] = IF m <= f THEN IF p[m] \in {"*", "?"} THEN z ELSE p[m]
              ELSE IF m <= f + more THEN z
              ELSE IF p[m - more] \in {"*", "?"} THEN z ELSE p[m - more]

LEMMA AsNameIs ==
  ASSUME NEW C, NEW p \in Seq(C), NEW f \in Nat, NEW more \in Nat, NEW z \in C, f <= Len(p) \/ more = 0
  PROVE  AsName(p, f, more, z) \in Seq(C) /\ Spells(AsName(p, f, more, z), p, f, more, z)
<1> DEFINE w == AsName(p, f, more, z)
           n == Len(p) + more
<1>1. Len(p) \in Nat /\ n \in Nat
  OBVIOUS
<1>2. /\ DOMAIN w = 1..n
      /\ \A m \in 1..n :
           w[m] = IF m <= f THEN IF p[m] \in {"*", "?"} THEN z ELSE p[m]
                  ELSE IF m <= f + more THEN z
                  ELSE IF p[m - more] \in {"*", "?"} THEN z ELSE p[m - more]
  BY DEF AsName
<1>3. w = [m \in 1..n |-> w[m]]
  BY DEF AsName
<1>4. \A m \in 1..n : w[m] \in C
  <2> SUFFICES ASSUME NEW m \in 1..n
               PROVE  w[m] \in C
    OBVIOUS
  <2>1. m <= f => m \in 1..Len(p)
    BY <1>1
  <2>2. ~(m <= f) /\ ~(m <= f + more) => m - more \in 1..Len(p)
    BY <1>1
  <2>3. \A i \in 1..Len(p) : p[i] \in C
    OBVIOUS
  <2> HIDE DEF w, n
  <2> QED
    BY <1>2, <2>1, <2>2, <2>3
<1> HIDE DEF w
<1>5. w \in Seq(C)
  BY <1>1, <1>3, <1>4
<1>6. Len(w) = n
  BY <1>1, <1>2, <1>5
<1> QED
  BY <1>2, <1>5, <1>6 DEF w, Spells

\* From position i, a character that it takes leads past it, and a star stays.
LEMMA Advances ==
  ASSUME NEW p, NEW s, Len(p) \in Nat, Len(s) \in Nat, NEW n \in 1..Len(s), NEW i \in 1..Len(p),
         i \in Reached(p, s)[n - 1], p[i] # "[", p[i] \in {"*", "?", s[n]}
  PROVE  /\ i + 1 \in Reached(p, s)[n]
         /\ p[i] = "*" => i \in Reached(p, s)[n]
<1> DEFINE r == Reached(p, s)
           u == UNION {Led(p, h, s[n]) : h \in r[n - 1]}
<1>1. r[n] = OverStars(p, u)
  BY ReachedAt DEF Follow
<1>2. Closing(p, i) = {}
  BY DEF Closing
<1>3. CASE p[i] = "*"
  <2>1. Led(p, i, s[n]) = {i}
    BY <1>3 DEF Led
  <2>2. i \in u
    BY <2>1
  <2> HIDE DEF u, r
  <2>3. /\ i \in 1..(Len(p) + 1) /\ i + 1 \in 1..(Len(p) + 1) /\ i <= i /\ i <= i + 1
        /\ i..(i - 1) = {} /\ i..((i + 1) - 1) = {i}
    OBVIOUS
  <2>4. i \in OverStars(p, u)
    BY <2>2, <2>3 DEF OverStars
  <2>5. i + 1 \in OverStars(p, u)
    BY <1>3, <2>2, <2>3 DEF OverStars
  <2> QED
    BY <1>1, <2>4, <2>5 DEF r
<1>4. CASE p[i] # "*"
  <2>1. Led(p, i, s[n]) = {i + 1}
    BY <1>2, <1>4 DEF Led
  <2>2. i + 1 \in u
    BY <2>1
  <2> HIDE DEF u, r
  <2>3. i + 1 \in 1..(Len(p) + 1) /\ i + 1 <= i + 1 /\ (i + 1)..((i + 1) - 1) = {}
    OBVIOUS
  <2>4. i + 1 \in OverStars(p, u)
    BY <2>2, <2>3 DEF OverStars
  <2> QED
    BY <1>1, <1>4, <2>4 DEF r
<1> QED
  BY <1>3, <1>4

\* A pattern matches itself as a name.
LEMMA AsNameMatches ==
  ASSUME NEW C, NEW p \in Seq(C), NEW f \in Nat \ {0}, NEW more \in Nat, NEW z \in C,
         \A i \in 1..Len(p) : p[i] # "[",
         f <= Len(p) => p[f] = "*", f <= Len(p) \/ (more = 0 /\ f = Len(p) + 1)
  PROVE  GlobMatch(p, AsName(p, f, more, z))
<1> DEFINE w == AsName(p, f, more, z)
           n == Len(p) + more
           r == Reached(p, w)
           Reaches == {m \in Nat : m <= n =>
                         /\ m < f => m + 1 \in r[m]
                         /\ m + 1 >= f /\ m < f + more => f \in r[m]
                         /\ m >= f + more => (m - more) + 1 \in r[m]}
<1>1. Len(p) \in Nat /\ n \in Nat
  OBVIOUS
<1>2. /\ w \in Seq(C) /\ Len(w) = n
      /\ \A m \in 1..n :
           w[m] = IF m <= f THEN IF p[m] \in {"*", "?"} THEN z ELSE p[m]
                  ELSE IF m <= f + more THEN z
                  ELSE IF p[m - more] \in {"*", "?"} THEN z ELSE p[m - more]
  <2>1. f \in Nat /\ (f <= Len(p) \/ more = 0)
    OBVIOUS
  <2>2. w \in Seq(C) /\ Spells(w, p, f, more, z)
    BY <2>1, AsNameIs
  <2> HIDE DEF w
  <2> QED
    BY <2>2 DEF Spells
<1> HIDE DEF w
<1>3. r[0] = OverStars(p, {1})
  BY <1>1, <1>2, ReachedAt
<1>4. ASSUME NEW m \in 1..n, NEW i \in 1..Len(p), i \in r[m - 1], p[i] \in {"*", "?", w[m]}
      PROVE  i + 1 \in r[m] /\ (p[i] = "*" => i \in r[m])
  <2>1. Len(w) \in Nat /\ m \in 1..Len(w)
    BY <1>1, <1>2
  <2> QED
    BY <1>1, <1>4, <2>1, Advances
<1>5. GlobMatch(p, w) <=> Len(p) + 1 \in r[n]
  BY <1>2 DEF GlobMatch
<1> HIDE DEF r
<1>6. 0 \in Reaches
  <2>1. 1 \in r[0]
    <3>1. 1 \in 1..(Len(p) + 1) /\ 1 <= 1 /\ 1..(1 - 1) = {}
      BY <1>1
    <3> QED
      BY <1>3, <3>1 DEF OverStars
  <2>2. 0 + 1 >= f /\ 0 < f + more => f = 1
    OBVIOUS
  <2>3. ~(0 >= f + more)
    OBVIOUS
  <2> QED
    BY <2>1, <2>2, <2>3
<1>7. ASSUME NEW m \in Nat, m \in Reaches
      PROVE  m + 1 \in Reaches
  <2> DEFINE l == m + 1
  <2>1. SUFFICES ASSUME l <= n
                 PROVE  /\ l < f => l + 1 \in r[l]
                        /\ l + 1 >= f /\ l < f + more => f \in r[l]
                        /\ l >= f + more => (l - more) + 1 \in r[l]
    OBVIOUS
  <2>2. /\ m < f => l \in r[m]
        /\ l >= f /\ m < f + more => f \in r[m]
        /\ m >= f + more => (m - more) + 1 \in r[m]
    BY <1>1, <1>7, <2>1
  <2>3. l \in 1..n /\ l - 1 = m
    BY <2>1
  <2>4. ASSUME l < f
        PROVE  l + 1 \in r[l]
    <3>1. l \in 1..Len(p) /\ l \in r[m] /\ l <= f
      BY <1>1, <2>2, <2>3, <2>4
    <3>2. p[l] \in {"*", "?", w[l]}
      BY <1>2, <2>3, <3>1
    <3> QED
      BY <1>4, <2>3, <3>1, <3>2
  <2>5. ASSUME l + 1 >= f, l < f + more
        PROVE  f \in r[l]
    <3>1. CASE l < f
      <4>1. f = l + 1
        BY <2>5, <3>1
      <4> QED
        BY <2>4, <3>1, <4>1
    <3>2. CASE l >= f
      <4>1. f \in r[m] /\ f \in 1..Len(p) /\ p[f] = "*"
        BY <1>1, <2>2, <2>5, <3>2
      <4> QED
        BY <1>4, <2>3, <4>1
    <3> QED
      BY <3>1, <3>2
  <2>6. ASSUME l >= f + more
        PROVE  (l - more) + 1 \in r[l]
    <3>1. CASE l = f + more
      <4>1. f \in r[m]
        BY <2>2, <3>1
      <4>2. f \in 1..Len(p) /\ p[f] = "*"
        BY <1>1, <2>3, <3>1
      <4>3. f + 1 \in r[l]
        BY <1>4, <2>3, <4>1, <4>2
      <4> QED
        BY <3>1, <4>3
    <3>2. CASE l # f + more
      <4> DEFINE i == l - more
      <4>1. i \in 1..Len(p) /\ i = (m - more) + 1 /\ m >= f + more
        BY <1>1, <2>3, <2>6, <3>2
      <4>2. i \in r[m]
        BY <2>2, <4>1
      <4>3. w[l] = IF p[i] \in {"*", "?"} THEN z ELSE p[i]
        <5>1. ~(l <= f) /\ ~(l <= f + more)
          BY <1>1, <2>3, <2>6, <3>2
        <5> QED
          BY <1>2, <2>3, <5>1
      <4> HIDE DEF i
      <4>4. p[i] \in {"*", "?", w[l]}
        BY <4>3
      <4>5. i + 1 \in r[l]
        BY <1>4, <2>3, <4>1, <4>2, <4>4
      <4> QED
        BY <4>5 DEF i
    <3> QED
      BY <3>1, <3>2
  <2> QED
    BY <2>4, <2>5, <2>6
<1> HIDE DEF Reaches
<1>8. n \in Reaches
  BY <1>1, <1>6, <1>7, InductionOnNat
<1>9. Len(p) + 1 \in r[n]
  <2>1. CASE f <= Len(p)
    <3>1. n >= f + more /\ (n - more) + 1 = Len(p) + 1 /\ n <= n
      BY <1>1, <2>1
    <3> QED
      BY <1>8, <3>1 DEF Reaches
  <2>2. CASE ~(f <= Len(p))
    <3>1. n < f /\ n + 1 = Len(p) + 1 /\ n <= n
      BY <1>1, <2>2
    <3> QED
      BY <1>8, <3>1 DEF Reaches
  <2> QED
    BY <2>1, <2>2
<1> QED
  BY <1>5, <1>9 DEF w

\* Texts p and q are patterns as the linter promises to tell apart, z a
\* character that p does not have.
Apart(p, q, z) ==
  /\ p \in Seq(STRING) /\ q \in Seq(STRING) /\ p # <<>> /\ q # <<>> /\ z \in STRING
  /\ \A k \in 1..Len(p) : p[k] # z
  /\ Simple(p) /\ ~HasClass(q) /\ ~GlobCovers(p, q)

\* s is a name of q that is none of p.
Tells(s, p, q) == s \in Seq(STRING) /\ s # <<>> /\ GlobMatch(q, s) /\ ~GlobMatch(p, s)

\* A name that spells q out, with z once for each wildcard.
LEMMA SpelledOut ==
  ASSUME NEW p, NEW q, NEW z, Apart(p, q, z)
  PROVE  \E w \in Seq(STRING) : /\ w # <<>> /\ GlobMatch(q, w) /\ Len(w) = Len(q)
                                /\ \A m \in 1..Len(q) : w[m] \in {z, q[m]}
<1> DEFINE f == Len(q) + 1
           w == AsName(q, f, 0, z)
<1>1. /\ q \in Seq(STRING) /\ Len(q) \in Nat /\ Len(q) > 0 /\ z \in STRING
      /\ \A i \in 1..Len(q) : q[i] # "["
  BY DEF Apart, HasClass, ToSet
<1>2. f \in Nat \ {0} /\ f \in Nat /\ 0 \in Nat /\ (f <= Len(q) => q[f] = "*") /\ Len(q) + 0 = Len(q)
  BY <1>1
<1>3. GlobMatch(q, w)
  BY <1>1, <1>2, AsNameMatches
<1>4. w \in Seq(STRING) /\ Spells(w, q, f, 0, z)
  BY <1>1, <1>2, AsNameIs
<1> HIDE DEF w
<1>5. Len(w) = Len(q)
  BY <1>2, <1>4 DEF Spells
<1>6. \A m \in 1..Len(q) : w[m] = IF q[m] \in {"*", "?"} THEN z ELSE q[m]
  BY <1>1, <1>2, <1>4 DEF Spells
<1>7. w # <<>>
  BY <1>1, <1>5
<1> QED
  BY <1>3, <1>4, <1>5, <1>6, <1>7

\* A star that stands for more than p can match.
LEMMA StretchedTells ==
  ASSUME NEW p, NEW q, NEW z, Apart(p, q, z), "*" \notin ToSet(p), "*" \in ToSet(q)
  PROVE  \E s : Tells(s, p, q)
<1>1. /\ q \in Seq(STRING) /\ Len(q) \in Nat /\ z \in STRING /\ p \in Seq(STRING) /\ Len(p) \in Nat
      /\ \A i \in 1..Len(q) : q[i] # "["
      /\ \A i \in 1..Len(p) : p[i] # "*"
  BY DEF Apart, HasClass, ToSet
<1>2. PICK f \in 1..Len(q) : q[f] = "*"
  BY <1>1 DEF ToSet
<1> DEFINE more == Len(p) + 1
           w == AsName(q, f, more, z)
<1>3. f \in Nat \ {0} /\ f \in Nat /\ more \in Nat /\ f <= Len(q)
  BY <1>1
<1> HIDE DEF more
<1>4. GlobMatch(q, w)
  BY <1>1, <1>2, <1>3, AsNameMatches
<1>5. w \in Seq(STRING) /\ Spells(w, q, f, more, z)
  BY <1>1, <1>3, AsNameIs
<1> HIDE DEF w
<1>6. Len(w) = Len(q) + more
  BY <1>5 DEF Spells
<1>7. Len(w) \in Nat /\ Len(w) > Len(p) /\ w # <<>>
  BY <1>1, <1>3, <1>5, <1>6 DEF more
<1>8. ~GlobMatch(p, w)
  BY <1>1, <1>7, StarlessLength
<1> QED
  BY <1>4, <1>5, <1>7, <1>8 DEF Tells

LEMMA StarlessTells ==
  ASSUME NEW p, NEW q, NEW z, Apart(p, q, z), "*" \notin ToSet(p), "*" \notin ToSet(q)
  PROVE  \E s : Tells(s, p, q)
<1>1. PICK w \in Seq(STRING) : /\ w # <<>> /\ GlobMatch(q, w) /\ Len(w) = Len(q)
                               /\ \A m \in 1..Len(q) : w[m] \in {z, q[m]}
  BY SpelledOut
<1>2. /\ p \in Seq(STRING) /\ Len(p) \in Nat /\ q \in Seq(STRING) /\ Len(q) \in Nat
      /\ \A k \in 1..Len(p) : p[k] # z
      /\ ~GlobCovers(p, q)
  BY DEF Apart
<1>3. ~GlobMatch(p, q)
  BY <1>2 DEF GlobCovers
<1>4. ~GlobMatch(p, w)
  <2> SUFFICES ASSUME GlobMatch(p, w)
               PROVE  FALSE
    OBVIOUS
  <2>1. Len(w) \in Nat /\ Len(q) = Len(w) /\ \A m \in 1..Len(w) : w[m] \in {z, q[m]}
    BY <1>1, <1>2
  <2>2. GlobMatch(p, q)
    BY <1>2, <2>1, FreshMatch
  <2> QED
    BY <1>3, <2>2
<1> QED
  BY <1>1, <1>4 DEF Tells

LEMMA PrefixTells ==
  ASSUME NEW p, NEW q, NEW z, Apart(p, q, z), "*" \in ToSet(p)
  PROVE  \E s : Tells(s, p, q)
<1>1. PICK w \in Seq(STRING) : /\ w # <<>> /\ GlobMatch(q, w) /\ Len(w) = Len(q)
                               /\ \A m \in 1..Len(q) : w[m] \in {z, q[m]}
  BY SpelledOut
<1>2. /\ p \in Seq(STRING) /\ Len(p) \in Nat /\ Len(p) > 0 /\ q \in Seq(STRING) /\ Len(q) \in Nat
      /\ \A i \in 1..Len(p) : p[i] # z
  BY DEF Apart
<1>3. /\ Last(p) = "*" /\ ToSet(Front(p)) \intersect {"*", "?", "["} = {}
      /\ ~IsPrefix(Front(p), q)
  BY DEF Apart, Simple, GlobCovers
<1> DEFINE k == Len(p) - 1
           t == SubSeq(p, 1, k)
<1>4. k \in Nat /\ Len(p) = k + 1
  BY <1>2
<1>5. Front(p) = t
  BY <1>2 DEF Front
<1>6. t \in Seq(STRING) /\ Len(t) = k /\ \A i \in 1..k : t[i] = p[i]
  BY <1>2, <1>4
<1> HIDE DEF k, t
<1>7. \A i \in 1..k : p[i] \notin {"*", "?", "["}
  <2> SUFFICES ASSUME NEW i \in 1..k
               PROVE  p[i] \notin {"*", "?", "["}
    OBVIOUS
  <2>1. i \in DOMAIN t /\ t[i] = p[i]
    BY <1>6
  <2>2. t[i] \in ToSet(t)
    BY <2>1 DEF ToSet
  <2>3. ToSet(t) \intersect {"*", "?", "["} = {}
    BY <1>3, <1>5
  <2> QED
    BY <2>1, <2>2, <2>3
<1>8. ~GlobMatch(p, w)
  <2> SUFFICES ASSUME GlobMatch(p, w)
               PROVE  FALSE
    OBVIOUS
  <2>1. Len(w) \in Nat
    BY <1>1
  <2>2. k <= Len(w) /\ \A i \in 1..k : w[i] = p[i]
    BY <1>4, <1>7, <2>1, PrefixMatch
  <2>3. \A i \in 1..k : i \in 1..Len(q) /\ i \in 1..Len(p)
    BY <1>1, <1>2, <1>4, <2>2
  <2>4. \A i \in 1..k : q[i] = t[i]
    BY <1>1, <1>2, <1>6, <2>2, <2>3
  <2>5. SubSeq(q, 1, k) = t
    <3>1. k <= Len(q)
      BY <1>1, <2>2
    <3>2. SubSeq(q, 1, k) \in Seq(STRING) /\ Len(SubSeq(q, 1, k)) = k
          /\ \A i \in 1..k : SubSeq(q, 1, k)[i] = q[i]
      BY <1>2, <1>4, <3>1
    <3> QED
      BY <1>6, <2>4, <3>2
  <2>6. SubSeq(t, 1, k) = t
    BY <1>6
  <2>7. k <= Len(q)
    BY <1>1, <2>2
  <2>8. IsPrefix(t, q)
    BY <1>6, <2>5, <2>6, <2>7 DEF IsPrefix
  <2> QED
    BY <1>3, <1>5, <2>8
<1> QED
  BY <1>1, <1>8 DEF Tells

LEMMA UncoveredTells ==
  ASSUME NEW p, NEW q, NEW z, Apart(p, q, z)
  PROVE  \E s : Tells(s, p, q)
BY StretchedTells, StarlessTells, PrefixTells

\* All that the linter finds in the policy.
Found == PolicyFindings \union UNION {RuleWarnings(i) \union RuleErrors(i) : i \in DOMAIN policy.rules}

CleanInv ==
  command \in {"lint", "doctor"} =>
    /\ policy \in Policies
    /\ exit = 0 => LintErrors(Found) = {}

LEMMA CleanInvariant == Spec => []CleanInv
<1>1. Init => CleanInv
  BY ContentsAssumption DEF Init, LintInit, NoBenchmark, CleanInv
<1>2. CleanInv /\ [Next]_allVars => CleanInv'
  <2> SUFFICES ASSUME CleanInv, [Next]_allVars
               PROVE  CleanInv'
    OBVIOUS
  <2>1. command' = command
    BY DEF Next, allVars, cliVars, Check, PolicyLint, Doctor, Benchmark, Exits
  <2>2. ASSUME policy' = policy
        PROVE  Found' = Found
    <3>1. PolicyFindings' = PolicyFindings
      BY <2>2 DEF PolicyFindings
    <3>2. \A i : RuleWarnings(i)' = RuleWarnings(i)
      BY <2>2 DEF RuleWarnings
    <3>3. \A i : RuleErrors(i)' = RuleErrors(i)
      BY <2>2 DEF RuleErrors
    <3> QED
      BY <2>2, <3>1, <3>2, <3>3 DEF Found
  <2>3. CASE PolicyLint \/ Doctor
    <3>1. policy' = policy /\ findings' = Found
      BY <2>3 DEF PolicyLint, Doctor, LintPolicy, Found
    <3>2. exit' = 0 => LintErrors(findings') = {}
      BY <2>3 DEF PolicyLint, Doctor, Exits
    <3>3. Found' = findings'
      BY <2>2, <3>1
    <3>4. LintErrors(Found)' = LintErrors(findings')
      BY <3>3 DEF LintErrors
    <3> QED
      BY <2>1, <3>1, <3>2, <3>4 DEF CleanInv, Policies
  <2>4. CASE Check \/ Benchmark
    BY <2>1, <2>4 DEF Check, Runs, Benchmark, CleanInv
  <2>5. CASE UNCHANGED allVars
    <3>1. policy' = policy /\ exit' = exit
      BY <2>5 DEF allVars, lintVars, benchmarkVars
    <3>2. LintErrors(Found)' = LintErrors(Found)
      BY <2>2, <3>1 DEF LintErrors
    <3> QED
      BY <2>1, <3>1, <3>2 DEF CleanInv, Policies
  <2> QED
    BY <2>3, <2>4, <2>5 DEF Next
<1> QED
  BY <1>1, <1>2, PTL DEF Spec

\* A tool can have any name, and no pattern has every character.
AnyName ==
  /\ Seq(STRING) \ {<<>>} \subseteq Name
  /\ \A p \in Pattern : \E z \in STRING : z \notin ToSet(p)

LEMMA CleanIsGuardedHolds == CleanInv => (AnyName => CleanIsGuarded)
<1> SUFFICES ASSUME CleanInv, AnyName, command \in {"lint", "doctor"}, exit = 0
             PROVE  Guarded
  BY DEF CleanIsGuarded
<1>1. policy \in Policies /\ LintErrors(Found) = {}
  BY DEF CleanInv
<1>2. \A f \in Found : f[1] \notin Errors
  BY <1>1 DEF LintErrors
<1>3. policy.limited
  <2> SUFFICES ASSUME ~policy.limited
               PROVE  FALSE
    OBVIOUS
  <2>1. <<"no_budgets", 0>> \in PolicyFindings
    BY DEF PolicyFindings
  <2>2. <<"no_budgets", 0>> \in Found
    BY <2>1 DEF Found
  <2> QED
    BY <1>2, <2>2 DEF Errors
<1>4. policy.default # "allow"
  <2> SUFFICES ASSUME policy.default = "allow"
               PROVE  FALSE
    OBVIOUS
  <2>1. <<"permissive_default", 0>> \in PolicyFindings
    BY DEF PolicyFindings
  <2>2. <<"permissive_default", 0>> \in Found
    BY <2>1 DEF Found
  <2> QED
    BY <1>2, <2>2 DEF Errors
<1>5. ASSUME NEW i \in DOMAIN policy.rules, NEW j \in DOMAIN policy.rules, j < i,
             policy.rules[j].decision = "allow", policy.rules[j].arguments = "none",
             Simple(policy.rules[j].tool),
             policy.rules[i].decision = "require_approval", ~HasClass(policy.rules[i].tool)
      PROVE  \E s \in Name : <<policy.rules[i].tool, s>> \in Matched /\ <<policy.rules[j].tool, s>> \notin Matched
  <2> DEFINE allow == policy.rules[j]
             held == policy.rules[i]
             p == allow.tool
             q == held.tool
  <2>1. PICK n \in 1..MaxRules : policy.rules \in [1..n -> Rule]
    BY <1>1 DEF Policies
  <2>2. allow \in Rule /\ held \in Rule /\ j \in 1..(i - 1)
    BY <1>5, <2>1
  <2>3. p \in Pattern /\ q \in Pattern
    BY <2>2 DEF Rule
  <2>4. ~HidesApproval(allow, held)
    <3> SUFFICES ASSUME HidesApproval(allow, held)
                 PROVE  FALSE
      OBVIOUS
    <3>1. <<"approval_shadowed_by_allow", i>> \in RuleErrors(i)
      BY <2>2 DEF RuleErrors
    <3>2. <<"approval_shadowed_by_allow", i>> \in Found
      BY <3>1 DEF Found
    <3> QED
      BY <1>2, <3>2 DEF Errors, Shadowed
  <2>5. ~GlobCovers(p, q)
    BY <1>5, <2>4 DEF HidesApproval
  <2>6. Simple(p) /\ ~HasClass(q)
    BY <1>5
  <2> HIDE DEF p, q
  <2>7. PICK z \in STRING : z \notin ToSet(p)
    BY <2>3 DEF AnyName
  <2>8. Apart(p, q, z)
    <3>1. p \in Seq(STRING) /\ q \in Seq(STRING) /\ p # <<>> /\ q # <<>>
      BY <2>3, TextAssumption
    <3>2. \A k \in 1..Len(p) : p[k] # z
      BY <2>7, <3>1 DEF ToSet
    <3> QED
      BY <2>5, <2>6, <3>1, <3>2 DEF Apart
  <2>9. PICK s : Tells(s, p, q)
    BY <2>8, UncoveredTells
  <2>10. s \in Name
    BY <2>9 DEF Tells, AnyName
  <2>11. <<q, s>> \in Matched /\ <<p, s>> \notin Matched
    BY <2>3, <2>9, <2>10 DEF Tells, Matched
  <2> QED
    BY <2>10, <2>11 DEF p, q
<1> QED
  BY <1>3, <1>4, <1>5 DEF Guarded

\* When tools can have any name, a policy that lint or doctor ends well for is
\* guarded: _glob_covers misses no simple allow rule that takes every name of
\* an approval rule behind it, whatever the patterns.
THEOREM CleanPoliciesAreGuarded == Spec => [](AnyName => CleanIsGuarded)
BY CleanInvariant, CleanIsGuardedHolds, PTL
=============================================================================
