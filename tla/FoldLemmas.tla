------------------------------ MODULE FoldLemmas ------------------------------
(***************************************************************************)
(* What a fold from the left does, step by step: the lemmas that proofs    *)
(* about FoldLeft (SequencesExt) rest on, for the operator Op that a module *)
(* puts in its place with INSTANCE.  FoldLeft is defined by a recursive     *)
(* function on sets of indices; that there is such a function is shown by  *)
(* induction, and the induction from the well-foundedness of < on Nat, with *)
(* the set of the numbers that have the property in place of the property. *)
(***************************************************************************)
EXTENDS Naturals, Sequences, SequencesExt, WellFoundedInduction, TLAPS

CONSTANT Op(_, _)

Fold(b, s) == FoldLeft(Op, b, s)

-----------------------------------------------------------------------------
\* A set that holds 0 and with a number the next one holds every number.
LEMMA InductionOnNat ==
  ASSUME NEW S, 0 \in S, \A n \in Nat : n \in S => n + 1 \in S
  PROVE  Nat \subseteq S
  <1> DEFINE T == Nat \ S
  <1> SUFFICES ASSUME T # {} PROVE FALSE
    OBVIOUS
  <1>1. IsWellFoundedOn(OpToRel(<, Nat), Nat)
    BY NatLessThanWellFounded
  <1>2. PICK x \in T : \A y \in T : ~(<< y, x >> \in OpToRel(<, Nat))
    <2>1. T \subseteq Nat
      OBVIOUS
    <2> HIDE DEF T
    <2> QED BY <1>1, <2>1, WFMin
  <1>3. \A y \in T : ~(y < x)
    BY <1>2 DEF OpToRel
  <1>4. x # 0 /\ x - 1 \in Nat /\ x - 1 < x /\ (x - 1) + 1 = x
    OBVIOUS
  <1>5. x - 1 \in S
    BY <1>3, <1>4
  <1> QED
    BY <1>4, <1>5

\* The same up to a bound.
LEMMA InductionUpTo ==
  ASSUME NEW n \in Nat, NEW S, 0 \in S, \A k \in 0 .. (n - 1) : k \in S => k + 1 \in S
  PROVE  0 .. n \subseteq S
  <1> DEFINE T == {k \in Nat : k \in S \/ k > n}
  <1>1. 0 \in T
    OBVIOUS
  <1>2. \A k \in Nat : k \in T => k + 1 \in T
    OBVIOUS
  <1>3. Nat \subseteq T
    <2> HIDE DEF T
    <2> QED BY <1>1, <1>2, InductionOnNat
  <1> QED
    BY <1>3

\* A set of numbers up to n has a last one.
LEMMA MaxOfSome ==
  ASSUME NEW n \in Nat, NEW t, t \subseteq 1 .. n, t # {}
  PROVE  Max(t) \in t /\ \A y \in t : y <= Max(t)
  <1> DEFINE S == {k \in 0 .. n : \A u \in SUBSET (1 .. k) : u # {} => \E x \in u : \A y \in u : x >= y}
  <1>1. 0 \in S
    <2>1. 1 .. 0 = {} /\ 0 \in 0 .. n
      OBVIOUS
    <2>2. \A u \in SUBSET {} : u = {}
      OBVIOUS
    <2> QED
      BY <2>1, <2>2
  <1>2. ASSUME NEW k \in 0 .. (n - 1), k \in S PROVE k + 1 \in S
    <2> SUFFICES ASSUME NEW u \in SUBSET (1 .. (k + 1)), u # {}
                 PROVE  \E x \in u : \A y \in u : x >= y
      OBVIOUS
    <2>1. CASE k + 1 \in u
      BY <2>1
    <2>2. CASE k + 1 \notin u
      <3>1. u \in SUBSET (1 .. k)
        BY <2>2
      <3> QED
        BY <1>2, <3>1
    <2> QED
      BY <2>1, <2>2
  <1>3. n \in S
    <2> HIDE DEF S
    <2>1. 0 .. n \subseteq S
      BY <1>1, <1>2, InductionUpTo
    <2> QED
      BY <2>1
  <1>4. \E x \in t : \A y \in t : x >= y
    BY <1>3
  <1> QED
    BY <1>4 DEF Max

\* The last of an interval is its end.
LEMMA MaxOfInterval ==
  ASSUME NEW n \in Nat, n # 0
  PROVE  Max(1 .. n) = n
  <1>1. 1 .. n \subseteq 1 .. n /\ n \in 1 .. n
    OBVIOUS
  <1>2. Max(1 .. n) \in 1 .. n /\ \A y \in 1 .. n : y <= Max(1 .. n)
    <2>1. 1 .. n # {}
      BY <1>1
    <2> QED
      BY <1>1, <2>1, MaxOfSome
  <1> QED
    BY <1>1, <1>2

-----------------------------------------------------------------------------
\* The function that FoldLeft is defined by.
Iterates(h, b, s, n) ==
  h = [t \in SUBSET (1 .. n) |-> IF t = {} THEN b ELSE Op(h[t \ {Max(t)}], s[Max(t)])]

\* There is such a function, for any operator and start.
LEMMA IterationExists ==
  ASSUME NEW b, NEW s, NEW n \in Nat
  PROVE  \E h : Iterates(h, b, s, n)
  <1> DEFINE S == {k \in Nat : \E h : Iterates(h, b, s, k)}
  <1>1. 0 \in S
    <2> DEFINE h == [t \in SUBSET (1 .. 0) |-> b]
    <2>1. Iterates(h, b, s, 0)
      BY DEF Iterates
    <2> QED
      BY <2>1
  <1>2. ASSUME NEW k \in Nat, k \in S PROVE k + 1 \in S
    <2>1. PICK h : Iterates(h, b, s, k)
      BY <1>2
    <2> DEFINE g == [t \in SUBSET (1 .. (k + 1)) |->
                       IF k + 1 \in t THEN Op(h[t \ {k + 1}], s[k + 1]) ELSE h[t]]
    <2>2. ASSUME NEW t \in SUBSET (1 .. (k + 1)), t # {}
          PROVE  g[t] = Op(g[t \ {Max(t)}], s[Max(t)])
      <3>1. Max(t) \in t /\ \A y \in t : y <= Max(t)
        <4>1. t \subseteq 1 .. (k + 1) /\ k + 1 \in Nat
          OBVIOUS
        <4> QED
          BY <2>2, <4>1, MaxOfSome
      <3>2. CASE k + 1 \in t
        <4>1. Max(t) = k + 1
          <5>1. Max(t) \in 1 .. (k + 1) /\ k + 1 <= Max(t)
            BY <3>1, <3>2
          <5> QED
            BY <5>1
        <4>2. g[t \ {k + 1}] = h[t \ {k + 1}]
          OBVIOUS
        <4> QED
          BY <4>1, <4>2, <3>2
      <3>3. CASE k + 1 \notin t
        <4>1. t \in SUBSET (1 .. k)
          BY <3>3
        <4>2. g[t] = h[t] /\ g[t \ {Max(t)}] = h[t \ {Max(t)}]
          BY <3>3
        <4>3. h[t] = Op(h[t \ {Max(t)}], s[Max(t)])
          BY <2>1, <2>2, <4>1 DEF Iterates
        <4> QED
          BY <4>2, <4>3
      <3> QED
        BY <3>2, <3>3
    <2>3. g[{}] = b
      BY <2>1 DEF Iterates
    <2>4. Iterates(g, b, s, k + 1)
      <3>1. \A t \in SUBSET (1 .. (k + 1)) :
              g[t] = IF t = {} THEN b ELSE Op(g[t \ {Max(t)}], s[Max(t)])
        BY <2>2, <2>3
      <3>2. g = [t \in SUBSET (1 .. (k + 1)) |-> g[t]]
        OBVIOUS
      <3> QED
        BY <3>1, <3>2 DEF Iterates
    <2> QED
      BY <2>4
  <1>3. Nat \subseteq S
    <2> HIDE DEF S
    <2> QED
      BY <1>1, <1>2, InductionOnNat
  <1> QED
    BY <1>3

\* The values of a fold on its way through a sequence of n elements.
Steps(r, b, s, n) ==
  /\ r = [k \in 0 .. n |-> r[k]]
  /\ r[0] = b
  /\ \A k \in 1 .. n : r[k] = Op(r[k - 1], s[k])
  /\ Fold(b, s) = r[n]

\* A fold is the last of its values, each made of the one before and the next element.
LEMMA FoldSteps ==
  ASSUME NEW b, NEW s, NEW n \in Nat, DOMAIN s = 1 .. n
  PROVE  \E r : Steps(r, b, s, n)
  <1> DEFINE G == CHOOSE h : Iterates(h, b, s, n)
             r == [k \in 0 .. n |-> G[1 .. k]]
  <1>1. Iterates(G, b, s, n)
    BY IterationExists
  <1>2. Fold(b, s) = G[1 .. n]
    BY DEF Fold, FoldLeft, MapThenFoldSet, Iterates
  <1> HIDE DEF G
  <1>3. r[0] = b
    BY <1>1 DEF Iterates
  <1>4. ASSUME NEW k \in 1 .. n PROVE r[k] = Op(r[k - 1], s[k])
    <2>1. Max(1 .. k) = k
      BY MaxOfInterval
    <2>2. (1 .. k) \ {k} = 1 .. (k - 1) /\ 1 .. k # {} /\ 1 .. k \in SUBSET (1 .. n)
      OBVIOUS
    <2>3. G[1 .. k] = Op(G[(1 .. k) \ {Max(1 .. k)}], s[Max(1 .. k)])
      BY <1>1, <2>2 DEF Iterates
    <2>4. r[k] = G[1 .. k] /\ r[k - 1] = G[1 .. (k - 1)]
      OBVIOUS
    <2> HIDE DEF r
    <2> QED
      BY <2>1, <2>2, <2>3, <2>4
  <1>5. r = [k \in 0 .. n |-> r[k]] /\ Fold(b, s) = r[n]
    BY <1>2
  <1> HIDE DEF r
  <1> QED
    BY <1>3, <1>4, <1>5 DEF Steps

\* Nothing to fold gives the start.
LEMMA FoldEmpty ==
  ASSUME NEW b
  PROVE  Fold(b, << >>) = b
  <1>1. DOMAIN << >> = 1 .. 0
    OBVIOUS
  <1>2. PICK r : Steps(r, b, << >>, 0)
    BY <1>1, FoldSteps
  <1> QED
    BY <1>2 DEF Steps

\* One element more is one step more.
LEMMA FoldAppend ==
  ASSUME NEW b, NEW T, NEW s \in Seq(T), NEW x \in T
  PROVE  Fold(b, Append(s, x)) = Op(Fold(b, s), x)
  <1> DEFINE n == Len(s)
             u == Append(s, x)
  <1>1. u[n + 1] = x /\ \A k \in 1 .. n : u[k] = s[k]
    OBVIOUS
  <1>2. n \in Nat /\ n + 1 \in Nat /\ DOMAIN s = 1 .. n /\ DOMAIN u = 1 .. (n + 1)
    OBVIOUS
  <1> HIDE DEF n, u
  <1>3. PICK r : Steps(r, b, s, n)
    BY <1>2, FoldSteps
  <1>4. PICK q : Steps(q, b, u, n + 1)
    BY <1>2, FoldSteps
  <1> DEFINE S == {k \in 0 .. n : r[k] = q[k]}
  <1>5. 0 \in S
    BY <1>2, <1>3, <1>4 DEF Steps
  <1>6. ASSUME NEW k \in 0 .. (n - 1), k \in S PROVE k + 1 \in S
    <2>1. k + 1 \in 1 .. n /\ k + 1 \in 1 .. (n + 1) /\ (k + 1) - 1 = k
      BY <1>2
    <2>2. r[k + 1] = Op(r[k], s[k + 1]) /\ q[k + 1] = Op(q[k], u[k + 1])
      BY <1>3, <1>4, <2>1 DEF Steps
    <2> QED
      BY <1>2, <1>1, <1>6, <2>1, <2>2
  <1>7. n \in S
    <2> HIDE DEF S
    <2>1. 0 .. n \subseteq S
      BY <1>2, <1>5, <1>6, InductionUpTo
    <2> QED
      BY <1>2, <2>1
  <1>8. q[n + 1] = Op(q[n], x)
    BY <1>2, <1>1, <1>4 DEF Steps
  <1> QED
    BY <1>3, <1>4, <1>7, <1>8 DEF u, Steps

\* What holds of the start, and with the value after k elements of the value after
\* k + 1, holds of the fold.  The invariant is the set of such numbers with their values.
LEMMA FoldInvariant ==
  ASSUME NEW I, NEW b, NEW s, NEW n \in Nat, DOMAIN s = 1 .. n, << 0, b >> \in I,
         \A k \in 0 .. (n - 1) : \A a : << k, a >> \in I => << k + 1, Op(a, s[k + 1]) >> \in I
  PROVE  << n, Fold(b, s) >> \in I
  <1>1. PICK r : Steps(r, b, s, n)
    BY FoldSteps
  <1> DEFINE R == {k \in 0 .. n : << k, r[k] >> \in I}
  <1>2. 0 \in R
    BY <1>1 DEF Steps
  <1>3. ASSUME NEW k \in 0 .. (n - 1), k \in R PROVE k + 1 \in R
    <2>1. k + 1 \in 1 .. n /\ (k + 1) - 1 = k
      OBVIOUS
    <2>2. r[k + 1] = Op(r[k], s[k + 1])
      BY <1>1, <2>1 DEF Steps
    <2> QED
      BY <1>3, <2>1, <2>2
  <1>4. n \in R
    <2> HIDE DEF R
    <2>1. 0 .. n \subseteq R
      BY <1>2, <1>3, InductionUpTo
    <2> QED
      BY <2>1
  <1> QED
    BY <1>1, <1>4 DEF Steps

\* A fold keeps what each step keeps.
LEMMA FoldType ==
  ASSUME NEW T, NEW S, NEW b \in S, NEW s \in Seq(T), \A a \in S, x \in T : Op(a, x) \in S
  PROVE  Fold(b, s) \in S
  <1> DEFINE n == Len(s)
             I == (0 .. n) \X S
  <1>1. n \in Nat /\ DOMAIN s = 1 .. n /\ \A k \in 1 .. n : s[k] \in T
    OBVIOUS
  <1> HIDE DEF n
  <1>2. << 0, b >> \in I
    BY <1>1
  <1>3. ASSUME NEW k \in 0 .. (n - 1), NEW a, << k, a >> \in I
        PROVE  << k + 1, Op(a, s[k + 1]) >> \in I
    BY <1>1, <1>3
  <1>4. << n, Fold(b, s) >> \in I
    <2> HIDE DEF I
    <2> QED
      BY <1>1, <1>2, <1>3, FoldInvariant
  <1> QED
    BY <1>4
=============================================================================
