---------------------------- MODULE LibraryProofs ---------------------------
(***************************************************************************)
(* What the proofs of several components need of the operators their       *)
(* models are built from, beside what the library's theorems say.          *)
(*                                                                         *)
(* Of Subsequence: its elements, their order, and how it follows the       *)
(* sequence when that grows.  It is a recursive function on the natural    *)
(* numbers; its equations follow from there being a least number at which  *)
(* they would fail.  Of finite sets: that they can be sorted, and the sum  *)
(* of a function on them.                                                  *)
(***************************************************************************)
EXTENDS Subsequences, SequencesExt, SequenceTheorems, FiniteSetTheorems, WellFoundedInduction, TLAPS

\* A set of natural numbers has a least element.
LEMMA LeastNatural ==
    ASSUME NEW T \in SUBSET Nat, T # {}
    PROVE  \E m \in T : \A k \in T : m <= k
<1> DEFINE Less == {ss \in Nat \X Nat : ss[1] < ss[2]}
<1>1. IsWellFoundedOn(Less, Nat)
  BY NatLessThanWellFounded DEF OpToRel
<1>2. PICK m \in T : \A k \in T : <<k, m>> \notin Less
  <2> HIDE DEF Less
  <2> QED BY <1>1, WFMin
<1>3. ASSUME NEW k \in T PROVE m <= k
  <2>1. k \in Nat /\ m \in Nat
    OBVIOUS
  <2>2. ~(k < m)
    BY <1>2, <2>1
  <2> QED BY <2>1, <2>2
<1> QED
  BY <1>3

\* A set that has 0 and the successor of each of its elements up to n has all up to n.
LEMMA UpTo ==
    ASSUME NEW n \in Nat, NEW P, 0 \in P, \A m \in 0..(n - 1) : m \in P => m + 1 \in P
    PROVE  \A m \in 0..n : m \in P
<1> SUFFICES ASSUME NEW m \in 0..n, m \notin P PROVE FALSE
  OBVIOUS
<1> DEFINE T == {k \in 0..n : k \notin P}
<1>1. T \in SUBSET Nat /\ T # {}
  OBVIOUS
<1>2. PICK k \in T : \A j \in T : k <= j
  BY <1>1, LeastNatural
<1>3. k \in 1..n /\ k - 1 \notin T /\ k - 1 \in 0..(n - 1)
  BY <1>2
<1> QED
  BY <1>3

\* What a recursive definition over 0..n is built from that takes each value, an element
\* of V, from the one before; and the functions that satisfy it.
Iterations(n, V) == [1..n -> [V -> V]]

Solves(g, n, V, base, F) ==
    g \in [0..n -> V] /\ g[0] = base /\ \A m \in 1..n : g[m] = F[m][g[m - 1]]

\* Such a definition has a solution.
LEMMA Recursion ==
    ASSUME NEW n \in Nat, NEW V, NEW base \in V, NEW F \in Iterations(n, V)
    PROVE  \E g : Solves(g, n, V, base, F)
<1> DEFINE P == {k \in 0..n : \E g : Solves(g, k, V, base, F)}
<1>1. 0 \in P
  <2>1. Solves([m \in 0..0 |-> base], 0, V, base, F)
    BY DEF Solves
  <2>2. \E g : Solves(g, 0, V, base, F)
    BY <2>1
  <2> QED BY <2>2
<1>2. ASSUME NEW k \in 0..(n - 1), k \in P PROVE k + 1 \in P
  <2>1. PICK g : Solves(g, k, V, base, F)
    BY <1>2
  <2> DEFINE h == [m \in 0..(k + 1) |-> IF m = k + 1 THEN F[k + 1][g[k]] ELSE g[m]]
  <2>2. F[k + 1][g[k]] \in V
    BY <2>1 DEF Solves, Iterations
  <2>3. h \in [0..(k + 1) -> V] /\ h[0] = base
    BY <2>1, <2>2 DEF Solves
  <2>4. ASSUME NEW m \in 1..(k + 1) PROVE h[m] = F[m][h[m - 1]]
    BY <2>1 DEF Solves
  <2>5. Solves(h, k + 1, V, base, F)
    BY <2>3, <2>4 DEF Solves
  <2>6. \E f : Solves(f, k + 1, V, base, F)
    BY <2>5
  <2> QED BY <2>6
<1> HIDE DEF P
<1>3. \A m \in 0..n : m \in P
  BY <1>1, <1>2, UpTo
<1> QED
  BY <1>3 DEF P

\* The values of Subsequence's function, for a sequence s of elements of T.
Selects(g, T, s, S) ==
    /\ g \in [0..Len(s) -> Seq(T)]
    /\ g[0] = <<>>
    /\ \A m \in 1..Len(s) : g[m] = IF s[m] \in S THEN Append(g[m - 1], s[m]) ELSE g[m - 1]
    /\ Subsequence(s, S) = g[Len(s)]

LEMMA SubsequenceValues ==
    ASSUME NEW T, NEW s \in Seq(T), NEW S
    PROVE  \E g : Selects(g, T, s, S)
<1> DEFINE Step(f) == [n \in 0..Len(s) |->
              IF n = 0 THEN <<>>
              ELSE IF s[n] \in S THEN Append(f[n - 1], s[n]) ELSE f[n - 1]]
           F == [m \in 1..Len(s) |->
                   [v \in Seq(T) |-> IF s[m] \in S THEN Append(v, s[m]) ELSE v]]
           upTo == CHOOSE f : f = Step(f)
<1>1. Len(s) \in Nat /\ <<>> \in Seq(T) /\ F \in Iterations(Len(s), Seq(T))
  BY DEF Iterations
<1>2. PICK g \in [0..Len(s) -> Seq(T)] :
         g[0] = <<>> /\ \A m \in 1..Len(s) : g[m] = F[m][g[m - 1]]
  <2> HIDE DEF F
  <2>1. \E g : Solves(g, Len(s), Seq(T), <<>>, F)
    <3> HIDE DEF F
    <3> QED BY <1>1, Recursion
  <2> HIDE DEF F
  <2> QED BY <2>1 DEF Solves
<1>3. \A m \in 1..Len(s) : g[m] = IF s[m] \in S THEN Append(g[m - 1], s[m]) ELSE g[m - 1]
  <2> SUFFICES ASSUME NEW m \in 1..Len(s)
               PROVE  g[m] = IF s[m] \in S THEN Append(g[m - 1], s[m]) ELSE g[m - 1]
    OBVIOUS
  <2>1. m - 1 \in 0..Len(s) /\ g[m - 1] \in Seq(T)
    <3> HIDE DEF F
    <3>1. m - 1 \in 0..Len(s)
      BY <1>1
    <3> QED BY <3>1
  <2>2. g[m] = F[m][g[m - 1]]
    BY <1>2
  <2>3. \A v \in Seq(T) : F[m][v] = IF s[m] \in S THEN Append(v, s[m]) ELSE v
    OBVIOUS
  <2> HIDE DEF F
  <2> QED BY <2>1, <2>2, <2>3
<1>4. g = Step(g)
  <2>1. DOMAIN g = 0..Len(s) /\ g = [n \in 0..Len(s) |-> g[n]]
    BY <1>2
  <2>2. \A n \in 0..Len(s) : g[n] = Step(g)[n]
    <3> SUFFICES ASSUME NEW n \in 0..Len(s) PROVE g[n] = Step(g)[n]
      OBVIOUS
    <3> HIDE DEF F
    <3>1. CASE n = 0
      BY <1>2, <3>1
    <3>2. CASE n \in 1..Len(s)
      <4> DEFINE v == IF s[n] \in S THEN Append(g[n - 1], s[n]) ELSE g[n - 1]
      <4>1. n # 0 /\ Step(g)[n] = v
        BY <1>1, <3>2
      <4>2. g[n] = v
        BY <1>3, <3>2
      <4> HIDE DEF v, Step
      <4> QED BY <4>1, <4>2
    <3> QED BY <1>1, <3>1, <3>2
  <2>3. Step(g) = [n \in 0..Len(s) |-> Step(g)[n]]
    OBVIOUS
  <2> HIDE DEF Step, F
  <2> QED BY <2>1, <2>2, <2>3
<1>5. upTo = Step(upTo)
  <2> HIDE DEF Step
  <2> QED BY <1>4
<1>6. \A m \in 0..Len(s) : upTo[m] = g[m]
  <2> DEFINE P == {m \in 0..Len(s) : upTo[m] = g[m]}
  <2> HIDE DEF upTo
  <2>1. 0 \in P
    BY <1>2, <1>5
  <2>2. ASSUME NEW m \in 0..(Len(s) - 1), m \in P PROVE m + 1 \in P
    <3>1. m + 1 \in 1..Len(s) /\ m + 1 \in 0..Len(s) /\ m + 1 # 0 /\ (m + 1) - 1 = m
      BY <1>1
    <3>2. upTo[m + 1] = Step(upTo)[m + 1]
      <4> HIDE DEF Step
      <4> QED BY <1>5
    <3>3. upTo[m + 1] = IF s[m + 1] \in S THEN Append(upTo[m], s[m + 1]) ELSE upTo[m]
      <4> HIDE DEF F
      <4> QED BY <3>1, <3>2
    <3>4. g[m + 1] = IF s[m + 1] \in S THEN Append(g[m], s[m + 1]) ELSE g[m]
      <4> HIDE DEF F, Step
      <4> QED BY <1>3, <3>1
    <3> HIDE DEF F, Step
    <3> QED BY <2>2, <3>1, <3>3, <3>4
  <2> HIDE DEF P
  <2>3. \A m \in 0..Len(s) : m \in P
    BY <1>1, <2>1, <2>2, UpTo
  <2> QED BY <2>3 DEF P
<1>7. Subsequence(s, S) = upTo[Len(s)]
  BY DEF Subsequence
<1>8. Subsequence(s, S) = g[Len(s)]
  <2> HIDE DEF upTo
  <2> QED BY <1>1, <1>6, <1>7
<1> HIDE DEF upTo, F, Step
<1> QED
  BY <1>2, <1>3, <1>8 DEF Selects

-----------------------------------------------------------------------------
LEMMA SubsequenceType ==
    ASSUME NEW T, NEW s \in Seq(T), NEW S
    PROVE  Subsequence(s, S) \in Seq(T)
<1>1. PICK g : Selects(g, T, s, S)
  BY SubsequenceValues
<1>2. Len(s) \in 0..Len(s)
  OBVIOUS
<1> QED
  BY <1>1, <1>2 DEF Selects

LEMMA SubsequenceEmpty == \A S : Subsequence(<<>>, S) = <<>>
<1> SUFFICES ASSUME NEW S PROVE Subsequence(<<>>, S) = <<>>
  OBVIOUS
<1>1. <<>> \in Seq({}) /\ Len(<<>>) = 0
  OBVIOUS
<1> DEFINE s == <<>>
<1>2. s \in Seq({}) /\ Len(s) = 0
  BY <1>1
<1> HIDE DEF s
<1>3. PICK g : Selects(g, {}, s, S)
  BY <1>2, SubsequenceValues
<1>4. Subsequence(s, S) = <<>>
  BY <1>2, <1>3 DEF Selects
<1> QED
  BY <1>4 DEF s

LEMMA SubsequenceAppend ==
    ASSUME NEW T, NEW s \in Seq(T), NEW x \in T, NEW S
    PROVE  Subsequence(Append(s, x), S) =
              IF x \in S THEN Append(Subsequence(s, S), x) ELSE Subsequence(s, S)
<1> DEFINE t == Append(s, x)
           n == Len(s)
<1>1. n \in Nat /\ t \in Seq(T) /\ Len(t) = n + 1 /\ t[n + 1] = x
      /\ \A m \in 1..n : t[m] = s[m]
  OBVIOUS
<1> HIDE DEF t, n
<1>2. PICK g : Selects(g, T, s, S)
  BY SubsequenceValues
<1>3. PICK h : Selects(h, T, t, S)
  BY <1>1, SubsequenceValues
<1> DEFINE P == {m \in 0..n : h[m] = g[m]}
<1>4. 0 \in P
  BY <1>1, <1>2, <1>3 DEF Selects
<1>5. ASSUME NEW m \in 0..(n - 1), m \in P PROVE m + 1 \in P
  <2>1. m + 1 \in 1..n /\ m + 1 \in 1..Len(t) /\ m + 1 \in 0..n /\ (m + 1) - 1 = m
    BY <1>1
  <2>2. g[m + 1] = IF s[m + 1] \in S THEN Append(g[m], s[m + 1]) ELSE g[m]
    BY <1>2, <2>1 DEF Selects, n
  <2>3. h[m + 1] = IF t[m + 1] \in S THEN Append(h[m], t[m + 1]) ELSE h[m]
    BY <1>3, <2>1 DEF Selects
  <2> QED BY <1>1, <1>5, <2>1, <2>2, <2>3
<1> HIDE DEF P
<1>6. h[n] = g[n]
  <2>1. \A m \in 0..n : m \in P
    BY <1>1, <1>4, <1>5, UpTo
  <2> QED BY <1>1, <2>1 DEF P
<1>7. h[n + 1] = IF x \in S THEN Append(h[n], x) ELSE h[n]
  <2>1. n + 1 \in 1..Len(t) /\ (n + 1) - 1 = n
    BY <1>1
  <2> QED BY <1>1, <1>3, <2>1 DEF Selects
<1>8. Subsequence(s, S) = g[n] /\ Subsequence(t, S) = h[n + 1]
  BY <1>1, <1>2, <1>3 DEF Selects, n
<1> QED
  BY <1>6, <1>7, <1>8 DEF t

LEMMA PrefixAppend ==
    ASSUME NEW T, NEW s \in Seq(T), NEW k \in 0..(Len(s) - 1)
    PROVE  /\ SubSeq(s, 1, k) \in Seq(T) /\ s[k + 1] \in T
           /\ SubSeq(s, 1, k + 1) = Append(SubSeq(s, 1, k), s[k + 1])
OBVIOUS

LEMMA SubsequenceConcat ==
    ASSUME NEW T, NEW s \in Seq(T), NEW t \in Seq(T), NEW S
    PROVE  Subsequence(s \o t, S) = Subsequence(s, S) \o Subsequence(t, S)
<1> DEFINE n == Len(t)
           pre(k) == SubSeq(t, 1, k)
           P == {k \in 0..n : Subsequence(s \o pre(k), S) =
                                 Subsequence(s, S) \o Subsequence(pre(k), S)}
<1>1. n \in Nat /\ pre(n) = t /\ s \o pre(n) = s \o t
  OBVIOUS
<1>2. 0 \in P
  <2>1. pre(0) = <<>> /\ s \o <<>> = s
    OBVIOUS
  <2>2. Subsequence(s, S) \o <<>> = Subsequence(s, S)
    BY SubsequenceType, ConcatEmptySeq
  <2>3. Subsequence(s \o pre(0), S) = Subsequence(s, S) \o Subsequence(pre(0), S)
    <3> HIDE DEF pre
    <3> QED BY <2>1, <2>2, SubsequenceEmpty
  <2> HIDE DEF pre
  <2> QED BY <1>1, <2>3
<1>3. ASSUME NEW k \in 0..(n - 1), k \in P PROVE k + 1 \in P
  <2>1. pre(k) \in Seq(T) /\ t[k + 1] \in T /\ pre(k + 1) = Append(pre(k), t[k + 1])
    BY PrefixAppend
  <2> DEFINE p == pre(k)
             x == t[k + 1]
  <2>2. s \o pre(k + 1) = Append(s \o p, x)
    BY <2>1
  <2> HIDE DEF p, x
  <2>3. p \in Seq(T) /\ x \in T /\ s \o p \in Seq(T)
    BY <2>1 DEF p, x
  <2>4. Subsequence(s \o pre(k + 1), S) =
           IF x \in S THEN Append(Subsequence(s \o p, S), x) ELSE Subsequence(s \o p, S)
    BY <2>2, <2>3, SubsequenceAppend
  <2>5. Subsequence(pre(k + 1), S) =
           IF x \in S THEN Append(Subsequence(p, S), x) ELSE Subsequence(p, S)
    <3>1. pre(k + 1) = Append(p, x)
      BY <2>1 DEF p, x
    <3> QED BY <2>3, <3>1, SubsequenceAppend
  <2>6. Subsequence(s \o p, S) = Subsequence(s, S) \o Subsequence(p, S)
    BY <1>3 DEF p
  <2>7. Subsequence(s, S) \in Seq(T) /\ Subsequence(p, S) \in Seq(T)
    BY <2>3, SubsequenceType
  <2>8. Append(Subsequence(s, S) \o Subsequence(p, S), x)
           = Subsequence(s, S) \o Append(Subsequence(p, S), x)
    <3> DEFINE a == Subsequence(s, S)
               b == Subsequence(p, S)
    <3>1. a \in Seq(T) /\ b \in Seq(T)
      BY <2>7
    <3> HIDE DEF a, b
    <3>2. Append(a \o b, x) = (a \o b) \o <<x>> /\ Append(b, x) = b \o <<x>>
      BY <2>3, <3>1, AppendIsConcat, ConcatProperties
    <3>3. (a \o b) \o <<x>> = a \o (b \o <<x>>)
      <4>1. <<x>> \in Seq(T)
        BY <2>3
      <4> QED BY <3>1, <4>1, ConcatAssociative
    <3>4. Append(a \o b, x) = a \o Append(b, x)
      BY <3>2, <3>3
    <3> QED BY <3>4 DEF a, b
  <2>9. k + 1 \in 0..n
    BY <1>1
  <2> HIDE DEF pre, n
  <2> QED BY <2>4, <2>5, <2>6, <2>8, <2>9
<1> HIDE DEF P
<1>4. \A k \in 0..n : k \in P
  BY <1>1, <1>2, <1>3, UpTo
<1>5. n \in P
  BY <1>1, <1>4
<1> HIDE DEF n
<1> QED
  BY <1>1, <1>5 DEF P

\* A sequence whose elements all are in the set, and one that has none in it.
LEMMA SubsequenceAll ==
    ASSUME NEW T, NEW s \in Seq(T), NEW S, \A i \in DOMAIN s : s[i] \in S
    PROVE  Subsequence(s, S) = s
<1> DEFINE n == Len(s)
           P == {k \in 0..n : Subsequence(SubSeq(s, 1, k), S) = SubSeq(s, 1, k)}
<1>1. n \in Nat /\ SubSeq(s, 1, n) = s /\ SubSeq(s, 1, 0) = <<>> /\ DOMAIN s = 1..n
  OBVIOUS
<1>2. 0 \in P
  <2>1. Subsequence(SubSeq(s, 1, 0), S) = <<>>
    BY <1>1, SubsequenceEmpty
  <2>2. 0 \in 0..n
    BY <1>1
  <2> HIDE DEF n
  <2> QED BY <1>1, <2>1, <2>2
<1>3. ASSUME NEW k \in 0..(n - 1), k \in P PROVE k + 1 \in P
  <2>1. /\ SubSeq(s, 1, k) \in Seq(T) /\ s[k + 1] \in T
        /\ SubSeq(s, 1, k + 1) = Append(SubSeq(s, 1, k), s[k + 1])
    BY PrefixAppend
  <2>2. s[k + 1] \in S /\ k + 1 \in 0..n
    BY <1>1
  <2> DEFINE p == SubSeq(s, 1, k)
             q == SubSeq(s, 1, k + 1)
             x == s[k + 1]
  <2>3. p \in Seq(T) /\ x \in T /\ q = Append(p, x)
    BY <2>1
  <2> HIDE DEF p, x, q
  <2>4. Subsequence(q, S) = IF x \in S THEN Append(Subsequence(p, S), x)
                                        ELSE Subsequence(p, S)
    BY <2>3, SubsequenceAppend
  <2> QED BY <1>3, <2>2, <2>3, <2>4 DEF p, x, q
<1> HIDE DEF P
<1>4. \A k \in 0..n : k \in P
  BY <1>1, <1>2, <1>3, UpTo
<1>5. n \in P
  BY <1>1, <1>4
<1> HIDE DEF n
<1> QED
  BY <1>1, <1>5 DEF P

LEMMA SubsequenceNone ==
    ASSUME NEW T, NEW s \in Seq(T), NEW S, \A i \in DOMAIN s : s[i] \notin S
    PROVE  Subsequence(s, S) = <<>>
<1> DEFINE n == Len(s)
           P == {k \in 0..n : Subsequence(SubSeq(s, 1, k), S) = <<>>}
<1>1. n \in Nat /\ SubSeq(s, 1, n) = s /\ SubSeq(s, 1, 0) = <<>> /\ DOMAIN s = 1..n
  OBVIOUS
<1>2. 0 \in P
  <2>1. Subsequence(SubSeq(s, 1, 0), S) = <<>>
    BY <1>1, SubsequenceEmpty
  <2>2. 0 \in 0..n
    BY <1>1
  <2> HIDE DEF n
  <2> QED BY <1>1, <2>1, <2>2
<1>3. ASSUME NEW k \in 0..(n - 1), k \in P PROVE k + 1 \in P
  <2>1. /\ SubSeq(s, 1, k) \in Seq(T) /\ s[k + 1] \in T
        /\ SubSeq(s, 1, k + 1) = Append(SubSeq(s, 1, k), s[k + 1])
    BY PrefixAppend
  <2>2. s[k + 1] \notin S /\ k + 1 \in 0..n
    BY <1>1
  <2> DEFINE p == SubSeq(s, 1, k)
             q == SubSeq(s, 1, k + 1)
             x == s[k + 1]
  <2>3. p \in Seq(T) /\ x \in T /\ q = Append(p, x)
    BY <2>1
  <2> HIDE DEF p, x, q
  <2>4. Subsequence(q, S) = IF x \in S THEN Append(Subsequence(p, S), x)
                                        ELSE Subsequence(p, S)
    BY <2>3, SubsequenceAppend
  <2> QED BY <1>3, <2>2, <2>3, <2>4 DEF p, x, q
<1> HIDE DEF P
<1>4. \A k \in 0..n : k \in P
  BY <1>1, <1>2, <1>3, UpTo
<1>5. n \in P
  BY <1>1, <1>4
<1> HIDE DEF n
<1> QED
  BY <1>1, <1>5 DEF P

\* The elements of a subsequence are those of the sequence that are in the set.
LEMMA SubsequenceMembers ==
    ASSUME NEW T, NEW s \in Seq(T), NEW S
    PROVE  /\ Subsequence(s, S) \in Seq(T \cap S)
           /\ \A i \in DOMAIN s : s[i] \in S =>
                 \E j \in DOMAIN Subsequence(s, S) : Subsequence(s, S)[j] = s[i]
<1> DEFINE n == Len(s)
           of(k) == Subsequence(SubSeq(s, 1, k), S)
           Has(k) == /\ of(k) \in Seq(T \cap S)
                     /\ \A i \in 1..k : s[i] \in S => \E j \in DOMAIN of(k) : of(k)[j] = s[i]
           P == {k \in 0..n : Has(k)}
<1>1. n \in Nat /\ SubSeq(s, 1, n) = s /\ SubSeq(s, 1, 0) = <<>> /\ DOMAIN s = 1..n
  OBVIOUS
<1>2. 0 \in P
  <2>1. of(0) = <<>>
    BY <1>1, SubsequenceEmpty
  <2>2. 0 \in 0..n /\ 1..0 = {} /\ <<>> \in Seq(T \cap S)
    BY <1>1
  <2> HIDE DEF n, of
  <2> QED BY <2>1, <2>2
<1>3. ASSUME NEW k \in 0..(n - 1), k \in P PROVE k + 1 \in P
  <2>1. /\ SubSeq(s, 1, k) \in Seq(T) /\ s[k + 1] \in T
        /\ SubSeq(s, 1, k + 1) = Append(SubSeq(s, 1, k), s[k + 1])
    BY PrefixAppend
  <2> DEFINE m == k + 1
             x == s[m]
             p == SubSeq(s, 1, k)
             q == SubSeq(s, 1, m)
  <2>2. m \in 0..n /\ \A i \in 1..m : i \in 1..k \/ i = m
    BY <1>1
  <2>3. p \in Seq(T) /\ x \in T /\ q = Append(p, x)
    BY <2>1
  <2> HIDE DEF p, q, x, m, n
  <2>4. Subsequence(q, S) = IF x \in S THEN Append(Subsequence(p, S), x)
                                        ELSE Subsequence(p, S)
    BY <2>3, SubsequenceAppend
  <2>5. of(m) = IF x \in S THEN Append(of(k), x) ELSE of(k)
    BY <2>4 DEF p, q
  <2>6. Has(k)
    BY <1>3
  <2> HIDE DEF of
  <2>7. CASE x \in S
    <3>1. /\ of(m) \in Seq(T \cap S) /\ Len(of(m)) = Len(of(k)) + 1 /\ Len(of(k)) \in Nat
          /\ of(m)[Len(of(k)) + 1] = x
          /\ \A j \in DOMAIN of(k) : j \in DOMAIN of(m) /\ of(m)[j] = of(k)[j]
      BY <2>3, <2>5, <2>6, <2>7
    <3>2. Len(of(k)) + 1 \in DOMAIN of(m)
      BY <3>1
    <3>3. \A i \in 1..k : s[i] \in S => \E j \in DOMAIN of(m) : of(m)[j] = s[i]
      BY <2>6, <3>1
    <3>4. \E j \in DOMAIN of(m) : of(m)[j] = s[m]
      BY <3>1, <3>2 DEF x
    <3>5. Has(m)
      BY <2>2, <3>1, <3>3, <3>4
    <3> QED BY <2>2, <3>5 DEF m
  <2>8. CASE x \notin S
    <3>1. of(m) = of(k)
      BY <2>5, <2>8
    <3>2. Has(m)
      BY <2>2, <2>6, <2>8, <3>1 DEF x
    <3> QED BY <2>2, <3>2 DEF m
  <2> QED BY <2>7, <2>8
<1> HIDE DEF P
<1>4. \A k \in 0..n : k \in P
  BY <1>1, <1>2, <1>3, UpTo
<1>5. n \in P
  BY <1>1, <1>4
<1>6. Has(n)
  BY <1>5 DEF P
<1> HIDE DEF n
<1> QED
  BY <1>1, <1>6

-----------------------------------------------------------------------------
\* Sorted sequences.

\* A strict order R on S in which any two elements are comparable.
LinearOn(R, S) ==
    /\ \A x \in S : <<x, x>> \notin R
    /\ \A x, y \in S : x # y => <<x, y>> \in R \/ <<y, x>> \in R
    /\ \A x, y, z \in S : <<x, y>> \in R /\ <<y, z>> \in R => <<x, z>> \in R

\* s has the n elements of S, one after the other in the order R.
Sorts(s, S, n, R) ==
    /\ s \in [1..n -> S]
    /\ \A x \in S : \E i \in 1..n : s[i] = x
    /\ \A i, j \in 1..n : i < j => <<s[i], s[j]>> \in R

\* Another element is inserted before the first that does not come before it.
LEMMA Insertion ==
    ASSUME NEW n \in Nat, NEW S, NEW R, NEW e, e \notin S, LinearOn(R, S \cup {e}),
           NEW s, Sorts(s, S, n, R)
    PROVE  \E t : Sorts(t, S \cup {e}, n + 1, R)
<1> DEFINE After == {i \in 1..n : <<s[i], e>> \notin R} \cup {n + 1}
<1>1. After \in SUBSET Nat /\ After # {}
  OBVIOUS
<1>2. PICK m \in After : \A k \in After : m <= k
  BY <1>1, LeastNatural
<1>3. m \in 1..(n + 1)
  OBVIOUS
<1>4. \A i \in 1..(m - 1) : i \in 1..n /\ <<s[i], e>> \in R
  BY <1>2, <1>3
<1>5. m <= n => <<s[m], e>> \notin R
  BY <1>3
<1> HIDE DEF After
<1> DEFINE t == [i \in 1..(n + 1) |-> IF i < m THEN s[i] ELSE IF i = m THEN e ELSE s[i - 1]]
<1>6. s \in [1..n -> S]
  BY DEF Sorts
<1>7. \A i \in 1..(n + 1) : /\ i < m => i \in 1..n /\ t[i] = s[i]
                            /\ i = m => t[i] = e
                            /\ i > m => i - 1 \in 1..n /\ t[i] = s[i - 1]
  BY <1>3
<1>8. t \in [1..(n + 1) -> S \cup {e}]
  BY <1>3, <1>6
<1>9. \A x \in S \cup {e} : \E i \in 1..(n + 1) : t[i] = x
  <2> SUFFICES ASSUME NEW x \in S PROVE \E i \in 1..(n + 1) : t[i] = x
    BY <1>3, <1>7
  <2>1. PICK i \in 1..n : s[i] = x
    BY DEF Sorts
  <2>2. i < m => i \in 1..(n + 1) /\ t[i] = x
    BY <2>1, <1>7
  <2>3. i >= m => i + 1 \in 1..(n + 1) /\ t[i + 1] = x
    BY <2>1, <1>3, <1>7
  <2>4. i + 1 \in Int /\ (i < m \/ i >= m)
    BY <1>3
  <2> HIDE DEF t
  <2> QED BY <2>2, <2>3, <2>4
<1>10. ASSUME NEW i \in 1..n, i >= m PROVE <<e, s[i]>> \in R
  <2>1. m \in 1..n /\ s[m] \in S /\ s[i] \in S
    BY <1>3, <1>6, <1>10
  <2>2. <<e, s[m]>> \in R
    BY <2>1, <1>5, <1>3 DEF LinearOn
  <2>3. i = m \/ <<s[m], s[i]>> \in R
    BY <2>1, <1>10 DEF Sorts
  <2> QED BY <2>1, <2>2, <2>3 DEF LinearOn
<1>11. ASSUME NEW i \in 1..(n + 1), NEW j \in 1..(n + 1), i < j PROVE <<t[i], t[j]>> \in R
  <2> HIDE DEF t
  <2>1. CASE j < m
    <3>1. t[i] = s[i] /\ t[j] = s[j] /\ i \in 1..n /\ j \in 1..n
      BY <1>3, <1>7, <1>11, <2>1
    <3> QED BY <3>1, <1>11 DEF Sorts
  <2>2. CASE j = m
    <3>1. t[i] = s[i] /\ t[j] = e /\ i \in 1..(m - 1)
      BY <1>3, <1>7, <1>11, <2>2
    <3> QED BY <3>1, <1>4
  <2>3. CASE j > m /\ i = m
    <3>1. t[i] = e /\ t[j] = s[j - 1] /\ j - 1 \in 1..n /\ j - 1 >= m
      BY <1>3, <1>7, <1>11, <2>3
    <3> QED BY <3>1, <1>10
  <2>4. CASE j > m /\ i < m
    <3>1. t[i] = s[i] /\ t[j] = s[j - 1] /\ i \in 1..n /\ j - 1 \in 1..n /\ i < j - 1
      BY <1>3, <1>7, <1>11, <2>4
    <3> QED BY <3>1 DEF Sorts
  <2>5. CASE j > m /\ i > m
    <3>1. t[i] = s[i - 1] /\ t[j] = s[j - 1] /\ i - 1 \in 1..n /\ j - 1 \in 1..n /\ i - 1 < j - 1
      BY <1>3, <1>7, <1>11, <2>5
    <3> QED BY <3>1 DEF Sorts
  <2> QED BY <1>3, <2>1, <2>2, <2>3, <2>4, <2>5
<1> HIDE DEF t
<1>12. Sorts(t, S \cup {e}, n + 1, R)
  BY <1>8, <1>9, <1>11 DEF Sorts
<1> QED BY <1>12

\* A finite set can be sorted.
LEMMA Sortable ==
    ASSUME NEW S, IsFiniteSet(S), NEW R, LinearOn(R, S)
    PROVE  \E s : Sorts(s, S, Cardinality(S), R)
<1> DEFINE n == Cardinality(S)
           P == {k \in 0..n : \A T \in SUBSET S : Cardinality(T) = k => \E s : Sorts(s, T, k, R)}
<1>1. n \in Nat
  BY FS_CardinalityType
<1>2. 0 \in P
  <2> SUFFICES ASSUME NEW T \in SUBSET S, Cardinality(T) = 0 PROVE \E s : Sorts(s, T, 0, R)
    BY <1>1
  <2>1. T = {}
    BY FS_Subset, FS_EmptySet
  <2>2. Sorts([i \in 1..0 |-> 0], T, 0, R)
    BY <2>1 DEF Sorts
  <2> QED BY <2>2
<1>3. ASSUME NEW k \in 0..(n - 1), k \in P PROVE k + 1 \in P
  <2> HIDE DEF n
  <2> SUFFICES ASSUME NEW T \in SUBSET S, Cardinality(T) = k + 1
               PROVE  \E s : Sorts(s, T, k + 1, R)
    BY <1>1
  <2>1. IsFiniteSet(T) /\ k \in Nat
    BY <1>1, FS_Subset
  <2>2. PICK e \in T : TRUE
    BY <2>1, FS_EmptySet
  <2> DEFINE U == T \ {e}
  <2>3. U \in SUBSET S /\ Cardinality(U) = k /\ e \notin U /\ T = U \cup {e}
    <3>1. IsFiniteSet(T) => Cardinality(T \ {e}) = IF e \in T THEN Cardinality(T) - 1 ELSE Cardinality(T)
      BY FS_RemoveElement
    <3>2. Cardinality(U) = k
      BY <2>1, <2>2, <3>1
    <3>3. T = U \cup {e} /\ e \notin U /\ U \in SUBSET S
      BY <2>2
    <3> QED BY <3>2, <3>3
  <2>4. PICK s : Sorts(s, U, k, R)
    BY <1>3, <2>3
  <2>5. LinearOn(R, U \cup {e})
    BY <2>3 DEF LinearOn
  <2> HIDE DEF U
  <2>6. \E t : Sorts(t, U \cup {e}, k + 1, R)
    BY <2>1, <2>3, <2>4, <2>5, Insertion
  <2> QED BY <2>3, <2>6
<1> HIDE DEF P
<1>4. \A k \in 0..n : k \in P
  BY <1>1, <1>2, <1>3, UpTo
<1>5. n \in P /\ S \in SUBSET S
  BY <1>1, <1>4
<1> QED BY <1>5 DEF P

\* What is sorted has no element twice.
LEMMA SortedOnce ==
    ASSUME NEW n \in Nat, NEW S, NEW R, LinearOn(R, S), NEW s, Sorts(s, S, n, R)
    PROVE  \A i, j \in 1..n : s[i] = s[j] => i = j
<1> SUFFICES ASSUME NEW i \in 1..n, NEW j \in 1..n, s[i] = s[j], i < j PROVE FALSE
  BY DEF Sorts
<1> QED BY DEF Sorts, LinearOn

-----------------------------------------------------------------------------
\* Sums.

\* The function by which SumFunctionOnSet adds up, on the subsets of up to k elements.
Picked(T) == CHOOSE x \in T : TRUE

Adds(g, f, S, k) ==
    /\ g \in [{T \in SUBSET S : Cardinality(T) <= k} -> Nat]
    /\ \A T \in SUBSET S : Cardinality(T) <= k =>
          g[T] = IF T = {} THEN 0 ELSE f[Picked(T)] + g[T \ {Picked(T)}]

LEMMA AddsExists ==
    ASSUME NEW S, IsFiniteSet(S), NEW f, \A x \in S : f[x] \in Nat
    PROVE  \E g : Adds(g, f, S, Cardinality(S))
<1> DEFINE n == Cardinality(S)
           P == {k \in 0..n : \E g : Adds(g, f, S, k)}
<1>1. n \in Nat
  BY FS_CardinalityType
<1>2. \A T \in SUBSET S : /\ IsFiniteSet(T) /\ Cardinality(T) \in Nat
                          /\ Cardinality(T) = 0 <=> T = {}
                          /\ T # {} => /\ Picked(T) \in T
                                       /\ Cardinality(T \ {Picked(T)}) = Cardinality(T) - 1
  <2> SUFFICES ASSUME NEW T \in SUBSET S
               PROVE  /\ IsFiniteSet(T) /\ Cardinality(T) \in Nat
                      /\ Cardinality(T) = 0 <=> T = {}
                      /\ T # {} => /\ Picked(T) \in T
                                   /\ Cardinality(T \ {Picked(T)}) = Cardinality(T) - 1
    OBVIOUS
  <2>1. IsFiniteSet(T)
    BY FS_Subset
  <2>2. Cardinality(T) \in Nat
    BY <2>1, FS_CardinalityType
  <2>3. Cardinality(T) = 0 <=> T = {}
    BY <2>1, FS_EmptySet
  <2>4. T # {} => Picked(T) \in T
    BY DEF Picked
  <2>5. \A x \in T : Cardinality(T \ {x}) = Cardinality(T) - 1
    BY <2>1, FS_RemoveElement
  <2> QED BY <2>1, <2>2, <2>3, <2>4, <2>5
<1>3. 0 \in P
  <2> DEFINE g == [T \in {U \in SUBSET S : Cardinality(U) <= 0} |-> 0]
  <2>1. \A T \in SUBSET S : Cardinality(T) <= 0 => T = {}
    <3> SUFFICES ASSUME NEW T \in SUBSET S, Cardinality(T) <= 0 PROVE T = {}
      OBVIOUS
    <3> HIDE DEF n, P
    <3>1. Cardinality(T) \in Nat /\ (Cardinality(T) = 0 <=> T = {})
      BY <1>2
    <3> QED BY <3>1
  <2>2. Adds(g, f, S, 0)
    BY <2>1 DEF Adds
  <2> HIDE DEF g
  <2> QED BY <1>1, <2>2
<1>4. ASSUME NEW k \in 0..(n - 1), k \in P PROVE k + 1 \in P
  <2> HIDE DEF n
  <2>1. PICK g : Adds(g, f, S, k)
    BY <1>4
  <2> DEFINE D == {T \in SUBSET S : Cardinality(T) <= k + 1}
             h == [T \in D |-> IF T = {} THEN 0 ELSE f[Picked(T)] + g[T \ {Picked(T)}]]
  <2>2. \A T \in SUBSET S : T # {} /\ Cardinality(T) <= k + 1 =>
           /\ T \ {Picked(T)} \in SUBSET S /\ Cardinality(T \ {Picked(T)}) <= k
           /\ f[Picked(T)] \in Nat
    BY <1>1, <1>2
  <2>3. \A T \in SUBSET S : Cardinality(T) <= k => T \in D /\ h[T] = g[T] /\ g[T] \in Nat
    <3> SUFFICES ASSUME NEW T \in SUBSET S, Cardinality(T) <= k
                 PROVE  T \in D /\ h[T] = g[T] /\ g[T] \in Nat
      OBVIOUS
    <3>1. T \in D
      <4>1. Cardinality(T) \in Nat
        BY <1>2
      <4>2. k \in Nat
        BY <1>1
      <4> QED BY <4>1, <4>2
    <3>2. g[T] = IF T = {} THEN 0 ELSE f[Picked(T)] + g[T \ {Picked(T)}]
      BY <2>1 DEF Adds
    <3>3. g[T] \in Nat
      BY <2>1 DEF Adds
    <3> QED BY <3>1, <3>2, <3>3
  <2>4. h \in [D -> Nat]
    <3> SUFFICES ASSUME NEW T \in D, T # {} PROVE f[Picked(T)] + g[T \ {Picked(T)}] \in Nat
      OBVIOUS
    <3>1. T \ {Picked(T)} \in SUBSET S /\ Cardinality(T \ {Picked(T)}) <= k /\ f[Picked(T)] \in Nat
      BY <2>2
    <3>2. g[T \ {Picked(T)}] \in Nat
      BY <3>1, <2>3
    <3> QED BY <3>1, <3>2
  <2>5. \A T \in SUBSET S : Cardinality(T) <= k + 1 =>
           h[T] = IF T = {} THEN 0 ELSE f[Picked(T)] + h[T \ {Picked(T)}]
    <3> SUFFICES ASSUME NEW T \in SUBSET S, Cardinality(T) <= k + 1
                 PROVE  h[T] = IF T = {} THEN 0 ELSE f[Picked(T)] + h[T \ {Picked(T)}]
      OBVIOUS
    <3>1. h[T] = IF T = {} THEN 0 ELSE f[Picked(T)] + g[T \ {Picked(T)}]
      OBVIOUS
    <3> HIDE DEF h, D
    <3> QED BY <3>1, <2>2, <2>3
  <2> HIDE DEF h
  <2>6. Adds(h, f, S, k + 1)
    BY <2>4, <2>5 DEF Adds
  <2> QED BY <1>1, <2>6
<1> HIDE DEF P
<1>5. \A k \in 0..n : k \in P
  BY <1>1, <1>3, <1>4, UpTo
<1>6. n \in P
  BY <1>1, <1>5
<1> QED BY <1>6 DEF P

\* The sum over a set of numbers is a number, that over a single element its number.
LEMMA SumOf ==
    ASSUME NEW S, IsFiniteSet(S), NEW f, \A x \in S : f[x] \in Nat
    PROVE  /\ SumFunctionOnSet(f, S) \in Nat
           /\ \A x : S = {x} => SumFunctionOnSet(f, S) = f[x]
<1> DEFINE Step(g) == [T \in SUBSET S |->
              IF T = {} THEN 0 ELSE f[CHOOSE x \in T : TRUE] + g[T \ {CHOOSE x \in T : TRUE}]]
           iter == CHOOSE g : g = Step(g)
<1>1. PICK g : Adds(g, f, S, Cardinality(S))
  BY AddsExists
<1>2. \A T \in SUBSET S : Cardinality(T) <= Cardinality(S)
  BY FS_Subset
<1>3. /\ g \in [SUBSET S -> Nat]
      /\ \A T \in SUBSET S : g[T] = IF T = {} THEN 0
                                    ELSE f[CHOOSE x \in T : TRUE] + g[T \ {CHOOSE x \in T : TRUE}]
  BY <1>1, <1>2 DEF Adds, Picked
<1>4. g = Step(g)
  BY <1>3
<1>5. iter = Step(iter)
  <2> HIDE DEF Step
  <2> QED BY <1>4
<1>6. SumFunctionOnSet(f, S) = iter[S]
  BY DEF SumFunctionOnSet, FoldFunctionOnSet, MapThenFoldSet
<1> HIDE DEF iter
<1>7. \A T \in SUBSET S : iter[T] = IF T = {} THEN 0
             ELSE f[CHOOSE x \in T : TRUE] + iter[T \ {CHOOSE x \in T : TRUE}]
  BY <1>5
<1> HIDE DEF Step
<1> DEFINE n == Cardinality(S)
           P == {k \in 0..n : \A T \in SUBSET S : Cardinality(T) = k => iter[T] = g[T]}
<1>8. n \in Nat
  BY FS_CardinalityType
<1>9. 0 \in P
  <2>1. \A T \in SUBSET S : Cardinality(T) = 0 => T = {}
    BY FS_Subset, FS_EmptySet
  <2>2. iter[{}] = 0 /\ g[{}] = 0
    BY <1>3, <1>7
  <2> QED BY <1>8, <2>1, <2>2
<1>10. ASSUME NEW k \in 0..(n - 1), k \in P PROVE k + 1 \in P
  <2> HIDE DEF n
  <2> SUFFICES ASSUME NEW T \in SUBSET S, Cardinality(T) = k + 1 PROVE iter[T] = g[T]
    BY <1>8
  <2> DEFINE x == CHOOSE y \in T : TRUE
             U == T \ {x}
  <2>1. IsFiniteSet(T) /\ k \in Nat
    BY <1>8, FS_Subset
  <2>2. T # {}
    BY <2>1, FS_EmptySet
  <2>3. x \in T
    BY <2>2
  <2>4. Cardinality(U) = k
    <3> HIDE DEF x
    <3>1. Cardinality(T \ {x}) = Cardinality(T) - 1
      BY <2>1, <2>3, FS_RemoveElement
    <3> QED BY <2>1, <3>1
  <2>5. iter[U] = g[U]
    BY <1>10, <2>4
  <2> QED BY <1>3, <1>7, <2>2, <2>5
<1> HIDE DEF P
<1>11. \A k \in 0..n : k \in P
  BY <1>8, <1>9, <1>10, UpTo
<1>12. iter[S] = g[S]
  <2>1. n \in P /\ S \in SUBSET S
    BY <1>8, <1>11
  <2> QED BY <2>1 DEF P
<1>13. SumFunctionOnSet(f, S) = g[S] /\ g[S] \in Nat
  BY <1>3, <1>6, <1>12
<1>14. ASSUME NEW x, S = {x} PROVE g[S] = f[x]
  <2>1. (CHOOSE y \in S : TRUE) = x /\ S \ {x} = {}
    BY <1>14
  <2>2. {} \in SUBSET S /\ g[{}] = 0
    BY <1>3
  <2>3. g[S] = f[x] + g[{}]
    BY <1>3, <1>14, <2>1
  <2>4. f[x] \in Nat
    BY <1>14
  <2> QED BY <2>2, <2>3, <2>4
<1> QED
  BY <1>13, <1>14
=============================================================================
