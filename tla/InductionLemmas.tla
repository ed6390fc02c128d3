-------------------------- MODULE InductionLemmas --------------------------
(***************************************************************************)
(* Induction over the natural numbers in first-order form, and what the    *)
(* folds and recursive functions of the models compute: concatenations,    *)
(* functions defined step by step, left folds and sums.  A module that     *)
(* folds, sums or steps with an operator of its own instantiates this one  *)
(* with it (FoldBase, FoldStep, SumTerm, Takes).                           *)
(***************************************************************************)
EXTENDS Integers, Sequences, SequencesExt, FiniteSetTheorems,
        SequenceTheorems, TLAPS

\* A non-empty set of natural numbers has a least element: the intervals
\* 0 .. k are finite, and strict inclusion of finite sets is well-founded.
LEMMA LeastNatural ==
  ASSUME NEW T \in SUBSET Nat, T # {}
  PROVE  \E m \in T : \A k \in T : m <= k
<1> DEFINE F == {0 .. k : k \in T}
<1>1. F \subseteq FiniteSubsetsOf(Nat) /\ F # {}
  <2>1. ASSUME NEW k \in T PROVE 0 .. k \in FiniteSubsetsOf(Nat)
    BY FS_Interval DEF FiniteSubsetsOf
  <2> QED BY <2>1
<1>2. PICK x \in F : \A y \in F : <<y, x>> \notin StrictSubsetOrdering(Nat)
  <2> HIDE DEF F
  <2> QED BY <1>1, WFMin, FS_StrictSubsetOrderingWellFounded
<1>3. PICK m \in T : x = 0 .. m
  OBVIOUS
<1>4. ASSUME NEW k \in T, k < m PROVE FALSE
  <2>1. /\ 0 .. k \subseteq 0 .. m /\ 0 .. k # 0 .. m
        /\ 0 .. k \in SUBSET Nat /\ 0 .. m \in SUBSET Nat
    BY <1>4
  <2>2. <<0 .. k, x>> \in StrictSubsetOrdering(Nat)
    BY <2>1, <1>3 DEF StrictSubsetOrdering
  <2> QED BY <2>2, <1>2
<1> QED BY <1>4

\* A set with 0 and the successor of each of its members is all of Nat.
LEMMA Induction ==
  ASSUME NEW P, 0 \in P, \A n \in Nat : n \in P => n + 1 \in P
  PROVE  Nat \subseteq P
<1> SUFFICES ASSUME Nat \ P # {} PROVE FALSE
  OBVIOUS
<1>1. PICK m \in Nat \ P : \A k \in Nat \ P : m <= k
  BY LeastNatural
<1>2. m # 0 /\ m - 1 \in Nat /\ m - 1 < m
  BY <1>1
<1>3. m - 1 \in P
  BY <1>1, <1>2
<1> QED BY <1>3, <1>2, (m - 1) + 1 = m

\* The same up to n, from 1.
LEMMA IntervalInduction ==
  ASSUME NEW n \in Nat, NEW P, n >= 1 => 1 \in P,
         \A i \in 1 .. n : i < n /\ i \in P => i + 1 \in P
  PROVE  1 .. n \subseteq P
<1> DEFINE Q == {k \in Nat : k \in 1 .. n => k \in P}
<1>1. 0 \in Q
  OBVIOUS
<1>2. ASSUME NEW k \in Nat, k \in Q PROVE k + 1 \in Q
  <2>1. CASE k = 0
    BY <2>1
  <2>2. CASE k # 0 /\ k + 1 \in 1 .. n
    BY <1>2, <2>2
  <2>3. CASE k # 0 /\ k + 1 \notin 1 .. n
    BY <2>3
  <2> QED BY <2>1, <2>2, <2>3
<1>3. Nat \subseteq Q
  <2> HIDE DEF Q
  <2> QED BY <1>1, <1>2, Induction
<1> QED BY <1>3

\* A set with the empty set, and with any finite set if with that set less one
\* element, has all the subsets of a finite set.
LEMMA FiniteInduction ==
  ASSUME NEW S, IsFiniteSet(S), NEW P, {} \in P,
         \A T \in SUBSET S : \A x \in S \ T : T \in P => T \cup {x} \in P
  PROVE  SUBSET S \subseteq P
<1> SUFFICES ASSUME (SUBSET S) \ P # {} PROVE FALSE
  OBVIOUS
<1> DEFINE Q == (SUBSET S) \ P
<1>1. IsWellFoundedOn(StrictSubsetOrdering(S), SUBSET S)
  BY FS_StrictSubsetOrderingWellFounded, FS_FiniteSubsetsOfFinite
<1>2. PICK T \in Q : \A U \in Q : <<U, T>> \notin StrictSubsetOrdering(S)
  <2>1. Q \subseteq SUBSET S /\ Q # {}
    OBVIOUS
  <2> HIDE DEF Q
  <2> QED BY <1>1, <2>1, WFMin
<1>3. PICK x \in T : TRUE
  BY <1>2
<1>4. T \ {x} \in SUBSET S /\ x \in S \ (T \ {x}) /\ (T \ {x}) \cup {x} = T
  BY <1>2
<1>5. T \ {x} \in Q
  BY <1>4, <1>2
<1>6. <<T \ {x}, T>> \in StrictSubsetOrdering(S)
  BY <1>2, <1>3, <1>4 DEF StrictSubsetOrdering
<1> QED BY <1>2, <1>5, <1>6

----------------------------------------------------------------------------
(* Division. *)

\* What div and mod are.
LEMMA DivMod ==
  ASSUME NEW a \in Nat, NEW b \in Nat \ {0}
  PROVE  a \div b \in Nat /\ a % b \in 0 .. b - 1 /\ a = b * (a \div b) + (a % b)
<1>1. a \div b \in Nat /\ a % b \in 0 .. b - 1
  OBVIOUS
<1>2. a % b = a - b * (a \div b)
  OBVIOUS
<1>3. PICK q \in Nat : q = a \div b
  BY <1>1
<1>4. PICK r \in 0 .. b - 1 : r = a % b
  BY <1>1
<1>5. r = a - b * q /\ b * q \in Nat
  BY <1>2, <1>3, <1>4
<1>6. a = b * q + r
  BY <1>5
<1>7. b * (a \div b) + (a % b) = b * q + r
  BY <1>3, <1>4
<1>8. a = b * (a \div b) + (a % b)
  BY <1>6, <1>7, Zenon
<1> QED BY <1>1, <1>8

\* ... and nothing else is.
LEMMA DivModUnique ==
  ASSUME NEW b \in Nat \ {0}, NEW q \in Nat, NEW r \in 0 .. b - 1
  PROVE  (b * q + r) \div b = q /\ (b * q + r) % b = r
<1>1. PICK a \in Nat : a = b * q + r
  OBVIOUS
<1>2. a \div b = q /\ a % b = r
  BY <1>1
<1> QED BY <1>1, <1>2

----------------------------------------------------------------------------
\* A function on 1 .. n is a sequence of length n.
LEMMA FunctionIsSeq ==
  ASSUME NEW S, NEW n \in Nat, NEW f \in [1 .. n -> S]
  PROVE  f \in Seq(S) /\ Len(f) = n
OBVIOUS

\* A sequence of one element has that element first.
LEMMA SingletonSeq ==
  ASSUME NEW e
  PROVE  1 .. Len(<<e>>) = {1} /\ <<e>>[1] = e
<1>1. Len(<<e>>) = 1 /\ <<e>>[1] = e
  OBVIOUS
<1> QED BY <1>1

\* A sequence of one element behind another sequence.
LEMMA AppendOne ==
  ASSUME NEW S, NEW a \in Seq(S), NEW b \in Seq(S), NEW n \in Nat, Len(a) = n, Len(b) = 1
  PROVE  /\ a \o b \in Seq(S) /\ Len(a \o b) = n + 1
         /\ \A i \in 1 .. n : (a \o b)[i] = a[i]
         /\ (a \o b)[n + 1] = b[1]
<1>1. /\ Len(a \o b) = Len(a) + Len(b)
      /\ \A i \in 1 .. Len(a) + Len(b) : (a \o b)[i] = IF i <= Len(a) THEN a[i] ELSE b[i - Len(a)]
      /\ a \o b \in Seq(S)
  BY ConcatProperties
<1> DEFINE v == a \o b
<1> HIDE DEF v
<1>2. /\ Len(v) = n + 1 /\ v \in Seq(S)
      /\ \A i \in 1 .. n + 1 : v[i] = IF i <= n THEN a[i] ELSE b[i - n]
  BY <1>1 DEF v
<1>3. n + 1 \in 1 .. n + 1 /\ ~(n + 1 <= n) /\ (n + 1) - n = 1 /\ \A i \in 1 .. n : i \in 1 .. n + 1 /\ i <= n
  OBVIOUS
<1> QED BY <1>2, <1>3 DEF v

\* A sequence of three elements, put together one by one.
LEMMA ThreeByOne ==
  ASSUME NEW x, NEW y, NEW z
  PROVE  <<x, y, z>> = (<<x>> \o <<y>>) \o <<z>>
<1> DEFINE S == {x, y, z}  s == <<x>>  t == <<y>>  u == <<z>>  w == <<x, y, z>>
<1>1. /\ s \in Seq(S) /\ Len(s) = 1 /\ s[1] = x
      /\ t \in Seq(S) /\ Len(t) = 1 /\ t[1] = y
      /\ u \in Seq(S) /\ Len(u) = 1 /\ u[1] = z
      /\ w \in Seq(S) /\ Len(w) = 3 /\ w[1] = x /\ w[2] = y /\ w[3] = z
  OBVIOUS
<1> HIDE DEF s, t, u, w, S
<1>2. /\ s \o t \in Seq(S) /\ Len(s \o t) = 1 + 1
      /\ (\A i \in 1 .. 1 : (s \o t)[i] = s[i]) /\ (s \o t)[1 + 1] = t[1]
  BY <1>1, AppendOne
<1> DEFINE st == s \o t
<1> HIDE DEF st
<1>3. st \in Seq(S) /\ Len(st) = 2 /\ st[1] = x /\ st[2] = y
  BY <1>1, <1>2 DEF st
<1> DEFINE two == 2
<1>4. two \in Nat /\ two = 2
  OBVIOUS
<1>5. Len(st) = two
  BY <1>3
<1> HIDE DEF two
<1>6. /\ st \o u \in Seq(S) /\ Len(st \o u) = two + 1
      /\ (\A i \in 1 .. two : (st \o u)[i] = st[i]) /\ (st \o u)[two + 1] = u[1]
  <2>1. st \in Seq(S) /\ u \in Seq(S) /\ two \in Nat /\ Len(st) = two /\ Len(u) = 1
    BY <1>1, <1>3, <1>4, <1>5
  <2> QED BY <2>1, AppendOne
<1> DEFINE v == st \o u
<1> HIDE DEF v
<1>7. v \in Seq(S) /\ Len(v) = 3 /\ v[1] = x /\ v[2] = y /\ v[3] = z
  BY <1>1, <1>3, <1>4, <1>6 DEF v
<1>8. \A i \in 1 .. Len(w) : w[i] = v[i]
  <2> SUFFICES ASSUME NEW i \in 1 .. 3 PROVE w[i] = v[i]
    BY <1>1
  <2>1. i = 1 \/ i = 2 \/ i = 3
    OBVIOUS
  <2> QED BY <2>1, <1>1, <1>7
<1>9. w = v
  BY <1>1, <1>7, <1>8, SeqEqual
<1> QED BY <1>9 DEF v, st, s, t, u, w
\* FlattenSeq's running concatenation is a function that exists.
LEMMA FlattenExists ==
  ASSUME NEW seqs, NEW n \in Nat
  PROVE  \E f : f = [i \in 1 .. n |-> IF i = 1 THEN seqs[i] ELSE f[i - 1] \o seqs[i]]
<1> DEFINE G(f, k) == f = [i \in 1 .. k |-> IF i = 1 THEN seqs[i] ELSE f[i - 1] \o seqs[i]]
           Defined(k) == \E f : G(f, k)
           P == {k \in Nat : Defined(k)}
<1>1. Defined(0)
  <2>1. G([i \in 1 .. 0 |-> 0], 0)
    OBVIOUS
  <2> QED BY <2>1
<1>2. ASSUME NEW k \in Nat, Defined(k) PROVE Defined(k + 1)
  <2>1. PICK f : G(f, k)
    BY <1>2
  <2> DEFINE g == [i \in 1 .. k + 1 |->
                     IF i = k + 1 THEN IF i = 1 THEN seqs[i] ELSE f[k] \o seqs[i]
                     ELSE f[i]]
  <2>2. ASSUME NEW i \in 1 .. k + 1
        PROVE  g[i] = IF i = 1 THEN seqs[i] ELSE g[i - 1] \o seqs[i]
    <3>1. CASE i = k + 1
      <4>1. CASE i = 1  BY <3>1, <4>1
      <4>2. CASE i # 1
        <5>1. i - 1 = k /\ k \in 1 .. k + 1 /\ k # k + 1  BY <3>1, <4>2
        <5>2. g[i - 1] = f[k]  BY <5>1, <2>1
        <5> QED BY <5>2, <3>1, <4>2
      <4> QED BY <4>1, <4>2
    <3>2. CASE i # k + 1
      <4>1. i \in 1 .. k /\ g[i] = f[i]  BY <3>2
      <4>2. f[i] = IF i = 1 THEN seqs[i] ELSE f[i - 1] \o seqs[i]  BY <2>1, <4>1
      <4>3. CASE i = 1  BY <4>1, <4>2, <4>3
      <4>4. CASE i # 1
        <5>1. i - 1 \in 1 .. k + 1 /\ i - 1 # k + 1  BY <4>1, <4>4
        <5>2. g[i - 1] = f[i - 1]  BY <5>1
        <5> QED BY <5>2, <4>1, <4>2, <4>4
      <4> QED BY <4>3, <4>4
    <3> QED BY <3>1, <3>2
  <2>3. G(g, k + 1)
    <3>1. g = [i \in 1 .. k + 1 |-> g[i]]  OBVIOUS
    <3> HIDE DEF g
    <3> QED BY <2>2, <3>1
  <2> HIDE DEF g
  <2> QED BY <2>3
<1>3. Nat \subseteq P
  <2> HIDE DEF Defined
  <2>1. 0 \in P /\ \A k \in Nat : k \in P => k + 1 \in P
    BY <1>1, <1>2
  <2> HIDE DEF P
  <2> QED BY <2>1, Induction
<1> QED BY <1>3

\* Where FlattenSeq puts each element: the sequences follow one another, each
\* from the position off has for the one before it.
LEMMA FlattenPositions ==
  ASSUME NEW S, NEW seqs \in Seq(Seq(S))
  PROVE  \E off \in [0 .. Len(seqs) -> Nat] :
           /\ off[0] = 0
           /\ \A i \in 1 .. Len(seqs) : off[i] = off[i - 1] + Len(seqs[i])
           /\ FlattenSeq(seqs) \in Seq(S)
           /\ Len(FlattenSeq(seqs)) = off[Len(seqs)]
           /\ \A i \in 1 .. Len(seqs), j \in Nat : j \in 1 .. Len(seqs[i]) =>
                /\ off[i - 1] + j <= off[Len(seqs)]
                /\ FlattenSeq(seqs)[off[i - 1] + j] = seqs[i][j]
           /\ \A m \in 1 .. off[Len(seqs)] : \E i \in 1 .. Len(seqs) :
                m - off[i - 1] \in 1 .. Len(seqs[i])
<1> DEFINE n == Len(seqs)
           F == CHOOSE f : f = [i \in 1 .. n |-> IF i = 1 THEN seqs[i] ELSE f[i - 1] \o seqs[i]]
           off == [i \in 0 .. n |-> IF i = 0 THEN 0 ELSE Len(F[i])]
<1>1. F = [i \in 1 .. n |-> IF i = 1 THEN seqs[i] ELSE F[i - 1] \o seqs[i]]
  <2>1. n \in Nat  OBVIOUS
  <2> QED BY FlattenExists, <2>1
<1>2. FlattenSeq(seqs) = IF n = 0 THEN seqs ELSE F[n]
  BY DEF FlattenSeq
<1> HIDE DEF F
<1>3. /\ n \in Nat /\ \A i \in 1 .. n : seqs[i] \in Seq(S) /\ Len(seqs[i]) \in Nat
      /\ off = [i \in 0 .. n |-> off[i]]
      /\ off[0] = 0 /\ \A i \in 1 .. n : off[i] = Len(F[i])
  OBVIOUS
<1> HIDE DEF n, off
<1> DEFINE Typed(k) == off[k] \in Nat /\ (k >= 1 => F[k] \in Seq(S) /\ off[k] = off[k - 1] + Len(seqs[k]))
           Placed(k) == \A i \in 1 .. k, j \in Nat : j \in 1 .. Len(seqs[i]) =>
                          /\ off[i - 1] \in Nat /\ off[i - 1] + j <= off[k]
                          /\ F[k][off[i - 1] + j] = seqs[i][j]
           Covered(k) == \A m \in 1 .. off[k] : \E i \in 1 .. k :
                           m - off[i - 1] \in 1 .. Len(seqs[i])
           Good(k) == k <= n => Typed(k) /\ Placed(k) /\ Covered(k)
           P == {k \in Nat : Good(k)}
<1>4. Good(0)
  BY <1>3
<1>5. ASSUME NEW k \in Nat, Good(k), k + 1 <= n
      PROVE  Typed(k + 1) /\ Placed(k + 1) /\ Covered(k + 1)
  <2>a. Typed(k) /\ Placed(k) /\ Covered(k)
    <3> HIDE DEF Typed, Placed, Covered
    <3> QED BY <1>5, <1>3
  <2> HIDE DEF Good
  <2>0. /\ k + 1 \in 1 .. n /\ k \in 0 .. n /\ seqs[k + 1] \in Seq(S) /\ Len(seqs[k + 1]) \in Nat
        /\ off[k] \in Nat /\ off[k + 1] = Len(F[k + 1]) /\ (k + 1) - 1 = k
    <3> HIDE DEF Placed, Covered
    <3>1. k + 1 \in 1 .. n /\ k \in 0 .. n /\ (k + 1) - 1 = k
      BY <1>5, <1>3
    <3> QED BY <3>1, <1>3, <2>a
  <2>1. /\ F[k + 1] \in Seq(S)
        /\ off[k + 1] = off[k] + Len(seqs[k + 1])
        /\ \A q \in 1 .. off[k + 1] :
             F[k + 1][q] = IF q <= off[k] THEN F[k][q] ELSE seqs[k + 1][q - off[k]]
    <3>1. CASE k = 0
      <4>1. F[1] = seqs[1] /\ off[0] = 0
        BY <1>1, <1>3, <2>0, <3>1
      <4> QED BY <4>1, <2>0, <3>1
    <3>2. CASE k # 0
      <4>1. k \in 1 .. n /\ F[k] \in Seq(S) /\ off[k] = Len(F[k])
        <5> HIDE DEF Placed, Covered
        <5>1. k \in 1 .. n /\ k >= 1  BY <2>0, <3>2, <1>3
        <5> QED BY <5>1, <1>3, <2>a
      <4>2. F[k + 1] = F[k] \o seqs[k + 1]
        <5>1. k + 1 # 1  BY <2>0, <3>2
        <5> QED BY <1>1, <2>0, <5>1
      <4>3. /\ F[k + 1] \in Seq(S)
            /\ Len(F[k + 1]) = Len(F[k]) + Len(seqs[k + 1])
            /\ \A q \in 1 .. Len(F[k]) + Len(seqs[k + 1]) : F[k + 1][q] =
                 IF q <= Len(F[k]) THEN F[k][q] ELSE seqs[k + 1][q - Len(F[k])]
        <5> DEFINE a == F[k]  b == seqs[k + 1]
        <5>1. a \in Seq(S) /\ b \in Seq(S)  BY <4>1, <2>0
        <5>2. F[k + 1] = a \o b  BY <4>2
        <5> HIDE DEF a, b
        <5>3. /\ Len(a \o b) = Len(a) + Len(b)
              /\ \A q \in 1 .. Len(a) + Len(b) :
                   (a \o b)[q] = IF q <= Len(a) THEN a[q] ELSE b[q - Len(a)]
              /\ a \o b \in Seq(S)
          BY <5>1, ConcatProperties
        <5>4. F[k + 1] \in Seq(S) /\ Len(F[k + 1]) = Len(a) + Len(b)
          BY <5>2, <5>3
        <5>5. \A q \in 1 .. Len(a) + Len(b) :
                F[k + 1][q] = IF q <= Len(a) THEN a[q] ELSE b[q - Len(a)]
          BY <5>2, <5>3
        <5> QED BY <5>4, <5>5 DEF a, b
      <4> QED BY <4>1, <4>3, <2>0
    <3> QED BY <3>1, <3>2
  <2>2. Typed(k + 1)
    BY <2>0, <2>1
  <2>3. Placed(k + 1)
    <3> SUFFICES ASSUME NEW i \in 1 .. k + 1, NEW j \in Nat, j \in 1 .. Len(seqs[i])
                 PROVE  /\ off[i - 1] \in Nat /\ off[i - 1] + j <= off[k + 1]
                        /\ F[k + 1][off[i - 1] + j] = seqs[i][j]
      OBVIOUS
    <3>1. CASE i = k + 1
      <4>1. off[k] + j \in 1 .. off[k + 1] /\ ~(off[k] + j <= off[k]) /\ (off[k] + j) - off[k] = j
        BY <2>0, <2>1, <3>1
      <4>2. off[k] + j <= off[k + 1]
        BY <4>1, <2>1, <2>0
      <4>3. F[k + 1][off[k] + j] = IF off[k] + j <= off[k] THEN F[k][off[k] + j]
                                   ELSE seqs[k + 1][(off[k] + j) - off[k]]
        <5> HIDE DEF Placed, Covered
        <5>1. \A q \in 1 .. off[k + 1] :
             F[k + 1][q] = IF q <= off[k] THEN F[k][q] ELSE seqs[k + 1][q - off[k]]
          BY <2>1
        <5> QED BY <4>1, <5>1
      <4>4. F[k + 1][off[k] + j] = seqs[k + 1][j]
        BY <4>1, <4>3
      <4> QED BY <4>2, <4>4, <2>0, <3>1
    <3>2. CASE i # k + 1
      <4>1. i \in 1 .. k
        BY <3>2
      <4>2. /\ off[i - 1] \in Nat /\ off[i - 1] + j <= off[k]
            /\ F[k][off[i - 1] + j] = seqs[i][j]
        BY <4>1, <2>a
      <4>3. off[k] <= off[k + 1] /\ off[i - 1] + j \in 1 .. off[k + 1]
        <5>1. off[k] <= off[k + 1]
          BY <2>0, <2>1
        <5>2. j >= 1 /\ off[i - 1] + j >= 1 /\ off[k] \in Nat
          BY <4>2, <2>0
        <5>3. off[k + 1] \in Nat
          BY <2>0, <2>1
        <5>4. off[i - 1] + j <= off[k + 1]
          BY <4>2, <5>1, <5>2, <5>3
        <5> QED BY <4>2, <5>1, <5>2, <5>3, <5>4
      <4>4. F[k + 1][off[i - 1] + j] = F[k][off[i - 1] + j]
        <5>1. \A q \in 1 .. off[k + 1] :
             F[k + 1][q] = IF q <= off[k] THEN F[k][q] ELSE seqs[k + 1][q - off[k]]
          BY <2>1
        <5> QED BY <4>2, <4>3, <5>1
      <4> QED BY <4>2, <4>3, <4>4, <2>0
    <3> QED BY <3>1, <3>2
  <2>4. Covered(k + 1)
    <3> SUFFICES ASSUME NEW m \in 1 .. off[k + 1]
                 PROVE  \E i \in 1 .. k + 1 : m - off[i - 1] \in 1 .. Len(seqs[i])
      OBVIOUS
    <3>1. CASE m <= off[k]
      <4>1. m \in 1 .. off[k]
        BY <3>1, <2>0
      <4>2. PICK i \in 1 .. k : m - off[i - 1] \in 1 .. Len(seqs[i])
        BY <4>1, <2>a
      <4> QED BY <4>2
    <3>2. CASE ~(m <= off[k])
      <4>1. m - off[(k + 1) - 1] \in 1 .. Len(seqs[k + 1]) /\ k + 1 \in 1 .. k + 1
        BY <3>2, <2>0, <2>1
      <4> QED BY <4>1
    <3> QED BY <3>1, <3>2
  <2> QED BY <2>2, <2>3, <2>4
<1>6. \A k \in 0 .. n : Typed(k) /\ Placed(k) /\ Covered(k)
  <2>1. Nat \subseteq P
    <3>1. \A k \in Nat : Good(k) => Good(k + 1)
      BY <1>5
    <3> HIDE DEF Good
    <3>2. 0 \in P /\ \A k \in Nat : k \in P => k + 1 \in P
      BY <1>4, <3>1
    <3> HIDE DEF P
    <3> QED BY <3>2, Induction
  <2>2. \A k \in Nat : Good(k)
    <3> HIDE DEF Good
    <3> QED BY <2>1
  <2> HIDE DEF Typed, Placed, Covered
  <2> QED BY <2>2, <1>3
<1>7. off \in [0 .. n -> Nat]
  BY <1>6, <1>3
<1>8. off[0] = 0 /\ \A i \in 1 .. n : off[i] = off[i - 1] + Len(seqs[i])
  <2>1. \A i \in 1 .. n : off[i] = off[i - 1] + Len(seqs[i])
    <3> TAKE i \in 1 .. n
    <3>1. i \in 0 .. n /\ i >= 1
      BY <1>3
    <3>2. Typed(i)
      BY <3>1, <1>6
    <3> QED BY <3>1, <3>2
  <2> QED BY <2>1, <1>3
<1>9. /\ FlattenSeq(seqs) \in Seq(S)
      /\ Len(FlattenSeq(seqs)) = off[n]
      /\ \A i \in 1 .. n, j \in Nat : j \in 1 .. Len(seqs[i]) =>
           /\ off[i - 1] + j <= off[n]
           /\ FlattenSeq(seqs)[off[i - 1] + j] = seqs[i][j]
  <2>1. CASE n = 0
    <3>1. seqs \in Seq(S) /\ Len(seqs) = 0
      BY <2>1 DEF n
    <3> QED BY <3>1, <2>1, <1>2, <1>8
  <2>2. CASE n # 0
    <3>1. n \in 0 .. n /\ n >= 1
      BY <2>2, <1>3
    <3>2. Typed(n) /\ Placed(n)
      BY <3>1, <1>6
    <3>3. F[n] \in Seq(S) /\ off[n] = Len(F[n])
      <4>1. n \in 1 .. n
        BY <2>2, <1>3
      <4>2. off[n] = Len(F[n])
        BY <4>1, <1>3
      <4>3. F[n] \in Seq(S)
        <5> HIDE DEF Placed
        <5> QED BY <3>1, <3>2
      <4> QED BY <4>2, <4>3
    <3> HIDE DEF Typed
    <3> QED BY <3>2, <3>3, <2>2, <1>2
  <2> QED BY <2>1, <2>2
<1>10. \A m \in 1 .. off[n] : \E i \in 1 .. n : m - off[i - 1] \in 1 .. Len(seqs[i])
  <2>1. n \in 0 .. n
    BY <1>3
  <2>2. Covered(n)
    BY <2>1, <1>6
  <2> QED BY <2>2
<1>11. off \in [0 .. Len(seqs) -> Nat]
  BY <1>7 DEF n
<1> QED BY <1>8, <1>9, <1>10, <1>11 DEF n

\* FlattenSeq is the last of the concatenations that take one sequence more each.
LEMMA FlattenPrefixes ==
  ASSUME NEW S, NEW seqs \in Seq(Seq(S))
  PROVE  \E F \in [0 .. Len(seqs) -> Seq(S)] :
           /\ F[0] = << >>
           /\ \A i \in 1 .. Len(seqs) : F[i] = F[i - 1] \o seqs[i]
           /\ FlattenSeq(seqs) = F[Len(seqs)]
<1> DEFINE n == Len(seqs)
           G == CHOOSE f : f = [i \in 1 .. n |-> IF i = 1 THEN seqs[i] ELSE f[i - 1] \o seqs[i]]
           F == [i \in 0 .. n |-> IF i = 0 THEN << >> ELSE G[i]]
<1>1. G = [i \in 1 .. n |-> IF i = 1 THEN seqs[i] ELSE G[i - 1] \o seqs[i]]
  <2>1. n \in Nat  OBVIOUS
  <2> QED BY FlattenExists, <2>1
<1>2. FlattenSeq(seqs) = IF n = 0 THEN seqs ELSE G[n]
  BY DEF FlattenSeq
<1> HIDE DEF G
<1>3. n \in Nat /\ \A i \in 1 .. n : seqs[i] \in Seq(S)
  OBVIOUS
<1>4. n = 0 => seqs = << >>
  OBVIOUS
<1> HIDE DEF n
<1>5. /\ F = [i \in 0 .. n |-> F[i]] /\ F[0] = << >>
      /\ \A i \in 1 .. n : F[i] = G[i]
  BY <1>3
<1> HIDE DEF F
<1>6. \A i \in 1 .. n : F[i] = F[i - 1] \o seqs[i]
  <2> TAKE i \in 1 .. n
  <2>1. CASE i = 1
    <3>1. F[i] = seqs[i]
      BY <2>1, <1>1, <1>3, <1>5
    <3>3. F[i - 1] = << >>
      BY <2>1, <1>5
    <3>2. \A s \in Seq(S) : << >> \o s = s
      OBVIOUS
    <3> QED BY <3>1, <3>2, <3>3, <1>3
  <2>2. CASE i # 1
    <3>1. i - 1 \in 1 .. n
      BY <2>2, <1>3
    <3> QED BY <3>1, <2>2, <1>1, <1>5
  <2> QED BY <2>1, <2>2
<1> DEFINE P == {k \in Nat : k <= n => F[k] \in Seq(S)}
<1>7. 0 \in P
  <2>1. << >> \in Seq(S)
    OBVIOUS
  <2>2. F[0] \in Seq(S)
    BY <2>1, <1>5
  <2> QED BY <2>2
<1>8. \A k \in Nat : k \in P => k + 1 \in P
  <2> SUFFICES ASSUME NEW k \in Nat, k + 1 <= n, F[k] \in Seq(S) PROVE F[k + 1] \in Seq(S)
    BY <1>3
  <2>1. k + 1 \in 1 .. n /\ (k + 1) - 1 = k
    BY <1>3
  <2>2. \A s, t \in Seq(S) : s \o t \in Seq(S)
    OBVIOUS
  <2> QED BY <2>1, <2>2, <1>3, <1>6
<1>9. \A k \in 0 .. n : F[k] \in Seq(S)
  <2>1. Nat \subseteq P
    <3> HIDE DEF P
    <3> QED BY <1>7, <1>8, Induction
  <2> QED BY <2>1, <1>3
<1>10. FlattenSeq(seqs) = F[n]
  <2>1. CASE n = 0
    <3>1. F[n] = << >>
      BY <2>1, <1>5
    <3> QED BY <3>1, <2>1, <1>2, <1>4
  <2>2. CASE n # 0
    <3>1. n \in 1 .. n
      BY <2>2, <1>3
    <3> QED BY <3>1, <2>2, <1>2, <1>5
  <2> QED BY <2>1, <2>2
<1>11. F \in [0 .. n -> Seq(S)]
  BY <1>5, <1>9
<1> QED BY <1>5, <1>6, <1>10, <1>11 DEF n

\* FlattenSeq has the elements of its sequences and no others.
LEMMA FlattenMembers ==
  ASSUME NEW S, NEW seqs \in Seq(Seq(S))
  PROVE  /\ FlattenSeq(seqs) \in Seq(S)
         /\ \A e : (\E m \in 1 .. Len(FlattenSeq(seqs)) : FlattenSeq(seqs)[m] = e) <=>
                     \E i \in 1 .. Len(seqs) : \E j \in 1 .. Len(seqs[i]) : seqs[i][j] = e
<1> DEFINE n == Len(seqs)  flat == FlattenSeq(seqs)
<1>1. PICK off \in [0 .. n -> Nat] :
        /\ flat \in Seq(S) /\ Len(flat) = off[n]
        /\ \A i \in 1 .. n, j \in Nat : j \in 1 .. Len(seqs[i]) =>
             off[i - 1] + j <= off[n] /\ flat[off[i - 1] + j] = seqs[i][j]
        /\ \A m \in 1 .. off[n] : \E i \in 1 .. n : m - off[i - 1] \in 1 .. Len(seqs[i])
  BY FlattenPositions
<1>2. n \in Nat /\ \A i \in 1 .. n : off[i - 1] \in Nat /\ Len(seqs[i]) \in Nat
  <2>1. n \in Nat /\ \A i \in 1 .. n : Len(seqs[i]) \in Nat
    OBVIOUS
  <2> HIDE DEF n
  <2>2. \A i \in 1 .. n : i - 1 \in 0 .. n
    BY <2>1
  <2> QED BY <2>1, <2>2, <1>1
<1> HIDE DEF n, flat
<1>3. ASSUME NEW e, NEW m \in 1 .. Len(flat), flat[m] = e
      PROVE  \E i \in 1 .. n : \E j \in 1 .. Len(seqs[i]) : seqs[i][j] = e
  <2>1. PICK i \in 1 .. n : m - off[i - 1] \in 1 .. Len(seqs[i])
    BY <1>1
  <2>2. off[i - 1] + (m - off[i - 1]) = m
    BY <1>2
  <2>3. flat[m] = seqs[i][m - off[i - 1]]
    BY <1>1, <2>1, <2>2
  <2> QED BY <2>1, <2>3, <1>3
<1>4. ASSUME NEW e, NEW i \in 1 .. n, NEW j \in 1 .. Len(seqs[i]), seqs[i][j] = e
      PROVE  \E m \in 1 .. Len(flat) : flat[m] = e
  <2>1. j \in Nat /\ off[i - 1] \in Nat
    BY <1>2
  <2>2. off[i - 1] + j <= off[n] /\ flat[off[i - 1] + j] = e
    BY <1>1, <1>4, <2>1
  <2>3. off[i - 1] + j \in 1 .. Len(flat)
    BY <1>1, <2>1, <2>2
  <2> QED BY <2>2, <2>3
<1> QED BY <1>1, <1>3, <1>4 DEF n, flat

----------------------------------------------------------------------------
\* A function defined from 1 upwards, each value from the one before, exists.
LEMMA StepwiseExists ==
  ASSUME NEW S, NEW c \in S, NEW step \in [S -> S], NEW n \in Nat
  PROVE  \E f \in [1 .. n -> S] : \A i \in 1 .. n : f[i] = IF i = 1 THEN c ELSE step[f[i - 1]]
<1> DEFINE G(f, k) == \A i \in 1 .. k : f[i] = IF i = 1 THEN c ELSE step[f[i - 1]]
           Defined(k) == \E f \in [1 .. k -> S] : G(f, k)
           P == {k \in Nat : Defined(k)}
<1>1. Defined(0)
  <2>1. [i \in 1 .. 0 |-> c] \in [1 .. 0 -> S] /\ G([i \in 1 .. 0 |-> c], 0)
    OBVIOUS
  <2> HIDE DEF G
  <2> QED BY <2>1
<1>2. ASSUME NEW k \in Nat, Defined(k) PROVE Defined(k + 1)
  <2>1. PICK f \in [1 .. k -> S] : G(f, k)
    BY <1>2
  <2> DEFINE g == [i \in 1 .. k + 1 |->
                     IF i = k + 1 THEN IF i = 1 THEN c ELSE step[f[k]] ELSE f[i]]
  <2>2. g \in [1 .. k + 1 -> S]
    <3>1. \A i \in 1 .. k + 1 : i = k + 1 /\ i # 1 => k \in 1 .. k
      OBVIOUS
    <3>2. \A i \in 1 .. k + 1 : i # k + 1 => i \in 1 .. k
      OBVIOUS
    <3> QED BY <3>1, <3>2
  <2>3. ASSUME NEW i \in 1 .. k + 1
        PROVE  g[i] = IF i = 1 THEN c ELSE step[g[i - 1]]
    <3>1. CASE i = k + 1
      <4>1. CASE i = 1  BY <3>1, <4>1
      <4>2. CASE i # 1
        <5>1. i - 1 = k /\ k \in 1 .. k + 1 /\ k # k + 1  BY <3>1, <4>2
        <5>2. g[i - 1] = f[k]  BY <5>1
        <5> QED BY <5>2, <3>1, <4>2
      <4> QED BY <4>1, <4>2
    <3>2. CASE i # k + 1
      <4>1. i \in 1 .. k /\ g[i] = f[i]  BY <3>2
      <4>2. f[i] = IF i = 1 THEN c ELSE step[f[i - 1]]  BY <2>1, <4>1
      <4>3. CASE i = 1  BY <4>1, <4>2, <4>3
      <4>4. CASE i # 1
        <5>1. i - 1 \in 1 .. k + 1 /\ i - 1 # k + 1  BY <4>1, <4>4
        <5>2. g[i - 1] = f[i - 1]  BY <5>1
        <5> QED BY <5>2, <4>1, <4>2, <4>4
      <4> QED BY <4>3, <4>4
    <3> QED BY <3>1, <3>2
  <2> HIDE DEF g
  <2>4. G(g, k + 1)
    BY <2>3
  <2> HIDE DEF G
  <2> QED BY <2>2, <2>4
<1>3. Nat \subseteq P
  <2> HIDE DEF Defined
  <2>1. 0 \in P /\ \A k \in Nat : k \in P => k + 1 \in P
    BY <1>1, <1>2
  <2> HIDE DEF P
  <2> QED BY <2>1, Induction
<1> QED BY <1>3

\* Wiring without a loop: each x of C copies from an argument of lower rank,
\* the others have a value of their own.
LoopFree(D, top, rank, C, from) ==
  /\ top \in Nat /\ rank \in [D -> 0 .. top] /\ C \subseteq D
  /\ from \in [C -> D] /\ \A x \in C : rank[from[x]] < rank[x]
Wires(f, D, C, from, v) ==
  /\ f = [x \in D |-> f[x]]
  /\ \A x \in D : f[x] = IF x \in C THEN f[from[x]] ELSE v[x]

\* What such a wiring carries is defined.
LEMMA WiresExist ==
  ASSUME NEW D, NEW top, NEW rank, NEW C, NEW from, NEW v, LoopFree(D, top, rank, C, from)
  PROVE  \E f : Wires(f, D, C, from, v)
<1> USE DEF LoopFree
<1> DEFINE Low(k) == {x \in D : rank[x] < k}
           G(f, k) == f = [x \in Low(k) |-> IF x \in C THEN f[from[x]] ELSE v[x]]
           Defined(k) == \E f : G(f, k)
           P == {k \in Nat : Defined(k)}
<1>1. \A x \in D : rank[x] \in Nat
  OBVIOUS
<1>2. Defined(0)
  <2>1. Low(0) = {}
    BY <1>1
  <2>2. G([x \in {} |-> v[x]], 0)
    BY <2>1
  <2> HIDE DEF G
  <2> QED BY <2>2
<1>3. ASSUME NEW k \in Nat, Defined(k) PROVE Defined(k + 1)
  <2>1. PICK f : G(f, k)
    BY <1>3
  <2> DEFINE g == [x \in Low(k + 1) |-> IF x \in C THEN f[from[x]] ELSE v[x]]
  <2>2. \A x \in Low(k) : x \in Low(k + 1) /\ g[x] = f[x]
    <3> TAKE x \in Low(k)
    <3>1. x \in Low(k + 1)
      BY <1>1
    <3>2. f[x] = IF x \in C THEN f[from[x]] ELSE v[x]
      BY <2>1
    <3> QED BY <3>1, <3>2
  <2>3. \A x \in Low(k + 1) : x \in C => g[from[x]] = f[from[x]]
    <3> TAKE x \in Low(k + 1)
    <3> HAVE x \in C
    <3>1. from[x] \in D /\ rank[from[x]] < rank[x] /\ rank[x] < k + 1
      OBVIOUS
    <3>2. from[x] \in Low(k)
      BY <3>1, <1>1
    <3> QED BY <3>2, <2>2
  <2>4. G(g, k + 1)
    <3>1. \A x \in Low(k + 1) : g[x] = IF x \in C THEN g[from[x]] ELSE v[x]
      BY <2>3
    <3>2. g = [x \in Low(k + 1) |-> g[x]]
      OBVIOUS
    <3> HIDE DEF g, Low
    <3> QED BY <3>1, <3>2
  <2> HIDE DEF G, g
  <2> QED BY <2>4
<1>4. Nat \subseteq P
  <2> HIDE DEF Defined
  <2>1. 0 \in P /\ \A k \in Nat : k \in P => k + 1 \in P
    BY <1>2, <1>3
  <2> HIDE DEF P
  <2> QED BY <2>1, Induction
<1>5. Defined(top + 1)
  <2> HIDE DEF Defined
  <2> QED BY <1>4
<1>6. Low(top + 1) = D
  OBVIOUS
<1>7. PICK f : G(f, top + 1)
  BY <1>5
<1>8. \A x \in D : f[x] = IF x \in C THEN f[from[x]] ELSE v[x]
  BY <1>6, <1>7
<1>9. f = [x \in D |-> f[x]]
  BY <1>6, <1>7
<1> QED BY <1>8, <1>9 DEF Wires

\* A nonempty set of the first numbers has a greatest element.
LEMMA MaxOf ==
  ASSUME NEW n \in Nat, NEW x \in SUBSET (1 .. n), x # {}
  PROVE  Max(x) \in x /\ \A y \in x : Max(x) >= y
<1> DEFINE T == {n - y : y \in x}
<1>1. T \in SUBSET Nat /\ T # {}
  <2>1. ASSUME NEW y \in x PROVE n - y \in Nat
    <3>1. y \in 1 .. n
      OBVIOUS
    <3> QED BY <3>1
  <2> QED BY <2>1
<1>2. PICK m \in T : \A k \in T : m <= k
  BY <1>1, LeastNatural
<1>3. PICK y \in x : m = n - y
  BY <1>2
<1>4. \A z \in x : y >= z
  <2> TAKE z \in x
  <2>1. n - z \in T
    OBVIOUS
  <2> QED BY <1>2, <1>3, <2>1
<1> QED BY <1>3, <1>4 DEF Max

\* The last of the first k numbers, and the others.
LEMMA MaxOfSegment ==
  ASSUME NEW k \in Nat \ {0}
  PROVE  Max(1 .. k) = k /\ (1 .. k) \ {k} = 1 .. k - 1 /\ 1 .. k # {}
<1>1. Max(1 .. k) \in 1 .. k /\ Max(1 .. k) >= k
  <2>1. 1 .. k \in SUBSET (1 .. k) /\ k \in 1 .. k /\ k \in Nat
    OBVIOUS
  <2> QED BY <2>1, MaxOf
<1>2. (1 .. k) \ {k} = 1 .. k - 1
  OBVIOUS
<1> QED BY <1>1, <1>2

----------------------------------------------------------------------------
(* Folds over a sequence.  The prover cannot give a lemma an operator, but  *)
(* a module can: one that needs these lemmas for a fold INSTANCEs this one  *)
(* with the fold's start and step, which may depend on a parameter p.       *)

CONSTANTS FoldBase(_), FoldStep(_, _, _)

Fold(p, seq) == FoldLeft(LAMBDA acc, x : FoldStep(p, acc, x), FoldBase(p), seq)

\* No element, no step.
LEMMA FoldEmpty ==
  ASSUME NEW p
  PROVE  Fold(p, << >>) = FoldBase(p)
<1> DEFINE Iterates(f) ==
             f = [x \in SUBSET {} |-> IF x = {} THEN FoldBase(p)
                                      ELSE FoldStep(p, f[x \ {Max(x)}], << >>[Max(x)])]
           g == [x \in SUBSET {} |-> FoldBase(p)]
<1>1. \A x \in SUBSET {} : x = {}
  OBVIOUS
<1>2. Iterates(g)
  BY <1>1
<1>3. PICK f : f = (CHOOSE h : Iterates(h)) /\ Iterates(f)
  <2> HIDE DEF g, Iterates
  <2> QED BY <1>2
<1>4. f[{}] = FoldBase(p)
  <2>1. {} \in SUBSET {}
    OBVIOUS
  <2> QED BY <1>3, <2>1
<1>5. DOMAIN << >> = {}
  OBVIOUS
<1>6. Fold(p, << >>) = (CHOOSE h : Iterates(h))[{}]
  BY <1>5 DEF Fold, FoldLeft, MapThenFoldSet
<1> QED BY <1>3, <1>4, <1>6

\* One more element is one more step.
LEMMA FoldAppend ==
  ASSUME NEW p, NEW S, NEW seq \in Seq(S), NEW e \in S
  PROVE  Fold(p, Append(seq, e)) = FoldStep(p, Fold(p, seq), e)
<1> DEFINE base == FoldBase(p)  E(acc, x) == FoldStep(p, acc, x)
           Iterates(f, s, n) ==
             f = [x \in SUBSET (1 .. n) |-> IF x = {} THEN base ELSE E(f[x \ {Max(x)}], s[Max(x)])]
           n == Len(seq)  more == Append(seq, e)
<1>1. \A s : \A k \in Nat : \E f : Iterates(f, s, k)
  <2> TAKE s
  <2> HIDE DEF base, E
  <2> DEFINE P == {k \in Nat : \E f : Iterates(f, s, k)}
  <2>1. 0 \in P
    <3> DEFINE f == [x \in SUBSET (1 .. 0) |-> base]
    <3>1. \A x \in SUBSET (1 .. 0) : x = {}
      OBVIOUS
    <3>2. Iterates(f, s, 0)
      BY <3>1
    <3> QED BY <3>2
  <2>2. ASSUME NEW k \in Nat, k \in P PROVE k + 1 \in P
    <3>1. PICK f : Iterates(f, s, k)
      BY <2>2
    <3> DEFINE D == SUBSET (1 .. k + 1)
               g == [x \in D |-> IF k + 1 \in x THEN E(f[x \ {k + 1}], s[k + 1]) ELSE f[x]]
               h == [x \in D |-> IF x = {} THEN base ELSE E(g[x \ {Max(x)}], s[Max(x)])]
    <3>2. ASSUME NEW x \in D PROVE g[x] = h[x]
      <4>1. CASE k + 1 \in x
        <5>1. Max(x) = k + 1
          <6>1. k + 1 \in Nat /\ x \in SUBSET (1 .. k + 1) /\ x # {}
            BY <4>1
          <6>2. Max(x) \in x /\ \A y \in x : Max(x) >= y
            BY <6>1, MaxOf
          <6>3. Max(x) \in 1 .. k + 1 /\ Max(x) >= k + 1
            BY <4>1, <6>1, <6>2
          <6> QED BY <6>3
        <5>2. x \ {k + 1} \in D /\ k + 1 \notin x \ {k + 1}
          OBVIOUS
        <5>3. g[x \ {k + 1}] = f[x \ {k + 1}]
          BY <5>2
        <5>4. h[x] = E(g[x \ {k + 1}], s[k + 1])
          BY <4>1, <5>1
        <5>5. g[x] = E(f[x \ {k + 1}], s[k + 1])
          BY <4>1
        <5> QED BY <5>3, <5>4, <5>5
      <4>2. CASE k + 1 \notin x /\ x # {}
        <5>1. x \in SUBSET (1 .. k)
          BY <4>2
        <5>2. x \ {Max(x)} \in D /\ k + 1 \notin x \ {Max(x)} /\ x \ {Max(x)} \in SUBSET (1 .. k)
          BY <4>2, <5>1
        <5>3. g[x \ {Max(x)}] = f[x \ {Max(x)}]
          BY <5>2
        <5>4. f[x] = E(f[x \ {Max(x)}], s[Max(x)])
          BY <3>1, <4>2, <5>1
        <5>5. h[x] = E(g[x \ {Max(x)}], s[Max(x)])
          BY <4>2
        <5>6. g[x] = f[x]
          BY <4>2
        <5> QED BY <5>3, <5>4, <5>5, <5>6
      <4>3. CASE x = {}
        <5>1. {} \in SUBSET (1 .. k)
          OBVIOUS
        <5>2. f[{}] = base
          BY <3>1, <5>1
        <5>3. g[x] = f[x] /\ h[x] = base
          BY <4>3
        <5> QED BY <4>3, <5>2, <5>3
      <4> QED BY <4>1, <4>2, <4>3
    <3>3. g = h
      <4> HIDE DEF D
      <4> QED BY <3>2
    <3>4. Iterates(g, s, k + 1)
      <4> HIDE DEF g
      <4> QED BY <3>3
    <3> HIDE DEF g, Iterates
    <3> QED BY <3>4
  <2> HIDE DEF P
  <2>3. Nat \subseteq P
    BY <2>1, <2>2, Induction
  <2> QED BY <2>3 DEF P
<1>2. \A f, s : \A m \in Nat : Iterates(f, s, m) =>
        /\ f[1 .. 0] = base
        /\ \A k \in 1 .. m : f[1 .. k] = E(f[1 .. k - 1], s[k])
  <2> HIDE DEF base, E
  <2> TAKE f, s
  <2> TAKE m \in Nat
  <2> HAVE Iterates(f, s, m)
  <2>1. f[1 .. 0] = base
    <3>1. 1 .. 0 = {} /\ {} \in SUBSET (1 .. m)
      OBVIOUS
    <3> QED BY <3>1
  <2>2. ASSUME NEW k \in 1 .. m PROVE f[1 .. k] = E(f[1 .. k - 1], s[k])
    <3>1. k \in Nat \ {0} /\ 1 .. k \in SUBSET (1 .. m)
      OBVIOUS
    <3>2. f[1 .. k] = IF 1 .. k = {} THEN base ELSE E(f[(1 .. k) \ {Max(1 .. k)}], s[Max(1 .. k)])
      BY <3>1
    <3>3. Max(1 .. k) = k /\ (1 .. k) \ {k} = 1 .. k - 1 /\ 1 .. k # {}
      BY <3>1, MaxOfSegment
    <3> QED BY <3>2, <3>3
  <2> QED BY <2>1, <2>2
<1> DEFINE fold(s, k) == (CHOOSE f : Iterates(f, s, k))[1 .. k]
<1>3. Fold(p, seq) = fold(seq, n) /\ Fold(p, more) = fold(more, n + 1)
  <2>1. DOMAIN seq = 1 .. n /\ DOMAIN more = 1 .. n + 1
    OBVIOUS
  <2> QED BY <2>1 DEF Fold, FoldLeft, MapThenFoldSet
<1>4. fold(more, n + 1) = E(fold(seq, n), e)
  <2> HIDE DEF base, E, Iterates
  <2> DEFINE f == CHOOSE f : Iterates(f, seq, n)  g == CHOOSE g : Iterates(g, more, n + 1)
  <2>1. n \in Nat /\ more[n + 1] = e /\ \A k \in 1 .. n : more[k] = seq[k]
    OBVIOUS
  <2>2. Iterates(f, seq, n) /\ Iterates(g, more, n + 1)
    <3>1. n + 1 \in Nat
      BY <2>1
    <3>2. \E h : Iterates(h, seq, n)
      BY <1>1, <2>1
    <3>3. \E h : Iterates(h, more, n + 1)
      BY <1>1, <3>1
    <3> QED BY <3>2, <3>3
  <2> HIDE DEF f, g
  <2>3. \A k \in 1 .. n : f[1 .. k] = E(f[1 .. k - 1], seq[k])
    BY <1>2, <2>1, <2>2
  <2>4. \A k \in 1 .. n + 1 : g[1 .. k] = E(g[1 .. k - 1], more[k])
    <3>1. n + 1 \in Nat
      BY <2>1
    <3>2. \A m \in Nat : Iterates(g, more, m) =>
            \A k \in 1 .. m : g[1 .. k] = E(g[1 .. k - 1], more[k])
      <4> HIDE DEF more
      <4> QED BY <1>2
    <3> QED BY <2>2, <3>1, <3>2
  <2>5. f[1 .. 0] = base /\ g[1 .. 0] = base
    <3>1. n + 1 \in Nat
      BY <2>1
    <3> QED BY <1>2, <2>1, <2>2, <3>1
  <2> DEFINE Q == {k \in Nat : k <= n => f[1 .. k] = g[1 .. k]}
  <2>6. 0 \in Q
    BY <2>5
  <2>7. \A k \in Nat : k \in Q => k + 1 \in Q
    <3> SUFFICES ASSUME NEW k \in Nat, k \in Q, k + 1 <= n PROVE f[1 .. k + 1] = g[1 .. k + 1]
      OBVIOUS
    <3>1. f[1 .. k] = g[1 .. k] /\ k + 1 \in 1 .. n /\ k + 1 \in 1 .. n + 1 /\ (k + 1) - 1 = k
      BY <2>1
    <3>2. f[1 .. k + 1] = E(f[1 .. k], seq[k + 1])
      BY <2>3, <3>1
    <3>3. g[1 .. k + 1] = E(g[1 .. k], more[k + 1])
      BY <2>4, <3>1
    <3> QED BY <2>1, <3>1, <3>2, <3>3
  <2>8. f[1 .. n] = g[1 .. n]
    <3> HIDE DEF Q
    <3>1. Nat \subseteq Q
      BY <2>6, <2>7, Induction
    <3> QED BY <2>1, <3>1 DEF Q
  <2>9. g[1 .. n + 1] = E(g[1 .. n], e)
    <3>1. n + 1 \in 1 .. n + 1 /\ (n + 1) - 1 = n
      BY <2>1
    <3> QED BY <2>1, <2>4, <3>1
  <2> QED BY <2>8, <2>9 DEF f, g
<1> QED BY <1>3, <1>4

----------------------------------------------------------------------------
(* Sums over a finite set, in the same way: of SumTerm(p, x) for its        *)
(* elements x.                                                              *)

CONSTANT SumTerm(_, _)

SetSum(p, S) == MapThenSumSet(LAMBDA x : SumTerm(p, x), S)

\* A sum takes the elements one by one, in the order CHOOSE gives.
LEMMA SumStep ==
  ASSUME NEW p, NEW S, IsFiniteSet(S)
  PROVE  SetSum(p, S) = IF S = {} THEN 0
                     ELSE LET x == CHOOSE x \in S : TRUE IN SumTerm(p, x) + SetSum(p, S \ {x})
<1> DEFINE pick(s) == CHOOSE x \in s : TRUE
           E(x, acc) == SumTerm(p, x) + acc
           Iterates(f, T) == f = [s \in SUBSET T |-> IF s = {} THEN 0 ELSE E(pick(s), f[s \ {pick(s)}])]
           Small(T, n) == {s \in SUBSET T : Cardinality(s) <= n}
           Starts(f, T, n) == f = [s \in Small(T, n) |-> IF s = {} THEN 0
                                                         ELSE E(pick(s), f[s \ {pick(s)}])]
<1>1. ASSUME NEW T, IsFiniteSet(T), NEW s \in SUBSET T
      PROVE  /\ IsFiniteSet(s) /\ Cardinality(s) \in Nat /\ Cardinality(s) <= Cardinality(T)
             /\ Cardinality(s) = 0 <=> s = {}
             /\ s # {} => /\ pick(s) \in s /\ s \ {pick(s)} \in SUBSET T
                          /\ Cardinality(s \ {pick(s)}) = Cardinality(s) - 1
  <2>1. IsFiniteSet(s) /\ Cardinality(s) \in Nat /\ Cardinality(s) <= Cardinality(T)
    BY <1>1, FS_Subset, FS_CardinalityType
  <2>2. Cardinality(s) = 0 <=> s = {}
    BY <2>1, FS_EmptySet
  <2>3. ASSUME s # {} PROVE pick(s) \in s /\ s \ {pick(s)} \in SUBSET T
    BY <2>3
  <2>4. ASSUME s # {} PROVE Cardinality(s \ {pick(s)}) = Cardinality(s) - 1
    <3> HIDE DEF pick
    <3> QED BY <2>1, <2>3, <2>4, FS_RemoveElement
  <2> QED BY <2>1, <2>2, <2>3, <2>4
<1>2. ASSUME NEW T, IsFiniteSet(T) PROVE \E f : Iterates(f, T)
  <2> DEFINE P == {n \in Nat : \E f : Starts(f, T, n)}
  <2>1. 0 \in P
    <3>1. \A s \in Small(T, 0) : s = {}
      <4> TAKE s \in Small(T, 0)
      <4>1. s \in SUBSET T /\ Cardinality(s) <= 0
        OBVIOUS
      <4>2. Cardinality(s) \in Nat /\ (Cardinality(s) = 0 <=> s = {})
        BY <4>1, <1>1, <1>2
      <4>3. \A k \in Nat : k <= 0 => k = 0
        OBVIOUS
      <4> QED BY <4>1, <4>2, <4>3
    <3> DEFINE f == [s \in Small(T, 0) |-> 0]
    <3>2. f = [s \in Small(T, 0) |-> IF s = {} THEN 0 ELSE E(pick(s), f[s \ {pick(s)}])]
      <4> HIDE DEF E, pick, Small
      <4> QED BY <3>1
    <3> QED BY <3>2
  <2>2. ASSUME NEW n \in Nat, n \in P PROVE n + 1 \in P
    <3>1. PICK f : Starts(f, T, n)
      BY <2>2
    <3> DEFINE g == [s \in Small(T, n + 1) |-> IF s \in Small(T, n) THEN f[s]
                                               ELSE E(pick(s), f[s \ {pick(s)}])]
    <3>2. ASSUME NEW s \in Small(T, n + 1), s # {}
          PROVE  /\ s \ {pick(s)} \in Small(T, n) /\ s \ {pick(s)} \in Small(T, n + 1)
                 /\ g[s \ {pick(s)}] = f[s \ {pick(s)}]
      <4>1. /\ s \in SUBSET T /\ Cardinality(s) <= n + 1
        OBVIOUS
      <4>2. /\ Cardinality(s) \in Nat /\ s \ {pick(s)} \in SUBSET T
            /\ Cardinality(s \ {pick(s)}) = Cardinality(s) - 1
        BY <4>1, <1>1, <1>2, <3>2
      <4> HIDE DEF pick, E
      <4> QED BY <4>1, <4>2
    <3>3. ASSUME NEW s \in Small(T, n + 1)
          PROVE  g[s] = IF s = {} THEN 0 ELSE E(pick(s), g[s \ {pick(s)}])
      <4> HIDE DEF pick, E
      <4>1. CASE s = {}
        <5>1. s \in Small(T, n)
          <6>1. Cardinality(s) = 0
            BY <4>1, FS_EmptySet
          <6> QED BY <4>1, <6>1
        <5>2. g[s] = f[s]
          BY <5>1
        <5>3. f[s] = 0
          <6> HIDE DEF Small
          <6> QED BY <3>1, <4>1, <5>1
        <5> QED BY <4>1, <5>2, <5>3
      <4>2. CASE s # {} /\ s \in Small(T, n)
        <5>1. g[s] = f[s]
          BY <4>2
        <5>2. f[s] = E(pick(s), f[s \ {pick(s)}])
          <6> HIDE DEF Small
          <6> QED BY <3>1, <4>2
        <5> HIDE DEF g, Small, Starts
        <5> QED BY <4>2, <5>1, <5>2, <3>2
      <4>3. CASE s # {} /\ s \notin Small(T, n)
        <5>1. g[s] = E(pick(s), f[s \ {pick(s)}])
          BY <4>3
        <5> HIDE DEF g, Small, Starts
        <5> QED BY <4>3, <5>1, <3>2
      <4> QED BY <4>1, <4>2, <4>3
    <3>4. Starts(g, T, n + 1)
      <4>1. g = [s \in Small(T, n + 1) |-> g[s]]
        OBVIOUS
      <4> HIDE DEF g, Small, pick, E
      <4> QED BY <3>3, <4>1
    <3> HIDE DEF g, Starts
    <3> QED BY <3>4
  <2> HIDE DEF P
  <2>3. Nat \subseteq P
    BY <2>1, <2>2, Induction
  <2>4. PICK f : Starts(f, T, Cardinality(T))
    <3>1. Cardinality(T) \in Nat
      BY <1>2, FS_CardinalityType
    <3> QED BY <2>3, <3>1 DEF P
  <2>5. Small(T, Cardinality(T)) = SUBSET T
    BY <1>1, <1>2
  <2>6. Iterates(f, T)
    <3> HIDE DEF Small, pick, E
    <3> QED BY <2>4, <2>5
  <2> QED BY <2>6
<1>3. ASSUME NEW T, IsFiniteSet(T), NEW U \in SUBSET T, NEW f, NEW g, Iterates(f, T), Iterates(g, U)
      PROVE  f[U] = g[U]
  <2> DEFINE P == {n \in Nat : \A s \in SUBSET U : Cardinality(s) <= n => f[s] = g[s]}
  <2>0. IsFiniteSet(U)
    BY <1>3, FS_Subset
  <2>1. ASSUME NEW s \in SUBSET U
        PROVE  /\ f[s] = IF s = {} THEN 0 ELSE E(pick(s), f[s \ {pick(s)}])
               /\ g[s] = IF s = {} THEN 0 ELSE E(pick(s), g[s \ {pick(s)}])
    <3>1. s \in SUBSET T
      OBVIOUS
    <3> HIDE DEF pick, E
    <3> QED BY <3>1, <1>3
  <2>2. 0 \in P
    <3> SUFFICES ASSUME NEW s \in SUBSET U, Cardinality(s) <= 0 PROVE f[s] = g[s]
      OBVIOUS
    <3>0. Cardinality(s) \in Nat /\ (Cardinality(s) = 0 <=> s = {})
      BY <2>0, <1>1
    <3>1. s = {}
      BY <3>0
    <3> QED BY <3>1, <2>1
  <2>3. ASSUME NEW n \in Nat, n \in P PROVE n + 1 \in P
    <3> SUFFICES ASSUME NEW s \in SUBSET U, Cardinality(s) <= n + 1 PROVE f[s] = g[s]
      OBVIOUS
    <3>1. CASE s = {}
      BY <3>1, <2>1
    <3>2. CASE s # {}
      <4> HIDE DEF pick, E, Iterates
      <4>1. /\ s \ {pick(s)} \in SUBSET U /\ Cardinality(s \ {pick(s)}) = Cardinality(s) - 1
            /\ Cardinality(s) \in Nat
        BY <2>0, <1>1, <3>2
      <4>2. f[s \ {pick(s)}] = g[s \ {pick(s)}]
        BY <4>1, <2>3
      <4> QED BY <4>2, <3>2, <2>1
    <3> QED BY <3>1, <3>2
  <2> HIDE DEF P, Iterates
  <2>4. Nat \subseteq P
    BY <2>2, <2>3, Induction
  <2>5. Cardinality(U) \in Nat /\ U \in SUBSET U /\ Cardinality(U) <= Cardinality(U)
    BY <2>0, FS_CardinalityType
  <2> QED BY <2>4, <2>5 DEF P
<1> DEFINE iter(T) == CHOOSE f : Iterates(f, T)
<1>4. \A T : SetSum(p, T) = iter(T)[T]
  BY DEF SetSum, MapThenSumSet, MapThenFoldSet
<1>5. \A T : IsFiniteSet(T) => Iterates(iter(T), T)
  <2> HIDE DEF Iterates
  <2> QED BY <1>2
<1>6. CASE S = {}
  <2>1. iter(S)[S] = 0
    <3>1. Iterates(iter(S), S) /\ S \in SUBSET S
      BY <1>5
    <3> HIDE DEF iter
    <3> QED BY <3>1, <1>6
  <2> HIDE DEF iter
  <2> QED BY <2>1, <1>4, <1>6
<1>7. CASE S # {}
  <2> DEFINE U == S \ {pick(S)}
  <2>1. U \in SUBSET S /\ IsFiniteSet(U)
    BY <1>1, <1>7
  <2>2. Iterates(iter(S), S) /\ Iterates(iter(U), U)
    <3> HIDE DEF Iterates, U, iter
    <3> QED BY <1>5, <2>1
  <2>3. iter(S)[S] = E(pick(S), iter(S)[U])
    <3>1. S \in SUBSET S
      OBVIOUS
    <3> HIDE DEF iter, pick, E
    <3> QED BY <2>2, <3>1, <1>7
  <2>4. iter(S)[U] = iter(U)[U]
    <3> HIDE DEF iter, Iterates, U
    <3> QED BY <1>3, <2>1, <2>2
  <2>5. SetSum(p, S) = E(pick(S), SetSum(p, U))
    <3> HIDE DEF iter, U, E, pick
    <3> QED BY <2>3, <2>4, <1>4
  <2> QED BY <2>5, <1>7
<1> QED BY <1>6, <1>7

\* One more element is one more term, whichever CHOOSE takes first.
LEMMA SumAdd ==
  ASSUME NEW p, NEW S, IsFiniteSet(S), \A y \in S : SumTerm(p, y) \in Nat
  PROVE  /\ SetSum(p, S) \in Nat
         /\ \A x \in S : SetSum(p, S) = SumTerm(p, x) + SetSum(p, S \ {x})
<1> DEFINE Fine(T) == /\ SetSum(p, T) \in Nat
                      /\ \A x \in T : SetSum(p, T) = SumTerm(p, x) + SetSum(p, T \ {x})
           P == {n \in Nat : \A T \in SUBSET S : Cardinality(T) <= n => Fine(T)}
<1>1. ASSUME NEW T \in SUBSET S
      PROVE  /\ IsFiniteSet(T) /\ Cardinality(T) \in Nat
             /\ \A x \in T : IsFiniteSet(T \ {x}) /\ Cardinality(T \ {x}) = Cardinality(T) - 1
  BY FS_Subset, FS_CardinalityType, FS_RemoveElement
<1>2. Fine({})
  <2>1. SetSum(p, {}) = 0
    BY SumStep, FS_EmptySet
  <2> QED BY <2>1
<1>3. 0 \in P
  <2> SUFFICES ASSUME NEW T \in SUBSET S, Cardinality(T) <= 0 PROVE Fine(T)
    OBVIOUS
  <2>1. Cardinality(T) \in Nat /\ (Cardinality(T) = 0 <=> T = {})
    BY <1>1, FS_EmptySet
  <2>2. T = {}
    BY <2>1
  <2> HIDE DEF Fine
  <2> QED BY <2>2, <1>2
<1>4. ASSUME NEW n \in Nat, n \in P PROVE n + 1 \in P
  <2> HIDE DEF Fine
  <2> SUFFICES ASSUME NEW T \in SUBSET S, Cardinality(T) <= n + 1, T # {}
               PROVE  Fine(T)
    BY <1>2
  <2> DEFINE y == CHOOSE y \in T : TRUE
  <2>2. y \in T /\ SetSum(p, T) = SumTerm(p, y) + SetSum(p, T \ {y})
    BY <1>1, SumStep
  <2> HIDE DEF y
  <2>3. \A x \in T : T \ {x} \in SUBSET S /\ Cardinality(T \ {x}) <= n
    BY <1>1
  <2>4. \A x \in T : Fine(T \ {x})
    BY <2>3, <1>4
  <2>5. \A x \in T : SumTerm(p, x) \in Nat /\ SetSum(p, T \ {x}) \in Nat
    BY <2>4 DEF Fine
  <2>6. SetSum(p, T) \in Nat
    BY <2>2, <2>5
  <2>7. ASSUME NEW x \in T, x # y
        PROVE  SetSum(p, T) = SumTerm(p, x) + SetSum(p, T \ {x})
    <3>1. /\ SetSum(p, T \ {x}) = SumTerm(p, y) + SetSum(p, (T \ {x}) \ {y})
          /\ SetSum(p, T \ {y}) = SumTerm(p, x) + SetSum(p, (T \ {y}) \ {x})
      BY <2>2, <2>4, <2>7 DEF Fine
    <3>2. (T \ {x}) \ {y} = (T \ {y}) \ {x}
      OBVIOUS
    <3> DEFINE rest == SetSum(p, (T \ {x}) \ {y})
    <3>3. rest \in Nat
      <4>1. T \ {x} \in SUBSET S /\ y \in T \ {x} /\ Cardinality(T \ {x}) <= n
        BY <2>2, <2>3, <2>7
      <4>2. /\ Cardinality((T \ {x}) \ {y}) = Cardinality(T \ {x}) - 1
            /\ Cardinality(T \ {x}) \in Nat
        BY <4>1, <1>1
      <4>3. (T \ {x}) \ {y} \in SUBSET S /\ Cardinality((T \ {x}) \ {y}) <= n
        BY <4>1, <4>2
      <4> QED BY <4>3, <1>4 DEF Fine
    <3>4. /\ SetSum(p, T \ {x}) = SumTerm(p, y) + rest
          /\ SetSum(p, T \ {y}) = SumTerm(p, x) + rest
      BY <3>1, <3>2
    <3>5. SetSum(p, T) = SumTerm(p, y) + (SumTerm(p, x) + rest)
      BY <3>4, <2>2
    <3>6. SumTerm(p, x) \in Nat /\ SumTerm(p, y) \in Nat
      BY <2>2, <2>5
    <3> HIDE DEF rest
    <3> QED BY <3>3, <3>4, <3>5, <3>6
  <2> QED BY <2>2, <2>6, <2>7 DEF Fine
<1>5. Fine(S)
  <2> HIDE DEF P
  <2>1. Nat \subseteq P
    BY <1>3, <1>4, Induction
  <2>2. Cardinality(S) \in Nat /\ S \in SUBSET S /\ Cardinality(S) <= Cardinality(S)
    BY FS_CardinalityType
  <2> HIDE DEF Fine
  <2> QED BY <2>1, <2>2 DEF P
<1> QED BY <1>5

\* No element, no term; and the same for one element named.
LEMMA SumNone ==
  ASSUME NEW p
  PROVE  SetSum(p, {}) = 0
BY SumStep, FS_EmptySet

\* A sum is one of its terms and the sum of the others.
LEMMA SumOne ==
  ASSUME NEW p, NEW S, IsFiniteSet(S), \A y \in S : SumTerm(p, y) \in Nat, NEW x \in S
  PROVE  SetSum(p, S) = SumTerm(p, x) + SetSum(p, S \ {x})
BY SumAdd

----------------------------------------------------------------------------
(* Programs that take a state to another, one operation a step.  What an    *)
(* operation may do is given by the module that INSTANCEs this one.         *)

CONSTANT Takes(_, _, _, _)

\* The operations of prog lead through states in T, from a to b.
Passage(env, T, prog, a, b) ==
  /\ \E S : prog \in Seq(S)
  /\ \E t \in [0 .. Len(prog) -> T] :
       /\ t[0] = a /\ t[Len(prog)] = b
       /\ \A k \in 1 .. Len(prog) : Takes(env, prog[k], t[k - 1], t[k])

\* An empty program stays where it is.
LEMMA WayNone ==
  ASSUME NEW env, NEW T, NEW a \in T, NEW b
  PROVE  Passage(env, T, << >>, a, b) <=> a = b
<1>1. << >> \in Seq({}) /\ Len(<< >>) = 0
  OBVIOUS
<1>2. ASSUME Passage(env, T, << >>, a, b) PROVE a = b
  BY <1>1, <1>2 DEF Passage
<1>3. Passage(env, T, << >>, a, a)
  <2> DEFINE t == [k \in 0 .. 0 |-> a]
  <2>1. t \in [0 .. 0 -> T] /\ t[0] = a
    OBVIOUS
  <2>2. \A k \in 1 .. 0 : Takes(env, << >>[k], t[k - 1], t[k])
    OBVIOUS
  <2> HIDE DEF t
  <2> QED BY <1>1, <2>1, <2>2 DEF Passage
<1> QED BY <1>2, <1>3

\* One operation is one step.
LEMMA WayOne ==
  ASSUME NEW env, NEW T, NEW a \in T, NEW b \in T, NEW op, Takes(env, op, a, b)
  PROVE  Passage(env, T, <<op>>, a, b)
<1> DEFINE t == [k \in 0 .. 1 |-> IF k = 0 THEN a ELSE b]  p == <<op>>
<1>1. p \in Seq({op}) /\ Len(p) = 1 /\ p[1] = op
  OBVIOUS
<1>2. t \in [0 .. 1 -> T] /\ t[0] = a /\ t[1] = b
  OBVIOUS
<1> HIDE DEF t, p
<1>3. \A k \in 1 .. 1 : Takes(env, p[k], t[k - 1], t[k])
  <2>1. \A k \in 1 .. 1 : k = 1 /\ k - 1 = 0
    OBVIOUS
  <2>2. Takes(env, p[1], t[0], t[1])
    BY <1>1, <1>2
  <2>3. 1 - 1 = 0
    OBVIOUS
  <2> QED BY <2>1, <2>2, <2>3
<1>4. Passage(env, T, p, a, b)
  BY <1>1, <1>2, <1>3 DEF Passage
<1> QED BY <1>4 DEF p

\* One program after another.
LEMMA WayMore ==
  ASSUME NEW env, NEW T, NEW p, NEW q, NEW a, NEW b, NEW c, Passage(env, T, p, a, b), Passage(env, T, q, b, c)
  PROVE  Passage(env, T, p \o q, a, c)
<1>1. PICK S1 : p \in Seq(S1)
  BY DEF Passage
<1>2. PICK S2 : q \in Seq(S2)
  BY DEF Passage
<1> DEFINE S == S1 \cup S2  n == Len(p)  m == Len(q)  pq == p \o q
<1>3. p \in Seq(S) /\ q \in Seq(S) /\ n \in Nat /\ m \in Nat
  BY <1>1, <1>2
<1> HIDE DEF S
<1>4. /\ pq \in Seq(S) /\ Len(pq) = n + m
      /\ \A k \in 1 .. n + m : pq[k] = IF k <= n THEN p[k] ELSE q[k - n]
  BY <1>3, ConcatProperties
<1> HIDE DEF pq
<1>5. PICK t \in [0 .. n -> T] : /\ t[0] = a /\ t[n] = b
                                /\ \A k \in 1 .. n : Takes(env, p[k], t[k - 1], t[k])
  BY DEF Passage
<1>6. PICK s \in [0 .. m -> T] : /\ s[0] = b /\ s[m] = c
                                /\ \A k \in 1 .. m : Takes(env, q[k], s[k - 1], s[k])
  BY DEF Passage
<1> HIDE DEF n, m
<1> DEFINE r == [k \in 0 .. n + m |-> IF k <= n THEN t[k] ELSE s[k - n]]
<1>7. \A k \in 0 .. n + m : r[k] \in T
  <2> TAKE k \in 0 .. n + m
  <2>1. CASE k <= n
    <3>1. k \in 0 .. n
      BY <1>3, <2>1
    <3> QED BY <1>5, <2>1, <3>1
  <2>2. CASE ~(k <= n)
    <3>1. k - n \in 0 .. m
      BY <1>3, <2>2
    <3> QED BY <1>6, <2>2, <3>1
  <2> QED BY <2>1, <2>2
<1>8. r \in [0 .. n + m -> T]
  BY <1>7
<1>9. r[0] = a /\ r[n + m] = c
  <2>1. 0 \in 0 .. n + m /\ n + m \in 0 .. n + m /\ 0 <= n /\ (n + m <= n => m = 0 /\ n + m = n) /\ (n + m) - n = m
    BY <1>3
  <2>2. r[0] = a
    BY <1>5, <2>1
  <2>3. r[n + m] = c
    <3>1. CASE n + m <= n
      BY <1>5, <1>6, <2>1, <3>1
    <3>2. CASE ~(n + m <= n)
      BY <1>6, <2>1, <3>2
    <3> HIDE DEF r
    <3> QED BY <3>1, <3>2
  <2> QED BY <2>2, <2>3
<1>10. ASSUME NEW k \in 1 .. n + m PROVE Takes(env, pq[k], r[k - 1], r[k])
  <2>1. k - 1 \in 0 .. n + m /\ k \in 0 .. n + m
    BY <1>3
  <2>2. CASE k <= n
    <3>1. k \in 1 .. n /\ k - 1 <= n
      BY <1>3, <2>2
    <3>2. r[k - 1] = t[k - 1] /\ r[k] = t[k] /\ pq[k] = p[k]
      BY <1>4, <2>1, <2>2, <3>1
    <3> QED BY <1>5, <3>1, <3>2
  <2>3. CASE ~(k <= n)
    <3>1. k - n \in 1 .. m /\ (k - n) - 1 = (k - 1) - n /\ (k - 1 <= n => k - 1 = n /\ (k - n) - 1 = 0)
      BY <1>3, <2>3
    <3>2. r[k] = s[k - n] /\ pq[k] = q[k - n]
      BY <1>4, <2>1, <2>3
    <3>3. r[k - 1] = s[(k - n) - 1]
      <4>1. CASE k - 1 <= n
        BY <1>5, <1>6, <2>1, <3>1, <4>1
      <4>2. CASE ~(k - 1 <= n)
        BY <2>1, <3>1, <4>2
      <4> QED BY <4>1, <4>2
    <3> QED BY <1>6, <3>1, <3>2, <3>3
  <2> QED BY <2>2, <2>3
<1> HIDE DEF r
<1>11. Passage(env, T, pq, a, c)
  BY <1>4, <1>8, <1>9, <1>10 DEF Passage
<1> QED BY <1>11 DEF pq

\* The first operation is the first step.
LEMMA WayTail ==
  ASSUME NEW env, NEW T, NEW p, p # << >>, NEW a, NEW c, Passage(env, T, p, a, c)
  PROVE  \E b \in T : a \in T /\ Takes(env, p[1], a, b) /\ Passage(env, T, Tail(p), b, c)
<1>1. PICK S : p \in Seq(S)
  BY DEF Passage
<1> DEFINE n == Len(p)  q == Tail(p)
<1>2. n \in Nat \ {0} /\ q \in Seq(S) /\ Len(q) = n - 1 /\ \A k \in 1 .. n - 1 : q[k] = p[k + 1]
  BY <1>1
<1>3. PICK t \in [0 .. n -> T] : /\ t[0] = a /\ t[n] = c
                                /\ \A k \in 1 .. n : Takes(env, p[k], t[k - 1], t[k])
  BY DEF Passage
<1> HIDE DEF n, q
<1>4. Takes(env, p[1], a, t[1]) /\ t[1] \in T /\ a \in T
  <2>1. 1 \in 1 .. n /\ 1 \in 0 .. n /\ 0 \in 0 .. n /\ 1 - 1 = 0
    BY <1>2
  <2> QED BY <1>3, <2>1
<1> DEFINE s == [k \in 0 .. n - 1 |-> t[k + 1]]
<1>5. \A k \in 0 .. n - 1 : k + 1 \in 0 .. n
  BY <1>2
<1>6. s \in [0 .. n - 1 -> T]
  BY <1>3, <1>5
<1>7. s[0] = t[1] /\ s[n - 1] = c
  <2>1. 0 \in 0 .. n - 1 /\ n - 1 \in 0 .. n - 1 /\ 0 + 1 = 1 /\ (n - 1) + 1 = n
    BY <1>2
  <2> QED BY <1>3, <2>1
<1>8. ASSUME NEW k \in 1 .. n - 1 PROVE Takes(env, q[k], s[k - 1], s[k])
  <2>1. k + 1 \in 1 .. n /\ (k + 1) - 1 = k /\ k - 1 \in 0 .. n - 1 /\ k \in 0 .. n - 1 /\ (k - 1) + 1 = k
    BY <1>2
  <2>2. s[k - 1] = t[k] /\ s[k] = t[k + 1] /\ q[k] = p[k + 1]
    BY <1>2, <2>1
  <2>3. Takes(env, p[k + 1], t[(k + 1) - 1], t[k + 1])
    BY <1>3, <2>1
  <2> HIDE DEF s
  <2> QED BY <2>1, <2>2, <2>3
<1> HIDE DEF s
<1>9. Passage(env, T, q, t[1], c)
  BY <1>2, <1>6, <1>7, <1>8 DEF Passage
<1> QED BY <1>4, <1>9 DEF q

\* One more operation at the end of the way.
LEMMA WayAppend ==
  ASSUME NEW env, NEW T, NEW p, NEW a \in T, NEW b \in T, NEW c \in T, NEW op,
         Passage(env, T, p, a, b), Takes(env, op, b, c)
  PROVE  Passage(env, T, p \o <<op>>, a, c) /\ Passage(env, T, Append(p, op), a, c)
<1>1. Passage(env, T, <<op>>, b, c)
  BY WayOne
<1>2. Passage(env, T, p \o <<op>>, a, c)
  BY <1>1, WayMore
<1>3. Append(p, op) = p \o <<op>>
  <2>1. PICK S : p \in Seq(S)
    BY DEF Passage
  <2>2. p \in Seq(S \cup {op})
    BY <2>1
  <2> QED BY <2>2
<1> QED BY <1>2, <1>3
=============================================================================
