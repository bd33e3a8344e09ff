---------------------------- MODULE GoData_proofs ----------------------------
(***************************************************************************)
(* What the invariance proofs cite of Go data: the elements of a slice at   *)
(* some places (Picked of GoData), folds along a slice, and sums over the   *)
(* values of a map.                                                         *)
(***************************************************************************)
EXTENDS GoData, Integers, Sequences, Functions, FiniteSetTheorems, SequenceTheorems,
        WellFoundedInduction, TLAPS

----------------------------------------------------------------------------
(* The elements of a sequence at some places.                              *)

\* The ranks of finitely many places are 1, 2, 3 ...
LEMMA RankIs ==
  ASSUME NEW n \in Nat, NEW I, I \subseteq 1..n
  PROVE  /\ IsFiniteSet(I) /\ Cardinality(I) \in Nat
         /\ \A i \in I : Rank(I, i) \in 1..Cardinality(I)
         /\ \A i, j \in I : Rank(I, i) = Rank(I, j) => i = j
         /\ \A k \in 1..Cardinality(I) : \E i \in I : Rank(I, i) = k
<1> DEFINE Upto(i) == {j \in I : j <= i}
<1>1. IsFiniteSet(I) /\ Cardinality(I) \in Nat
  <2>1. 1 \in Int /\ n \in Int
    OBVIOUS
  <2>2. IsFiniteSet(1..n)
    BY <2>1, FS_Interval
  <2> QED BY <2>2, FS_Subset, FS_CardinalityType
<1>2. ASSUME NEW i \in I
      PROVE  /\ Upto(i) \subseteq I /\ i \in Upto(i) /\ IsFiniteSet(Upto(i)) /\ Cardinality(Upto(i)) \in Nat
             /\ Cardinality(Upto(i)) \in 1..Cardinality(I)
  <2>1. Upto(i) \subseteq I /\ i \in Upto(i)
    OBVIOUS
  <2> HIDE DEF Upto
  <2>2. IsFiniteSet(Upto(i)) /\ Cardinality(Upto(i)) \in Nat /\ Cardinality(Upto(i)) <= Cardinality(I)
    BY <1>1, <2>1, FS_Subset, FS_CardinalityType
  <2>3. Upto(i) # {}
    BY <2>1
  <2>4. Cardinality(Upto(i)) # 0
    BY <2>2, <2>3, FS_EmptySet
  <2> QED BY <1>1, <2>1, <2>2, <2>4
<1>3. ASSUME NEW i \in I, NEW j \in I, i < j PROVE Cardinality(Upto(i)) # Cardinality(Upto(j))
  <2>1. Upto(i) \subseteq Upto(j) /\ j \notin Upto(i)
    <3>1. \A k \in I : k \in Nat
      OBVIOUS
    <3>2. i \in Nat /\ j \in Nat /\ ~(j <= i) /\ \A k \in I : k <= i => k <= j
      BY <1>3, <3>1
    <3> QED BY <3>2
  <2> HIDE DEF Upto
  <2>2. IsFiniteSet(Upto(j)) /\ Upto(i) # Upto(j)
    BY <1>2, <2>1
  <2> QED BY <2>1, <2>2, FS_Subset
<1>4. ASSUME NEW i \in I, NEW j \in I, Rank(I, i) = Rank(I, j) PROVE i = j
  <2>1. Cardinality(Upto(i)) = Cardinality(Upto(j))
    BY <1>4 DEF Rank
  <2> HIDE DEF Upto
  <2>2. ~(i < j) /\ ~(j < i)
    BY <1>3, <2>1
  <2> QED BY <2>2
<1>5. \A i \in I : Rank(I, i) \in 1..Cardinality(I)
  BY <1>2 DEF Rank
<1>6. ASSUME NEW k \in 1..Cardinality(I) PROVE \E i \in I : Rank(I, i) = k
  <2> DEFINE f == [i \in I |-> Rank(I, i)]
             T == 1..Cardinality(I)
  <2>1. f \in [I -> T] /\ \A i, j \in I : f[i] = f[j] => i = j
    BY <1>4, <1>5
  <2>2. f \in Injection(I, T)
    BY <2>1 DEF Injection, IsInjective
  <2>3. IsFiniteSet(T) /\ Cardinality(T) = Cardinality(I)
    <3>1. 1 \in Int /\ Cardinality(I) \in Int
      BY <1>1
    <3>2. IsFiniteSet(1..Cardinality(I)) /\ Cardinality(1..Cardinality(I)) = IF 1 > Cardinality(I) THEN 0 ELSE Cardinality(I) - 1 + 1
      BY <3>1, FS_Interval
    <3> QED BY <1>1, <3>2
  <2> HIDE DEF f, T
  <2>4. f \in Surjection(I, T)
    BY <2>2, <2>3, FS_Injection
  <2>5. \E i \in I : f[i] = k
    BY <2>4 DEF Surjection, T
  <2> QED BY <2>5 DEF f
<1> QED BY <1>1, <1>4, <1>5, <1>6

\* The element of the rank of a place is the one at the place.
LEMMA PickedIs ==
  ASSUME NEW S, NEW s \in Seq(S), NEW I, I \subseteq DOMAIN s
  PROVE  /\ Picked(s, I) \in Seq(S) /\ Len(Picked(s, I)) = Cardinality(I)
         /\ \A i \in I : Picked(s, I)[Rank(I, i)] = s[i]
<1> DEFINE At(k) == CHOOSE i \in I : Rank(I, i) = k
           c == Cardinality(I)
<1>1. /\ DOMAIN s = 1..Len(s) /\ Len(s) \in Nat
  OBVIOUS
<1>2. Picked(s, I) = [k \in 1..c |-> s[At(k)]]
  BY DEF Picked
<1>3. c \in Nat /\ \A i \in I : Rank(I, i) \in 1..c
  BY <1>1, RankIs
<1>4. ASSUME NEW k \in 1..c PROVE At(k) \in I /\ Rank(I, At(k)) = k
  BY <1>1, RankIs
<1>5. ASSUME NEW i \in I PROVE At(Rank(I, i)) = i
  BY <1>1, <1>3, <1>4, RankIs
<1> HIDE DEF At, c
<1>6. \A k \in 1..c : s[At(k)] \in S
  BY <1>1, <1>4
<1>7. Picked(s, I) \in [1..c -> S]
  BY <1>2, <1>6
<1>8. Picked(s, I) \in Seq(S) /\ Len(Picked(s, I)) = c
  BY <1>3, <1>7
<1>9. \A i \in I : Picked(s, I)[Rank(I, i)] = s[i]
  BY <1>2, <1>3, <1>5
<1> QED BY <1>8, <1>9 DEF c

\* Further elements of which no place is asked for.
LEMMA PickedConcat ==
  ASSUME NEW S, NEW s \in Seq(S), NEW t \in Seq(S), NEW I, I \subseteq DOMAIN s
  PROVE  Picked(s \o t, I) = Picked(s, I)
<1> DEFINE u == s \o t
<1>1. u \in Seq(S) /\ DOMAIN s \subseteq DOMAIN u /\ Len(s) \in Nat /\ DOMAIN s = 1..Len(s) /\ \A i \in DOMAIN s : u[i] = s[i]
  OBVIOUS
<1> HIDE DEF u
<1> DEFINE p == Picked(s, I)
           q == Picked(u, I)
<1>2. p \in Seq(S) /\ Len(p) = Cardinality(I) /\ \A i \in I : p[Rank(I, i)] = s[i]
  BY PickedIs
<1>3. q \in Seq(S) /\ Len(q) = Cardinality(I) /\ \A i \in I : q[Rank(I, i)] = u[i]
  BY <1>1, PickedIs
<1> HIDE DEF p, q
<1>4. ASSUME NEW k \in 1..Len(q) PROVE q[k] = p[k]
  <2>1. PICK i \in I : Rank(I, i) = k
    BY <1>1, <1>3, RankIs
  <2> QED BY <1>1, <1>2, <1>3, <2>1
<1>5. q = p
  BY <1>2, <1>3, <1>4, SeqEqual
<1> QED BY <1>5 DEF p, q, u

\* Another element of which the place is not asked for.
LEMMA PickedKept ==
  ASSUME NEW S, NEW s \in Seq(S), NEW e \in S, NEW I, I \subseteq DOMAIN s
  PROVE  Picked(Append(s, e), I) = Picked(s, I)
<1> DEFINE t == <<e>>
<1>1. t \in Seq(S) /\ Append(s, e) = s \o t
  BY AppendIsConcat
<1> HIDE DEF t
<1>2. Picked(s \o t, I) = Picked(s, I)
  BY <1>1, PickedConcat
<1> QED BY <1>1, <1>2

\* Of all places, each is its own rank.
LEMMA RankAll ==
  ASSUME NEW n \in Nat
  PROVE  Cardinality(1..n) = n /\ \A i \in 1..n : Rank(1..n, i) = i
<1>1. ASSUME NEW m \in Nat PROVE Cardinality(1..m) = m
  <2>1. 1 \in Int /\ m \in Int
    OBVIOUS
  <2>2. Cardinality(1..m) = IF 1 > m THEN 0 ELSE m - 1 + 1
    BY <2>1, FS_Interval
  <2> QED BY <2>2
<1>2. ASSUME NEW i \in 1..n PROVE Rank(1..n, i) = i
  <2>1. {j \in 1..n : j <= i} = 1..i /\ i \in Nat
    OBVIOUS
  <2> QED BY <1>1, <2>1 DEF Rank
<1> QED BY <1>1, <1>2

\* All places.
LEMMA PickedAll ==
  ASSUME NEW S, NEW s \in Seq(S)
  PROVE  Picked(s, DOMAIN s) = s
<1> DEFINE p == Picked(s, DOMAIN s)
<1>1. Len(s) \in Nat /\ DOMAIN s = 1..Len(s)
  OBVIOUS
<1>2. p \in Seq(S) /\ Len(p) = Len(s) /\ \A i \in 1..Len(s) : p[Rank(1..Len(s), i)] = s[i]
  BY <1>1, PickedIs, RankAll
<1> HIDE DEF p
<1>3. \A i \in 1..Len(p) : p[i] = s[i]
  BY <1>1, <1>2, RankAll
<1>4. p = s
  BY <1>2, <1>3, SeqEqual
<1> QED BY <1>4 DEF p

\* Another element, at a place that is asked for.
LEMMA PickedMore ==
  ASSUME NEW S, NEW s \in Seq(S), NEW e \in S, NEW I, I \subseteq DOMAIN s
  PROVE  Picked(Append(s, e), I \cup {Len(s) + 1}) = Append(Picked(s, I), e)
<1> DEFINE t == Append(s, e)
           n == Len(s) + 1
           J == I \cup {n}
           c == Cardinality(I)
<1>1. /\ t \in Seq(S) /\ Len(s) \in Nat /\ DOMAIN s = 1..Len(s) /\ DOMAIN t = 1..n /\ n \in Nat
      /\ t[n] = e /\ \A i \in DOMAIN s : t[i] = s[i]
  OBVIOUS
<1> HIDE DEF t
<1>2. I \subseteq 1..Len(s) /\ J \subseteq 1..n /\ n \notin I /\ \A i \in I : i < n
  BY <1>1
<1> HIDE DEF n
<1>3. IsFiniteSet(I) /\ c \in Nat
  BY <1>1, <1>2, RankIs
<1>4. Cardinality(J) = c + 1
  BY <1>2, <1>3, FS_AddElement
<1>5. ASSUME NEW i \in I PROVE Rank(J, i) = Rank(I, i)
  <2>1. {j \in J : j <= i} = {j \in I : j <= i}
    BY <1>1, <1>2
  <2> QED BY <2>1 DEF Rank
<1>6. Rank(J, n) = c + 1
  <2>1. {j \in J : j <= n} = J
    BY <1>1, <1>2
  <2> QED BY <1>4, <2>1 DEF Rank
<1> DEFINE p == Picked(s, I)
           q == Picked(t, J)
           r == Append(p, e)
<1>7. p \in Seq(S) /\ Len(p) = c /\ \A i \in I : p[Rank(I, i)] = s[i]
  BY PickedIs
<1>8. q \in Seq(S) /\ Len(q) = c + 1 /\ \A i \in J : q[Rank(J, i)] = t[i]
  BY ZenonT(30), <1>1, <1>2, <1>4, PickedIs
<1> HIDE DEF p, q, c
<1>9. r \in Seq(S) /\ Len(r) = c + 1 /\ r[c + 1] = e /\ \A k \in 1..c : r[k] = p[k]
  BY <1>3, <1>7
<1> HIDE DEF r
<1>10. ASSUME NEW k \in 1..(c + 1) PROVE q[k] = r[k]
  <2>1. CASE k = c + 1
    BY <1>1, <1>6, <1>8, <1>9, <2>1
  <2>2. CASE k # c + 1
    <3>1. k \in 1..c
      BY <1>3, <2>2
    <3>2. PICK i \in I : Rank(I, i) = k
      BY <1>1, <1>2, <3>1, RankIs DEF c
    <3>3. q[k] = t[i] /\ p[k] = s[i] /\ t[i] = s[i]
      BY <1>1, <1>2, <1>5, <1>7, <1>8, <3>2
    <3> QED BY <1>9, <3>1, <3>3
  <2> QED BY <2>1, <2>2
<1>11. q = r
  BY <1>8, <1>9, <1>10, SeqEqual
<1> QED BY <1>11 DEF q, r, p, t, n

----------------------------------------------------------------------------
(* Folds.  A fold takes the elements of a set one by one, in the order that *)
(* a choice of elements gives, by a recursive function on its subsets: what *)
(* follows shows that its equation has a solution.  Induction is by         *)
(* smallest counterexample.                                                 *)

\* A set of natural numbers has a smallest element.
LEMMA Least ==
  ASSUME NEW A, A \subseteq Nat, A # {}
  PROVE  \E m \in A : \A n \in A : m <= n
<1>1. PICK m \in A : \A n \in A : <<n, m>> \notin OpToRel(<, Nat)
  BY NatLessThanWellFounded, WFMin
<1>2. ASSUME NEW n \in A PROVE m <= n
  <2>1. ASSUME n < m PROVE FALSE
    <3>1. <<n, m>> \in OpToRel(<, Nat)
      BY <2>1 DEF OpToRel
    <3> QED BY <3>1, <1>1
  <2> QED BY <2>1
<1> QED BY <1>2

\* Among subsets of a finite set one has no smaller one beside it.
LEMMA Smallest ==
  ASSUME NEW S, IsFiniteSet(S), NEW B, B \subseteq SUBSET S, B # {}
  PROVE  \E T \in B : \A x \in T : T \ {x} \notin B
<1>1. IsWellFoundedOn(StrictSubsetOrdering(S), SUBSET S)
  BY FS_StrictSubsetOrderingWellFounded, FS_FiniteSubsetsOfFinite
<1>2. PICK T \in B : \A U \in B : <<U, T>> \notin StrictSubsetOrdering(S)
  BY <1>1, WFMin
<1>3. ASSUME NEW x \in T, T \ {x} \in B PROVE FALSE
  <2>1. <<T \ {x}, T>> \in StrictSubsetOrdering(S)
    BY <1>3 DEF StrictSubsetOrdering
  <2> QED BY <2>1, <1>2, <1>3
<1> QED BY <1>3

\* What a fold of G over the subsets of a set solves, when ch says which element of a
\* set is taken last.
Solves(G, base, ch, g, D) == \A T \in D : g[T] = IF T = {} THEN base ELSE G[ch[T], g[T \ {ch[T]}]]

Takes(S, ch) == ch \in [(SUBSET S) \ {{}} -> S] /\ \A T \in SUBSET S : T # {} => ch[T] \in T

\* The subsets with at most so many elements.
Below(S, n) == {T \in SUBSET S : Cardinality(T) <= n}

\* What is left of a set when an element is taken has one element less.
LEMMA BelowStep ==
  ASSUME NEW S, IsFiniteSet(S), NEW n \in Nat, NEW T \in Below(S, n)
  PROVE  /\ T \subseteq S
         /\ n = 0 => T = {}
         /\ \A x \in T : T \ {x} \in Below(S, n) /\ T \ {x} \in Below(S, n - 1)
<1>1. T \in SUBSET S /\ Cardinality(T) <= n
  BY DEF Below
<1>2. IsFiniteSet(T) /\ Cardinality(T) \in Nat
  BY <1>1, FS_Subset, FS_CardinalityType
<1>3. T = {} <=> Cardinality(T) = 0
  BY <1>2, FS_EmptySet
<1>4. ASSUME NEW x \in T
      PROVE  Cardinality(T \ {x}) = Cardinality(T) - 1
  BY <1>2, FS_RemoveElement
<1> QED BY <1>1, <1>2, <1>3, <1>4 DEF Below

\* The equation of a fold has a solution on all subsets of a finite set.
LEMMA FoldExists ==
  ASSUME NEW S, IsFiniteSet(S), NEW A, NEW base \in A, NEW G \in [S \X A -> A], NEW ch, Takes(S, ch)
  PROVE  \E g \in [SUBSET S -> A] : Solves(G, base, ch, g, SUBSET S)
<1> DEFINE Good(n) == \E g \in [Below(S, n) -> A] : Solves(G, base, ch, g, Below(S, n))
           Bad == {n \in Nat : ~Good(n)}
<1>1. ASSUME NEW n \in Nat, NEW T \in Below(S, n), T # {}
      PROVE  ch[T] \in S /\ T \ {ch[T]} \in Below(S, n) /\ T \ {ch[T]} \in Below(S, n - 1)
  <2>1. T \subseteq S /\ ch[T] \in T
    BY <1>1, BelowStep DEF Takes
  <2> QED BY <2>1, BelowStep
<1>2. ASSUME Bad # {} PROVE FALSE
  <2>1. PICK n \in Bad : \A m \in Bad : n <= m
    <3> HIDE DEF Good
    <3>1. Bad \subseteq Nat
      OBVIOUS
    <3> HIDE DEF Bad
    <3> QED BY <1>2, <3>1, Least
  <2>2. CASE n = 0
    <3> DEFINE z == [T \in Below(S, 0) |-> base]
    <3>1. Solves(G, base, ch, z, Below(S, 0))
      <4> SUFFICES ASSUME NEW T \in Below(S, 0) PROVE T = {} /\ z[T] = base
        BY DEF Solves
      <4> QED BY BelowStep
    <3>2. z \in [Below(S, 0) -> A]
      OBVIOUS
    <3> QED BY <3>1, <3>2, <2>1, <2>2
  <2>3. CASE n # 0
    <3>1. n - 1 \in Nat /\ n - 1 \notin Bad /\ n \in Nat
      BY <2>1, <2>3
    <3>2. PICK g \in [Below(S, n - 1) -> A] : Solves(G, base, ch, g, Below(S, n - 1))
      BY <3>1
    <3> DEFINE rest(T) == T \ {ch[T]}
               h == [T \in Below(S, n) |-> IF T = {} THEN base ELSE G[ch[T], g[rest(T)]]]
    <3>3. ASSUME NEW T \in Below(S, n), T # {} PROVE rest(T) \in Below(S, n - 1) /\ h[T] = G[ch[T], g[rest(T)]] /\ h[T] \in A
      <4>1. ch[T] \in S /\ rest(T) \in Below(S, n - 1)
        BY <1>1, <3>1, <3>3
      <4> HIDE DEF rest
      <4>2. h[T] = G[ch[T], g[rest(T)]] /\ g[rest(T)] \in A
        BY <3>3, <4>1
      <4> QED BY <4>1, <4>2
    <3>4. \A T \in Below(S, n) : T = {} => h[T] = base
      OBVIOUS
    <3>5. h \in [Below(S, n) -> A]
      <4>1. h = [T \in Below(S, n) |-> h[T]]
        OBVIOUS
      <4> HIDE DEF h
      <4> QED BY <4>1, <3>3, <3>4
    <3> HIDE DEF h
    <3>6. ASSUME NEW T \in Below(S, n - 1) PROVE T \in Below(S, n) /\ h[T] = g[T]
      <4>1. T \in Below(S, n)
        <5>1. T \in SUBSET S /\ Cardinality(T) \in Nat /\ Cardinality(T) <= n - 1
          BY FS_Subset, FS_CardinalityType DEF Below
        <5> QED BY <5>1, <3>1 DEF Below
      <4>2. g[T] = IF T = {} THEN base ELSE G[ch[T], g[rest(T)]]
        BY <3>2 DEF Solves
      <4> QED BY <4>1, <4>2, <3>3, <3>4
    <3>7. Solves(G, base, ch, h, Below(S, n))
      <4> SUFFICES ASSUME NEW T \in Below(S, n) PROVE h[T] = IF T = {} THEN base ELSE G[ch[T], h[rest(T)]]
        BY DEF Solves
      <4> QED BY <3>3, <3>4, <3>6
    <3> QED BY <3>5, <3>7, <2>1
  <2> QED BY <2>2, <2>3
<1>3. Cardinality(S) \in Nat /\ Below(S, Cardinality(S)) = SUBSET S
  BY FS_CardinalityType, FS_Subset DEF Below
<1>4. Good(Cardinality(S))
  <2> HIDE DEF Good
  <2> QED BY <1>2, <1>3
<1> QED BY <1>3, <1>4

----------------------------------------------------------------------------
(* Sums.  SumFunction adds up the values of a function on a finite set, as  *)
(* the token and cost accounts of a reliableModel add up its calls.  It is  *)
(* a fold.                                                                  *)

\* The element SumFunction takes first, and the equation it solves.
Pick(T) == CHOOSE x \in T : TRUE

Adds(f, g, D) == \A T \in D : g[T] = IF T = {} THEN 0 ELSE f[Pick(T)] + g[T \ {Pick(T)}]

Partial(f, S) == CHOOSE g : g = [T \in SUBSET S |-> IF T = {} THEN 0 ELSE f[Pick(T)] + g[T \ {Pick(T)}]]

LEMMA PickIn == \A T : T # {} => Pick(T) \in T
  BY DEF Pick

\* The equation has a solution on all subsets of a finite set.
LEMMA SumExists ==
  ASSUME NEW S, IsFiniteSet(S), NEW f \in [S -> Int]
  PROVE  \E g \in [SUBSET S -> Int] : Adds(f, g, SUBSET S)
<1> DEFINE G == [p \in S \X Int |-> f[p[1]] + p[2]]
           ch == [T \in (SUBSET S) \ {{}} |-> Pick(T)]
<1>1. G \in [S \X Int -> Int]
  <2>1. \A p \in S \X Int : f[p[1]] \in Int /\ p[2] \in Int
    OBVIOUS
  <2> QED BY <2>1
<1>2. \A x \in S, y \in Int : G[x, y] = f[x] + y
  OBVIOUS
<1>3. ASSUME NEW T \in SUBSET S, T # {} PROVE ch[T] = Pick(T) /\ Pick(T) \in T /\ Pick(T) \in S
  <2>1. Pick(T) \in T
    BY <1>3, PickIn
  <2>2. T \in (SUBSET S) \ {{}}
    BY <1>3
  <2>3. ch[T] = Pick(T)
    BY <2>2
  <2> QED BY <2>1, <2>3
<1>4. Takes(S, ch)
  <2>1. \A T \in (SUBSET S) \ {{}} : Pick(T) \in S
    BY <1>3
  <2>2. ch \in [(SUBSET S) \ {{}} -> S]
    BY <2>1
  <2> HIDE DEF ch
  <2> QED BY <1>3, <2>2 DEF Takes
<1> HIDE DEF G, ch
<1>5. PICK g \in [SUBSET S -> Int] : Solves(G, 0, ch, g, SUBSET S)
  <2>1. 0 \in Int
    OBVIOUS
  <2> QED BY <1>1, <1>4, <2>1, FoldExists
<1>6. Adds(f, g, SUBSET S)
  BY <1>2, <1>3, <1>5 DEF Adds, Solves
<1> QED BY <1>6
\* SumFunction is the solution, at the whole domain.
LEMMA SumIsPartial == \A f : SumFunction(f) = Partial(f, DOMAIN f)[DOMAIN f]
  BY Zenon DEF SumFunction, SumFunctionOnSet, FoldFunctionOnSet, MapThenFoldSet, Partial, Pick

\* What SumFunction chooses does solve the equation.
LEMMA PartialAdds ==
  ASSUME NEW S, IsFiniteSet(S), NEW f \in [S -> Int]
  PROVE  Adds(f, Partial(f, S), SUBSET S)
<1>1. PICK g \in [SUBSET S -> Int] : Adds(f, g, SUBSET S)
  BY SumExists
<1>2. g = [T \in SUBSET S |-> IF T = {} THEN 0 ELSE f[Pick(T)] + g[T \ {Pick(T)}]]
  BY <1>1 DEF Adds
<1> DEFINE p == Partial(f, S)
<1>3. p = [T \in SUBSET S |-> IF T = {} THEN 0 ELSE f[Pick(T)] + p[T \ {Pick(T)}]]
  BY <1>2 DEF Partial
<1> HIDE DEF p
<1>4. Adds(f, p, SUBSET S)
  BY <1>3 DEF Adds
<1> QED BY <1>4 DEF p

\* The equation, taken apart.
LEMMA PartialStep ==
  ASSUME NEW S, IsFiniteSet(S), NEW f \in [S -> Int]
  PROVE  /\ Partial(f, S)[{}] = 0
         /\ \A T \in SUBSET S : T # {} =>
              /\ Pick(T) \in T /\ T \ {Pick(T)} \in SUBSET S
              /\ Partial(f, S)[T] = f[Pick(T)] + Partial(f, S)[T \ {Pick(T)}]
<1> DEFINE p == Partial(f, S)
<1>1. Adds(f, p, SUBSET S)
  BY PartialAdds
<1> HIDE DEF p
<1>2. p[{}] = 0
  <2>1. {} \in SUBSET S
    OBVIOUS
  <2> QED BY <2>1, <1>1 DEF Adds
<1>3. ASSUME NEW T \in SUBSET S, T # {}
      PROVE  /\ Pick(T) \in T /\ T \ {Pick(T)} \in SUBSET S
             /\ p[T] = f[Pick(T)] + p[T \ {Pick(T)}]
  <2>1. Pick(T) \in T
    BY <1>3, PickIn
  <2>2. p[T] = f[Pick(T)] + p[T \ {Pick(T)}]
    BY <1>3, <1>1 DEF Adds
  <2> QED BY <2>1, <2>2
<1> QED BY <1>2, <1>3 DEF p

\* A partial sum of integers is an integer.
LEMMA PartialType ==
  ASSUME NEW S, IsFiniteSet(S), NEW f \in [S -> Int]
  PROVE  \A T \in SUBSET S : Partial(f, S)[T] \in Int
<1> DEFINE p == Partial(f, S)
           B == {T \in SUBSET S : p[T] \notin Int}
<1>1. /\ p[{}] = 0
      /\ \A T \in SUBSET S : T # {} =>
           Pick(T) \in T /\ T \ {Pick(T)} \in SUBSET S /\ p[T] = f[Pick(T)] + p[T \ {Pick(T)}]
  BY PartialStep
<1> HIDE DEF p
<1>2. ASSUME B # {} PROVE FALSE
  <2>1. PICK T \in B : \A x \in T : T \ {x} \notin B
    BY <1>2, Smallest
  <2>2. CASE T = {}
    BY <2>1, <2>2, <1>1
  <2>3. CASE T # {}
    <3>1. /\ Pick(T) \in T /\ T \ {Pick(T)} \in SUBSET S
          /\ p[T] = f[Pick(T)] + p[T \ {Pick(T)}]
      BY <2>1, <2>3, <1>1
    <3> QED BY <3>1, <2>1
  <2> QED BY <2>2, <2>3
<1> QED BY <1>2 DEF p

\* When a function changes at one element, its sum changes by as much.
LEMMA SumChange ==
  ASSUME NEW S, IsFiniteSet(S), NEW f \in [S -> Int], NEW g \in [S -> Int],
         NEW c \in S, \A x \in S \ {c} : g[x] = f[x]
  PROVE  SumFunction(g) = SumFunction(f) + (g[c] - f[c])
<1> DEFINE p == Partial(f, S)
           q == Partial(g, S)
           d(T) == IF c \in T THEN g[c] - f[c] ELSE 0
           B == {T \in SUBSET S : q[T] # p[T] + d(T)}
<1>1. /\ p[{}] = 0 /\ q[{}] = 0
      /\ \A T \in SUBSET S : T # {} =>
           /\ Pick(T) \in T /\ T \ {Pick(T)} \in SUBSET S
           /\ p[T] = f[Pick(T)] + p[T \ {Pick(T)}] /\ q[T] = g[Pick(T)] + q[T \ {Pick(T)}]
  BY PartialStep
<1>2. \A T \in SUBSET S : p[T] \in Int /\ q[T] \in Int
  BY PartialType
<1>3. SumFunction(f) = p[S] /\ SumFunction(g) = q[S]
  BY SumIsPartial
<1> HIDE DEF p, q
<1>4. ASSUME B # {} PROVE FALSE
  <2>1. PICK T \in B : \A x \in T : T \ {x} \notin B
    BY <1>4, Smallest
  <2>2. CASE T = {}
    BY <2>1, <2>2, <1>1
  <2>3. CASE T # {}
    <3> DEFINE x == Pick(T)
               U == T \ {x}
    <3>1. x \in T /\ U \in SUBSET S /\ x \notin U
      BY <2>1, <2>3, <1>1
    <3>2. p[T] = f[x] + p[U] /\ q[T] = g[x] + q[U]
      BY <2>1, <2>3, <1>1
    <3>3. q[U] = p[U] + d(U)
      BY <2>1, <3>1
    <3>4. d(T) = d(U) + (g[x] - f[x])
      BY <3>1
    <3>5. q[T] # p[T] + d(T) /\ T \in SUBSET S
      BY <2>1
    <3>6. /\ f[x] \in Int /\ g[x] \in Int /\ d(U) \in Int /\ d(T) \in Int
          /\ p[U] \in Int /\ q[U] \in Int /\ p[T] \in Int /\ q[T] \in Int
      BY <3>1, <3>5, <1>2
    <3> HIDE DEF x, U, d
    <3> QED BY <3>2, <3>3, <3>4, <3>5, <3>6
  <2> QED BY <2>2, <2>3
<1>5. q[S] = p[S] + (g[c] - f[c])
  BY <1>4
<1> QED BY <1>3, <1>5

\* A sum of natural numbers is one.
LEMMA SumNat ==
  ASSUME NEW S, IsFiniteSet(S), NEW f \in [S -> Nat]
  PROVE  SumFunction(f) \in Nat
<1> DEFINE p == Partial(f, S)
           B == {T \in SUBSET S : p[T] \notin Nat}
<1>0. f \in [S -> Int]
  OBVIOUS
<1>1. /\ p[{}] = 0
      /\ \A T \in SUBSET S : T # {} =>
           Pick(T) \in T /\ T \ {Pick(T)} \in SUBSET S /\ p[T] = f[Pick(T)] + p[T \ {Pick(T)}]
  BY <1>0, PartialStep
<1>2. SumFunction(f) = p[S]
  BY SumIsPartial
<1> HIDE DEF p
<1>3. ASSUME B # {} PROVE FALSE
  <2>1. PICK T \in B : \A x \in T : T \ {x} \notin B
    BY <1>3, Smallest
  <2>2. CASE T = {}
    BY <2>1, <2>2, <1>1
  <2>3. CASE T # {}
    <3>1. /\ Pick(T) \in T /\ T \ {Pick(T)} \in SUBSET S
          /\ p[T] = f[Pick(T)] + p[T \ {Pick(T)}]
      BY <2>1, <2>3, <1>1
    <3> QED BY <3>1, <2>1
  <2> QED BY <2>2, <2>3
<1> QED BY <1>2, <1>3

\* Nothing adds up to nothing.
LEMMA SumZero ==
  ASSUME NEW S, IsFiniteSet(S)
  PROVE  SumFunction([x \in S |-> 0]) = 0
<1> DEFINE f == [x \in S |-> 0]
           p == Partial(f, S)
           B == {T \in SUBSET S : p[T] # 0}
<1>0. f \in [S -> Int] /\ \A x \in S : f[x] = 0
  OBVIOUS
<1> HIDE DEF f
<1>1. /\ p[{}] = 0
      /\ \A T \in SUBSET S : T # {} =>
           Pick(T) \in T /\ T \ {Pick(T)} \in SUBSET S /\ p[T] = f[Pick(T)] + p[T \ {Pick(T)}]
  BY <1>0, PartialStep
<1>2. SumFunction(f) = p[S]
  BY <1>0, SumIsPartial
<1> HIDE DEF p
<1>3. ASSUME B # {} PROVE FALSE
  <2>1. PICK T \in B : \A x \in T : T \ {x} \notin B
    BY <1>3, Smallest
  <2>2. CASE T = {}
    BY <2>1, <2>2, <1>1
  <2>3. CASE T # {}
    <3>1. /\ Pick(T) \in T /\ T \ {Pick(T)} \in SUBSET S
          /\ p[T] = f[Pick(T)] + p[T \ {Pick(T)}]
      BY <2>1, <2>3, <1>1
    <3> QED BY <3>1, <2>1, <1>0
  <2> QED BY <2>2, <2>3
<1> QED BY <1>2, <1>3 DEF f

\* No part of a sum of natural numbers is larger than the sum.
LEMMA SumBoundsPart ==
  ASSUME NEW S, IsFiniteSet(S), NEW f \in [S -> Nat], NEW c \in S
  PROVE  f[c] <= SumFunction(f)
<1> DEFINE g == [f EXCEPT ![c] = 0]
<1>1. g \in [S -> Nat] /\ g[c] = 0 /\ \A x \in S \ {c} : g[x] = f[x]
  OBVIOUS
<1> HIDE DEF g
<1>2. SumFunction(g) = SumFunction(f) + (g[c] - f[c])
  <2>1. f \in [S -> Int] /\ g \in [S -> Int]
    BY <1>1
  <2> QED BY <2>1, <1>1, SumChange
<1>3. SumFunction(g) \in Nat /\ SumFunction(f) \in Nat
  BY <1>1, SumNat
<1> QED BY <1>1, <1>2, <1>3
=============================================================================
