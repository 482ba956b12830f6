------------------------------- MODULE Induction -------------------------------
(***************************************************************************)
(* Induction over the natural numbers and recursion along 0..n, stated of  *)
(* sets and functions instead of predicates and operators, so that they    *)
(* can be cited: what a recursive function of the model computes is proved *)
(* with them.  Then sums, which are such functions, and counting.          *)
(***************************************************************************)
EXTENDS Integers, WellFoundedInduction, SequenceTheorems, FiniteSetTheorems, FunctionTheorems, TLAPS

LEMMA LeastElement ==
    ASSUME NEW T, T \subseteq Nat, T # {}
    PROVE  \E x \in T : \A y \in T : x <= y
<1> DEFINE R == OpToRel(<, Nat)
<1>1. IsWellFoundedOn(R, Nat)
  BY NatLessThanWellFounded
<1>2. \A x, y \in Nat : x < y => <<x, y>> \in R
  BY SMT DEF OpToRel
<1> HIDE DEF R
<1>3. PICK x \in T : \A y \in T : ~ (<<y, x>> \in R)
  BY <1>1, WFMin
<1>4. ASSUME NEW y \in T PROVE x <= y
  <2>1. x \in Nat /\ y \in Nat
    OBVIOUS
  <2>2. ~ (y < x)
    BY <1>2, <1>3, <2>1
  <2> QED
    BY <2>1, <2>2
<1> QED
  BY <1>3, <1>4

LEMMA SetInduction ==
    ASSUME NEW T, T \subseteq Nat, 0 \in T, \A n \in T : n + 1 \in T
    PROVE  T = Nat
<1> SUFFICES ASSUME Nat \ T # {} PROVE FALSE
  OBVIOUS
<1>1. PICK x \in Nat \ T : \A y \in Nat \ T : x <= y
  BY LeastElement
<1>2. x # 0 /\ x \in Nat
  BY <1>1
<1>3. x - 1 \in Nat /\ ~(x <= x - 1) /\ (x - 1) + 1 = x
  BY <1>2
<1>4. x - 1 \in T
  BY <1>1, <1>3
<1> QED
  BY <1>1, <1>3, <1>4

(* A fact about the numbers up to n, from each to the next.                  *)
LEMMA InductionUpTo ==
    ASSUME NEW n \in Nat, NEW T, 0 \in T, \A i \in 1..n : i - 1 \in T => i \in T
    PROVE  0..n \subseteq T
<1> DEFINE U == {k \in Nat : k <= n => k \in T}
<1>1. 0 \in U
  OBVIOUS
<1>2. ASSUME NEW k \in U PROVE k + 1 \in U
  <2>1. k \in Nat /\ k + 1 \in Nat /\ (k <= n => k \in T)
    OBVIOUS
  <2>2. ASSUME k + 1 <= n PROVE k + 1 \in T
    <3>1. k + 1 \in 1..n /\ (k + 1) - 1 = k /\ k <= n
      BY <2>1, <2>2
    <3>2. (k + 1) - 1 \in T
      BY <2>1, <3>1
    <3> QED
      BY <3>1, <3>2
  <2> QED
    BY <2>1, <2>2
<1>3. U = Nat
  BY <1>1, <1>2, SetInduction
<1> QED
  BY <1>3

(* F is computed along 0..n: step tells each value from the one before.      *)
Computes(F, n, base, step) ==
    F = [i \in 0..n |-> IF i = 0 THEN base ELSE step[<<i, F[i - 1]>>]]

LEMMA RecursionExists ==
    ASSUME NEW n \in Nat, NEW base, NEW step
    PROVE  \E F : Computes(F, n, base, step)
<1> DEFINE T == {k \in Nat : \E F : Computes(F, k, base, step)}
<1>1. 0 \in T
  <2> DEFINE F == [i \in 0..0 |-> base]
  <2>1. Computes(F, 0, base, step)
    BY DEF Computes
  <2> QED
    BY <2>1
<1>2. ASSUME NEW k \in T PROVE k + 1 \in T
  <2>1. PICK F : Computes(F, k, base, step)
    OBVIOUS
  <2> DEFINE e == step[<<k + 1, F[k]>>]
             G == [i \in 0..(k + 1) |-> IF i = k + 1 THEN e ELSE F[i]]
             H == [i \in 0..(k + 1) |-> IF i = 0 THEN base ELSE step[<<i, G[i - 1]>>]]
  <2>2. ASSUME NEW i \in 0..(k + 1) PROVE G[i] = H[i]
    <3>1. CASE i = k + 1
      <4>1. i # 0 /\ i - 1 = k /\ k \in 0..(k + 1) /\ k # k + 1
        BY <3>1
      <4>2. G[k] = F[k] /\ G[i] = e /\ H[i] = step[<<i, G[k]>>]
        BY <3>1, <4>1
      <4> QED
        BY <3>1, <4>2
    <3>2. CASE i # k + 1
      <4>1. i \in 0..k /\ G[i] = F[i]
        BY <3>2
      <4>2. CASE i = 0
        BY <2>1, <4>1, <4>2 DEF Computes
      <4>3. CASE i # 0
        <5>1. i - 1 \in 0..(k + 1) /\ i - 1 # k + 1
          BY <4>1, <4>3
        <5>2. G[i - 1] = F[i - 1]
          BY <5>1
        <5>3. F[i] = step[<<i, F[i - 1]>>]
          BY <2>1, <4>1, <4>3 DEF Computes
        <5> QED
          BY <4>1, <4>3, <5>2, <5>3
      <4> QED
        BY <4>2, <4>3
    <3> QED
      BY <3>1, <3>2
  <2>3. G = H
    BY <2>2
  <2> HIDE DEF G
  <2>4. Computes(G, k + 1, base, step)
    BY <2>3 DEF Computes
  <2> QED
    BY <2>4
<1> HIDE DEF T
<1>3. T = Nat
  BY <1>1, <1>2, SetInduction DEF T
<1> QED
  BY <1>3 DEF T

LEMMA RecursionTypes ==
    ASSUME NEW n \in Nat, NEW V, NEW base \in V, NEW step \in [(1..n) \X V -> V],
           NEW F, Computes(F, n, base, step)
    PROVE  \A i \in 0..n : F[i] \in V
<1> DEFINE T == {i \in Nat : i \in 0..n => F[i] \in V}
<1>1. 0 \in T
  BY DEF Computes
<1>2. ASSUME NEW i \in 1..n, i - 1 \in T PROVE i \in T
  <2>1. i - 1 \in 0..n /\ i \in 0..n /\ i # 0 /\ i \in Nat
    OBVIOUS
  <2>2. F[i - 1] \in V /\ F[i] = step[<<i, F[i - 1]>>]
    BY <1>2, <2>1 DEF Computes
  <2>3. <<i, F[i - 1]>> \in (1..n) \X V
    BY <2>2
  <2>4. F[i] \in V
    BY <2>2, <2>3
  <2> QED
    BY <2>1, <2>4
<1> HIDE DEF T
<1>3. 0..n \subseteq T
  BY <1>1, <1>2, InductionUpTo
<1> QED
  BY <1>3 DEF T

(* Two recursions that start alike and step alike up to m agree up to m.     *)
LEMMA RecursionsAgree ==
    ASSUME NEW m \in Nat, NEW n \in Nat, m <= n, NEW V, NEW base \in V,
           NEW step \in [(1..m) \X V -> V], NEW other,
           \A i \in 1..m, x \in V : other[<<i, x>>] = step[<<i, x>>],
           NEW F, Computes(F, m, base, step), NEW G, Computes(G, n, base, other)
    PROVE  \A i \in 0..m : G[i] = F[i]
<1> DEFINE T == {i \in Nat : i \in 0..m => G[i] = F[i]}
<1>1. 0 \in T
  BY DEF Computes
<1>2. ASSUME NEW i \in 1..m, i - 1 \in T PROVE i \in T
  <2>1. i - 1 \in 0..m /\ i \in 0..m /\ i # 0 /\ i \in 0..n /\ i \in Nat
    OBVIOUS
  <2>2. F[i] = step[<<i, F[i - 1]>>]
    BY <2>1 DEF Computes
  <2>3. G[i] = other[<<i, G[i - 1]>>]
    BY <2>1 DEF Computes
  <2>4. G[i - 1] = F[i - 1] /\ F[i - 1] \in V
    BY <1>2, <2>1, RecursionTypes
  <2>5. G[i] = F[i]
    BY <2>2, <2>3, <2>4
  <2> QED
    BY <2>1, <2>5
<1> HIDE DEF T
<1>3. 0..m \subseteq T
  BY <1>1, <1>2, InductionUpTo
<1> QED
  BY <1>3 DEF T

-----------------------------------------------------------------------------
(* sums[n] is the sum of the first n numbers.                                *)
Sums(sums, s) == sums = [n \in 0..Len(s) |-> IF n = 0 THEN 0 ELSE sums[n - 1] + s[n]]

LEMMA SumsExist ==
    ASSUME NEW s \in Seq(Int)
    PROVE  \E F : Sums(F, s)
<1> DEFINE n    == Len(s)
           step == [x \in (1..n) \X Int |-> x[2] + s[x[1]]]
<1>1. n \in Nat /\ \A i \in 1..n : s[i] \in Int
  OBVIOUS
<1>2. step \in [(1..n) \X Int -> Int]
  BY <1>1
<1>3. PICK F : Computes(F, n, 0, step)
  BY <1>1, RecursionExists
<1>4. \A i \in 0..n : F[i] \in Int
  <2>1. 0 \in Int
    OBVIOUS
  <2> HIDE DEF step
  <2> QED
    BY <1>1, <1>2, <1>3, <2>1, RecursionTypes
<1>5. ASSUME NEW i \in 0..n, i # 0 PROVE step[<<i, F[i - 1]>>] = F[i - 1] + s[i]
  <2>1. i \in 1..n /\ i - 1 \in 0..n
    BY <1>1, <1>5
  <2>2. <<i, F[i - 1]>> \in (1..n) \X Int
    BY <1>4, <2>1
  <2> QED
    BY <2>2
<1> HIDE DEF step
<1>6. [i \in 0..n |-> IF i = 0 THEN 0 ELSE step[<<i, F[i - 1]>>]]
        = [i \in 0..n |-> IF i = 0 THEN 0 ELSE F[i - 1] + s[i]]
  BY <1>5
<1>7. Sums(F, s)
  BY <1>3, <1>6 DEF Computes, Sums
<1> QED
  BY <1>7

LEMMA SumsType ==
    ASSUME NEW V \in {Nat, Int}, NEW s \in Seq(V), NEW F, Sums(F, s)
    PROVE  \A i \in 0..Len(s) : F[i] \in V
<1> DEFINE T == {i \in Nat : i \in 0..Len(s) => F[i] \in V}
<1>0. 0 \in V /\ \A a, b \in V : a + b \in V
  OBVIOUS
<1>1. 0 \in T
  BY <1>0 DEF Sums
<1>2. ASSUME NEW i \in 1..Len(s), i - 1 \in T PROVE i \in T
  <2>1. i - 1 \in 0..Len(s) /\ i \in 0..Len(s) /\ i # 0 /\ i \in Nat
    OBVIOUS
  <2>2. F[i - 1] \in V /\ s[i] \in V
    BY <1>2, <2>1
  <2>3. F[i] = F[i - 1] + s[i]
    BY <2>1 DEF Sums
  <2>4. F[i] \in V
    BY <1>0, <2>2, <2>3
  <2> QED
    BY <2>1, <2>4
<1>3. Len(s) \in Nat /\ T \subseteq Nat
  OBVIOUS
<1> HIDE DEF T
<1>4. 0..Len(s) \subseteq T
  BY <1>1, <1>2, <1>3, InductionUpTo
<1> QED
  BY <1>4 DEF T

-----------------------------------------------------------------------------
(* What f renames is as many. *)
LEMMA SameNumber ==
    ASSUME NEW S, IsFiniteSet(S), NEW T, NEW f \in [S -> T],
           \A a, b \in S : f[a] = f[b] => a = b,
           \A t \in T : \E s \in S : f[s] = t
    PROVE  IsFiniteSet(T) /\ Cardinality(T) = Cardinality(S)
<1>1. f \in Bijection(S, T)
  BY Fun_IsBij
<1> QED
  BY <1>1, FS_Bijection DEF ExistsBijection

(* Where a sequence has a member of K, and how often. *)
Where(s, K) == {i \in DOMAIN s : s[i] \in K}
Occ(s, K) == Cardinality(Where(s, K))

LEMMA OccFacts ==
    ASSUME NEW V, NEW s \in Seq(V), NEW K
    PROVE  /\ IsFiniteSet(Where(s, K)) /\ Occ(s, K) \in Nat
           /\ (\A i \in DOMAIN s : s[i] \in K) => Occ(s, K) = Len(s)
           /\ (\A i \in DOMAIN s : s[i] \notin K) => Occ(s, K) = 0
<1>1. Len(s) \in Nat /\ DOMAIN s = 1..Len(s)
  OBVIOUS
<1>2. IsFiniteSet(1..Len(s)) /\ Cardinality(1..Len(s)) = Len(s)
  BY <1>1, FS_Interval
<1>3. Where(s, K) \in SUBSET (1..Len(s))
  BY <1>1 DEF Where
<1>4. IsFiniteSet(Where(s, K)) /\ Occ(s, K) \in Nat
  BY <1>2, <1>3, FS_Subset, FS_CardinalityType DEF Occ
<1>5. ASSUME \A i \in DOMAIN s : s[i] \in K PROVE Where(s, K) = 1..Len(s)
  BY <1>1, <1>5 DEF Where
<1>6. ASSUME \A i \in DOMAIN s : s[i] \notin K PROVE Where(s, K) = {}
  BY <1>6 DEF Where
<1> QED
  BY <1>2, <1>4, <1>5, <1>6, FS_EmptySet DEF Occ

LEMMA OccConcat ==
    ASSUME NEW V, NEW s \in Seq(V), NEW t \in Seq(V), NEW K
    PROVE  s \o t \in Seq(V) /\ Occ(s \o t, K) = Occ(s, K) + Occ(t, K)
<1> DEFINE n == Len(s)
           m == Len(t)
           u == s \o t
           B == {j \in (n + 1)..(n + m) : t[j - n] \in K}
           f == [j \in Where(t, K) |-> n + j]
<1>1. /\ n \in Nat /\ m \in Nat /\ DOMAIN s = 1..n /\ DOMAIN t = 1..m
      /\ u \in Seq(V) /\ Len(u) = n + m /\ DOMAIN u = 1..(n + m)
      /\ \A i \in 1..n : u[i] = s[i]
      /\ \A i \in (n + 1)..(n + m) : u[i] = t[i - n]
  OBVIOUS
<1> HIDE DEF n, m, u
<1>2. Where(u, K) = Where(s, K) \cup B
  <2>1. \A i \in 1..(n + m) : i \in 1..n \/ i \in (n + 1)..(n + m)
    BY <1>1
  <2>2. \A i \in 1..n : i \in 1..(n + m)
    BY <1>1
  <2>3. \A i \in (n + 1)..(n + m) : i \in 1..(n + m)
    BY <1>1
  <2> QED
    BY <1>1, <2>1, <2>2, <2>3 DEF Where
<1>3. Where(s, K) \cap B = {}
  <2>1. \A i \in 1..n : i \notin (n + 1)..(n + m)
    BY <1>1
  <2> QED
    BY <1>1, <2>1 DEF Where
<1>4. IsFiniteSet(Where(s, K)) /\ IsFiniteSet(Where(t, K))
  BY OccFacts
<1>5. Occ(s, K) \in Nat /\ Occ(t, K) \in Nat
  BY OccFacts
<1>6. IsFiniteSet(B) /\ Cardinality(B) = Occ(t, K)
  <2>1. f \in [Where(t, K) -> B]
    <3>1. ASSUME NEW j \in Where(t, K) PROVE n + j \in B
      <4>1. j \in 1..m /\ t[j] \in K
        BY <1>1 DEF Where
      <4>2. n + j \in (n + 1)..(n + m) /\ (n + j) - n = j
        BY <1>1, <4>1
      <4> QED
        BY <4>1, <4>2
    <3> QED
      BY <3>1
  <2>2. \A a, b \in Where(t, K) : f[a] = f[b] => a = b
    BY <1>1 DEF Where
  <2>3. ASSUME NEW b \in B PROVE \E j \in Where(t, K) : f[j] = b
    <3>1. b - n \in 1..m /\ t[b - n] \in K /\ n + (b - n) = b
      BY <1>1
    <3>2. b - n \in Where(t, K)
      BY <1>1, <3>1 DEF Where
    <3> QED
      BY <3>1, <3>2
  <2> HIDE DEF f, B
  <2> QED
    BY <1>4, <2>1, <2>2, <2>3, SameNumber DEF Occ
<1> HIDE DEF B
<1>7. Cardinality(Where(s, K) \cup B)
        = Cardinality(Where(s, K)) + Cardinality(B) - Cardinality(Where(s, K) \cap B)
  BY <1>4, <1>6, FS_Union
<1>8. Cardinality(Where(s, K) \cap B) = 0
  BY <1>3, FS_EmptySet
<1>9. Occ(u, K) = Occ(s, K) + Occ(t, K)
  BY <1>2, <1>5, <1>6, <1>7, <1>8 DEF Occ
<1> QED
  BY <1>1, <1>9 DEF u

LEMMA OccPermuted ==
    ASSUME NEW V, NEW s \in Seq(V), NEW p \in [DOMAIN s -> DOMAIN s],
           \A a, b \in DOMAIN s : p[a] = p[b] => a = b, NEW K
    PROVE  /\ [i \in DOMAIN s |-> s[p[i]]] \in Seq(V)
           /\ Occ([i \in DOMAIN s |-> s[p[i]]], K) = Occ(s, K)
<1> DEFINE t == [i \in DOMAIN s |-> s[p[i]]]
           D == DOMAIN s
           f == [i \in Where(t, K) |-> p[i]]
<1>1. Len(s) \in Nat /\ D = 1..Len(s) /\ IsFiniteSet(D)
  <2>1. Len(s) \in Nat /\ D = 1..Len(s)
    OBVIOUS
  <2> QED
    BY <2>1, FS_Interval
<1>2. t \in Seq(V)
  BY <1>1
<1>3. p \in Injection(D, D)
  BY Fun_IsInj
<1>4. p \in Surjection(D, D)
  BY <1>1, <1>3, FS_Injection
<1>5. \A y \in D : \E x \in D : p[x] = y
  BY <1>4, Fun_SurjectionProperties
<1>6. DOMAIN t = D /\ \A i \in D : t[i] = s[p[i]]
  OBVIOUS
<1> HIDE DEF t
<1>7. f \in [Where(t, K) -> Where(s, K)]
  BY <1>6 DEF Where
<1>8. \A a, b \in Where(t, K) : f[a] = f[b] => a = b
  BY <1>6 DEF Where
<1>9. \A y \in Where(s, K) : \E x \in Where(t, K) : f[x] = y
  BY <1>5, <1>6 DEF Where
<1>10. IsFiniteSet(Where(t, K))
  BY <1>2, OccFacts
<1> HIDE DEF f
<1>11. Occ(t, K) = Occ(s, K)
  BY <1>7, <1>8, <1>9, <1>10, SameNumber DEF Occ
<1> QED
  BY <1>2, <1>11 DEF t

(* The k last of a set of numbers: those that fewer than k come after. *)
LEMMA LastOnes ==
    ASSUME NEW S, S \subseteq Nat, IsFiniteSet(S), NEW k \in 0..Cardinality(S)
    PROVE  Cardinality({i \in S : Cardinality({j \in S : j > i}) < k}) = k
<1> DEFINE After(i) == {j \in S : j > i}
           n == Cardinality(S)
           rank == [i \in S |-> Cardinality(After(i))]
           L == {i \in S : Cardinality(After(i)) < k}
           f == [i \in L |-> rank[i]]
<1>1. n \in Nat /\ k \in Nat /\ k <= n
  <2>1. n \in Nat
    BY FS_CardinalityType
  <2> QED
    BY <2>1
<1>2. ASSUME NEW i \in S
      PROVE  IsFiniteSet(After(i)) /\ rank[i] = Cardinality(After(i)) /\ rank[i] \in 0..(n - 1)
  <2>1. After(i) \in SUBSET S /\ After(i) # S
    <3>1. i \notin After(i)
      BY <1>2
    <3> QED
      BY <3>1
  <2>2. IsFiniteSet(After(i)) /\ Cardinality(After(i)) <= n /\ Cardinality(After(i)) # n
    BY <2>1, FS_Subset
  <2>3. Cardinality(After(i)) \in Nat
    BY <2>2, FS_CardinalityType
  <2> QED
    BY <1>1, <2>2, <2>3
<1>3. ASSUME NEW i \in S, NEW j \in S, i < j PROVE rank[j] < rank[i]
  <2>1. After(j) \in SUBSET After(i) /\ After(j) # After(i)
    <3>1. j \in After(i) /\ j \notin After(j)
      BY <1>3
    <3>2. \A x \in After(j) : x \in After(i)
      BY <1>3
    <3> QED
      BY <3>1, <3>2
  <2>2. Cardinality(After(j)) <= Cardinality(After(i)) /\ Cardinality(After(j)) # Cardinality(After(i))
    BY <1>2, <2>1, FS_Subset
  <2>3. rank[i] = Cardinality(After(i)) /\ rank[j] = Cardinality(After(j))
    BY <1>2
  <2>4. rank[i] \in Nat /\ rank[j] \in Nat
    BY <1>1, <1>2
  <2> HIDE DEF After, rank
  <2> QED
    BY <2>2, <2>3, <2>4
<1>3a. \A i \in S : rank[i] \in Nat /\ rank[i] <= n - 1
  BY <1>1, <1>2
<1> HIDE DEF rank
<1>4. \A i, j \in S : rank[i] = rank[j] => i = j
  <2> SUFFICES ASSUME NEW i \in S, NEW j \in S, rank[i] = rank[j] PROVE i = j
    OBVIOUS
  <2>1. i \in Nat /\ j \in Nat /\ rank[i] \in Nat /\ rank[j] \in Nat
    BY <1>3a
  <2>2. ~(i < j) /\ ~(j < i)
    BY <1>3, <2>1
  <2> QED
    BY <2>1, <2>2
<1>5. rank \in [S -> 0..(n - 1)]
  BY <1>2 DEF rank
<1>6. IsFiniteSet(0..(n - 1)) /\ Cardinality(0..(n - 1)) = n
  <2>1. 0 \in Int /\ n - 1 \in Int
    BY <1>1
  <2> QED
    BY <1>1, <2>1, FS_Interval
<1>7. rank \in Injection(S, 0..(n - 1))
  BY <1>4, <1>5, Fun_IsInj
<1>8. rank \in Surjection(S, 0..(n - 1))
  BY <1>6, <1>7, FS_Injection
<1>9. \A y \in 0..(n - 1) : \E x \in S : rank[x] = y
  BY <1>8 DEF Surjection
<1>10. IsFiniteSet(L)
  <2>1. L \in SUBSET S
    OBVIOUS
  <2> QED
    BY <2>1, FS_Subset
<1>11. \A i \in S : i \in L <=> rank[i] < k
  BY <1>2
<1>12. L \subseteq S
  OBVIOUS
<1> HIDE DEF L
<1>13. f \in [L -> 0..(k - 1)]
  <2>1. ASSUME NEW i \in L PROVE rank[i] \in 0..(k - 1)
    BY <1>1, <1>3a, <1>11, <1>12
  <2> QED
    BY <2>1
<1>14. \A a, b \in L : f[a] = f[b] => a = b
  BY <1>4, <1>12
<1>15. ASSUME NEW y \in 0..(k - 1) PROVE \E x \in L : f[x] = y
  <2>1. y \in 0..(n - 1) /\ y < k
    BY <1>1
  <2>2. PICK x \in S : rank[x] = y
    BY <1>9, <2>1
  <2> QED
    BY <1>11, <2>1, <2>2
<1> HIDE DEF f
<1>16. Cardinality(0..(k - 1)) = Cardinality(L)
  BY <1>10, <1>13, <1>14, <1>15, SameNumber
<1>17. Cardinality(0..(k - 1)) = k
  <2>1. 0 \in Int /\ k - 1 \in Int
    BY <1>1
  <2> QED
    BY <1>1, <2>1, FS_Interval
<1> QED
  BY <1>16, <1>17 DEF L

=============================================================================
