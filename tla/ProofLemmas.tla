---------------------------- MODULE ProofLemmas ----------------------------
(***************************************************************************)
(* Facts about natural numbers, finite sets and recursively defined        *)
(* sequences that the component proofs share.  Induction is by least       *)
(* counterexample (LeastNat).                                              *)
(***************************************************************************)
EXTENDS Integers, Sequences, FiniteSets, Sums, FiniteSetTheorems,
        WellFoundedInduction, TLAPS

\* A non-empty set of naturals has a least element.
LEMMA LeastNat ==
  ASSUME NEW T, T \subseteq Nat, T # {}
  PROVE  \E x \in T : \A y \in T : x <= y
<1> DEFINE R == {ss \in Nat \X Nat : ss[1] < ss[2]}
<1>1. IsWellFoundedOn(R, Nat)
  BY NatLessThanWellFounded, Zenon DEF OpToRel
<1>2. \A x, y \in Nat : x < y => <<x, y>> \in R
  OBVIOUS
<1> HIDE DEF R
<1>3. PICK x \in T : \A y \in T : ~ (<<y, x>> \in R)
  BY <1>1, WFMin, Zenon
<1>4. \A y \in T : ~(y < x)
  BY <1>2, <1>3
<1>5. \A y \in T : x <= y
  BY <1>4
<1>6. QED BY <1>5

\* Induction over 0 .. n: a set that holds 0 and is closed under successor.
LEMMA IntervalInduction ==
  ASSUME NEW n \in Nat, NEW G, 0 \in G,
         \A i \in 0 .. n : i # n /\ i \in G => i + 1 \in G
  PROVE  \A i \in 0 .. n : i \in G
<1> DEFINE Bad == {i \in 0 .. n : i \notin G}
<1>1. SUFFICES ASSUME Bad # {} PROVE FALSE
  OBVIOUS
<1>2. Bad \subseteq Nat
  OBVIOUS
<1>3. PICK x \in Bad : \A y \in Bad : x <= y
  BY <1>1, <1>2, LeastNat, Zenon
<1>4. x \in 0 .. n /\ x # 0
  BY <1>3
<1>5. x - 1 \in 0 .. n /\ x - 1 # n /\ x - 1 \notin Bad
  BY <1>3, <1>4
<1>6. x - 1 \in G
  BY <1>5
<1>7. (x - 1) + 1 \in G
  BY <1>5, <1>6
<1>8. x \in G
  BY <1>4, <1>7
<1>9. QED BY <1>3, <1>8

\* A non-empty subset of 1 .. n has a greatest element.
LEMMA GreatestInInterval ==
  ASSUME NEW n \in Nat, NEW S, S \subseteq 1 .. n, S # {}
  PROVE  \E x \in S : \A y \in S : y <= x
<1> DEFINE T == {n - y : y \in S}
<1>0. PICK y0 \in S : TRUE
  OBVIOUS
<1>a. \A y \in S : n - y \in Nat
  OBVIOUS
<1>b. n - y0 \in T
  BY <1>0
<1>1. T \subseteq Nat /\ T # {}
  BY <1>a, <1>b
<1>2. PICK z \in T : \A w \in T : z <= w
  BY <1>1, LeastNat, Zenon
<1>3. PICK x \in S : z = n - x
  BY <1>2
<1>4. \A y \in S : n - x <= n - y
  BY <1>2, <1>3
<1>5. \A y \in S : y <= x
  BY <1>4
<1>6. QED BY <1>5

-----------------------------------------------------------------------------
(***************************************************************************)
(* Sums over 1 .. n.                                                       *)
(***************************************************************************)
SumStep(F, f, i) == IF i = 0 THEN 0 ELSE F[i - 1] + f[i]

SumFn(f, n) == CHOOSE F : F = [i \in 0 .. n |-> SumStep(F, f, i)]

\* SumTo reads its result off the recursive function.
LEMMA SumIsFn == \A f, n : SumTo(f, n) = SumFn(f, n)[n]
  BY DEF SumTo, SumFn, SumStep

\* The recursion of SumTo has a solution, and SumFn is one.
LEMMA SumFnExists ==
  ASSUME NEW f, NEW n \in Nat
  PROVE  SumFn(f, n) = [i \in 0 .. n |-> SumStep(SumFn(f, n), f, i)]
<1> DEFINE G == {k \in 0 .. n : \E F : F = [i \in 0 .. k |-> SumStep(F, f, i)]}
<1>1. 0 \in G
  <2> DEFINE F0 == [i \in 0 .. 0 |-> 0]
  <2>1. F0 = [i \in 0 .. 0 |-> SumStep(F0, f, i)]
    BY DEF SumStep
  <2>2. QED BY <2>1
<1>2. ASSUME NEW k \in 0 .. n, k # n, k \in G PROVE k + 1 \in G
  <2>1. PICK F : F = [i \in 0 .. k |-> SumStep(F, f, i)]
    BY <1>2
  <2> DEFINE H == [i \in 0 .. k + 1 |-> IF i <= k THEN F[i] ELSE SumStep(F, f, i)]
  <2>2. \A i \in 0 .. k : H[i] = F[i]
    OBVIOUS
  <2>3. ASSUME NEW i \in 0 .. k + 1 PROVE H[i] = SumStep(H, f, i)
    <3>1. i = 0 \/ (i - 1 \in 0 .. k /\ H[i - 1] = F[i - 1])
      BY <2>2
    <3>2. SumStep(H, f, i) = SumStep(F, f, i)
      BY <3>1 DEF SumStep
    <3>3. CASE i <= k
      BY <2>1, <2>2, <3>2, <3>3
    <3>4. CASE ~ (i <= k)
      BY <3>2, <3>4
    <3>5. QED BY <3>3, <3>4
  <2>4. H = [i \in 0 .. k + 1 |-> SumStep(H, f, i)]
    BY <2>3
  <2>5. k + 1 \in 0 .. n
    BY <1>2
  <2> HIDE DEF H
  <2>6. \E X : X = [i \in 0 .. k + 1 |-> SumStep(X, f, i)]
    BY <2>4
  <2>7. QED BY <2>5, <2>6
<1>3. n \in 0 .. n
  OBVIOUS
<1> HIDE DEF G
<1>4. n \in G
  BY <1>1, <1>2, <1>3, IntervalInduction
<1>5. \E F : F = [i \in 0 .. n |-> SumStep(F, f, i)]
  BY <1>4 DEF G
<1>6. QED BY <1>5 DEF SumFn

\* One unfolding of the sum.
LEMMA SumUnfold ==
  ASSUME NEW f, NEW n \in Nat
  PROVE  /\ SumFn(f, n)[0] = 0
         /\ \A k \in 0 .. n : k # n =>
               SumFn(f, n)[k + 1] = SumFn(f, n)[k] + f[k + 1]
<1> DEFINE F == SumFn(f, n)
<1>1. F = [i \in 0 .. n |-> SumStep(F, f, i)]
  BY SumFnExists
<1> HIDE DEF F
<1>2. \A i \in 0 .. n : F[i] = SumStep(F, f, i)
  BY <1>1
<1>3. QED BY <1>2 DEF SumStep, F

\* A sum of naturals is a natural, and no smaller than any of its terms.
LEMMA SumNat ==
  ASSUME NEW n \in Nat, NEW f, \A i \in 1 .. n : f[i] \in Nat
  PROVE  SumTo(f, n) \in Nat /\ \A i \in 1 .. n : f[i] <= SumTo(f, n)
<1> DEFINE F == SumFn(f, n)
           G == {k \in 0 .. n : F[k] \in Nat /\ \A i \in 1 .. k : f[i] <= F[k]}
<1>1. F[0] = 0 /\ \A k \in 0 .. n : k # n => F[k + 1] = F[k] + f[k + 1]
  BY SumUnfold
<1> HIDE DEF F
<1>2. 0 \in G
  BY <1>1
<1>3. ASSUME NEW k \in 0 .. n, k # n, k \in G PROVE k + 1 \in G
  <2>1. F[k + 1] = F[k] + f[k + 1] /\ f[k + 1] \in Nat /\ F[k] \in Nat /\ k + 1 \in 0 .. n
    BY <1>1, <1>3
  <2>2. ASSUME NEW i \in 1 .. k + 1 PROVE f[i] <= F[k + 1]
    <3>1. CASE i = k + 1
      BY <2>1, <3>1
    <3>2. CASE i # k + 1
      <4>1. i \in 1 .. k /\ f[i] \in Nat
        BY <3>2, <1>3
      <4>2. f[i] <= F[k]
        BY <4>1, <1>3
      <4>3. QED BY <4>1, <4>2, <2>1
    <3>3. QED BY <3>1, <3>2
  <2>3. QED BY <2>1, <2>2
<1>4. n \in 0 .. n
  OBVIOUS
<1> HIDE DEF G
<1>5. n \in G
  BY <1>2, <1>3, <1>4, IntervalInduction
<1>6. QED BY <1>5, SumIsFn DEF F, G

\* The sum of two functions, term by term.
LEMMA SumSplit ==
  ASSUME NEW n \in Nat, NEW f, NEW g, NEW h,
         \A i \in 1 .. n : f[i] \in Nat /\ g[i] \in Nat /\ h[i] = f[i] + g[i]
  PROVE  SumTo(h, n) = SumTo(f, n) + SumTo(g, n)
<1> DEFINE F == SumFn(f, n)
           H == SumFn(g, n)
           J == SumFn(h, n)
           G == {k \in 0 .. n : F[k] \in Nat /\ H[k] \in Nat /\ J[k] = F[k] + H[k]}
<1>1. /\ F[0] = 0 /\ H[0] = 0 /\ J[0] = 0
      /\ \A k \in 0 .. n : k # n =>
          /\ F[k + 1] = F[k] + f[k + 1]
          /\ H[k + 1] = H[k] + g[k + 1]
          /\ J[k + 1] = J[k] + h[k + 1]
  BY SumUnfold
<1> HIDE DEF F, H, J
<1>2. 0 \in G
  BY <1>1
<1>3. ASSUME NEW k \in 0 .. n, k # n, k \in G PROVE k + 1 \in G
  <2>1. /\ f[k + 1] \in Nat /\ g[k + 1] \in Nat /\ h[k + 1] = f[k + 1] + g[k + 1]
        /\ k + 1 \in 0 .. n
    BY <1>3
  <2>2. QED BY <1>1, <1>3, <2>1
<1>4. n \in 0 .. n
  OBVIOUS
<1> HIDE DEF G
<1>5. n \in G
  BY <1>2, <1>3, <1>4, IntervalInduction
<1>6. QED BY <1>5, SumIsFn DEF F, H, J, G

\* Only the terms matter.
LEMMA SumAgree ==
  ASSUME NEW n \in Nat, NEW f, NEW g, \A i \in 1 .. n : f[i] = g[i]
  PROVE  SumTo(f, n) = SumTo(g, n)
<1> DEFINE F == SumFn(f, n)
           H == SumFn(g, n)
           G == {k \in 0 .. n : F[k] = H[k]}
<1>1. /\ F[0] = 0 /\ H[0] = 0
      /\ \A k \in 0 .. n : k # n =>
          /\ F[k + 1] = F[k] + f[k + 1]
          /\ H[k + 1] = H[k] + g[k + 1]
  BY SumUnfold
<1> HIDE DEF F, H
<1>2. 0 \in G
  BY <1>1
<1>3. ASSUME NEW k \in 0 .. n, k # n, k \in G PROVE k + 1 \in G
  <2>1. f[k + 1] = g[k + 1] /\ k + 1 \in 0 .. n
    BY <1>3
  <2>2. QED BY <1>1, <1>3, <2>1
<1>4. n \in 0 .. n
  OBVIOUS
<1> HIDE DEF G
<1>5. n \in G
  BY <1>2, <1>3, <1>4, IntervalInduction
<1>6. QED BY <1>5, SumIsFn DEF F, H, G

\* A sum of zeros.
LEMMA SumZero ==
  ASSUME NEW n \in Nat, NEW f, \A i \in 1 .. n : f[i] = 0
  PROVE  SumTo(f, n) = 0
<1> DEFINE x == SumTo(f, n)
<1>1. \A i \in 1 .. n : f[i] \in Nat /\ f[i] = f[i] + f[i]
  OBVIOUS
<1>2. x = x + x
  BY <1>1, SumSplit
<1>3. x \in Nat
  BY <1>1, SumNat
<1> HIDE DEF x
<1>4. x = 0
  BY <1>2, <1>3
<1>5. QED BY <1>4 DEF x

\* A sum with one term changed.
LEMMA SumChange ==
  ASSUME NEW n \in Nat, NEW f, NEW g, NEW m \in 1 .. n,
         \A i \in 1 .. n : f[i] \in Nat /\ g[i] \in Nat,
         \A i \in 1 .. n : i # m => g[i] = f[i]
  PROVE  SumTo(g, n) + f[m] = SumTo(f, n) + g[m]
<1> DEFINE F == SumFn(f, n)
           H == SumFn(g, n)
           G == {k \in 0 .. n : /\ F[k] \in Nat /\ H[k] \in Nat
                                /\ IF k < m THEN H[k] = F[k] ELSE H[k] + f[m] = F[k] + g[m]}
<1>1. /\ F[0] = 0 /\ H[0] = 0
      /\ \A k \in 0 .. n : k # n =>
          /\ F[k + 1] = F[k] + f[k + 1]
          /\ H[k + 1] = H[k] + g[k + 1]
  BY SumUnfold
<1> HIDE DEF F, H
<1>2. 0 \in G
  BY <1>1
<1>3. ASSUME NEW k \in 0 .. n, k # n, k \in G PROVE k + 1 \in G
  <2>1. /\ k + 1 \in 0 .. n /\ k + 1 \in 1 .. n /\ f[m] \in Nat /\ g[m] \in Nat
        /\ f[k + 1] \in Nat /\ g[k + 1] \in Nat
        /\ k + 1 # m => g[k + 1] = f[k + 1]
    BY <1>3
  <2>2. F[k + 1] = F[k] + f[k + 1] /\ H[k + 1] = H[k] + g[k + 1]
    BY <1>1, <1>3
  <2>3. CASE k + 1 = m
    BY <1>3, <2>1, <2>2, <2>3
  <2>4. CASE k + 1 # m
    <3>1. k + 1 < m <=> k < m
      BY <2>4
    <3>2. QED BY <1>3, <2>1, <2>2, <2>4, <3>1
  <2>5. QED BY <2>3, <2>4
<1>4. n \in 0 .. n
  OBVIOUS
<1> HIDE DEF G
<1>5. n \in G
  BY <1>2, <1>3, <1>4, IntervalInduction
<1>6. QED BY <1>5, SumIsFn DEF F, H, G

\* A non-empty set of numbered rows has one with the greatest key.
LEMMA GreatestKey ==
  ASSUME NEW n \in Nat, NEW key, \A i \in 1 .. n : key[i] \in Nat,
         NEW S, S \subseteq 1 .. n, S # {}
  PROVE  \E a \in S : \A b \in S : key[b] <= key[a]
<1> DEFINE G == {k \in 0 .. n : \/ S \cap (1 .. k) = {}
                               \/ \E a \in S \cap (1 .. k) :
                                     \A b \in S \cap (1 .. k) : key[b] <= key[a]}
<1>1. 0 \in G
  OBVIOUS
<1>2. ASSUME NEW k \in 0 .. n, k # n, k \in G PROVE k + 1 \in G
  <2>0. k + 1 \in 0 .. n /\ k + 1 \in 1 .. n /\ key[k + 1] \in Nat
        /\ \A b \in 1 .. k + 1 : b = k + 1 \/ b \in 1 .. k
    BY <1>2
  <2>1. CASE k + 1 \notin S
    <3>1. S \cap (1 .. k + 1) = S \cap (1 .. k)
      BY <2>0, <2>1
    <3>2. QED BY <1>2, <2>0, <3>1
  <2>2. CASE k + 1 \in S
    <3>1. CASE S \cap (1 .. k) = {}
      <4>1. \A b \in S \cap (1 .. k + 1) : b = k + 1
        BY <2>0, <3>1
      <4>2. k + 1 \in S \cap (1 .. k + 1) /\ \A b \in S \cap (1 .. k + 1) : key[b] <= key[k + 1]
        BY <2>0, <2>2, <4>1
      <4>3. QED BY <2>0, <4>2
    <3>2. CASE S \cap (1 .. k) # {}
      <4>1. PICK a \in S \cap (1 .. k) : \A b \in S \cap (1 .. k) : key[b] <= key[a]
        BY <1>2, <3>2
      <4>2. a \in S \cap (1 .. k + 1) /\ key[a] \in Nat
        BY <1>2, <4>1
      <4>3. CASE key[k + 1] <= key[a]
        <5>1. \A b \in S \cap (1 .. k + 1) : key[b] <= key[a]
          BY <2>0, <4>1, <4>3
        <5>2. QED BY <2>0, <4>2, <5>1
      <4>4. CASE ~ (key[k + 1] <= key[a])
        <5>1. ASSUME NEW b \in S \cap (1 .. k + 1) PROVE key[b] <= key[k + 1]
          <6>1. CASE b = k + 1
            BY <6>1, <2>0
          <6>2. CASE b \in 1 .. k
            <7>1. key[b] <= key[a] /\ key[b] \in Nat
              BY <6>2, <4>1, <1>2
            <7>2. QED BY <7>1, <4>2, <4>4, <2>0
          <6>3. QED BY <6>1, <6>2, <2>0
        <5>2. k + 1 \in S \cap (1 .. k + 1)
          BY <2>0, <2>2
        <5>3. QED BY <2>0, <5>1, <5>2
      <4>5. QED BY <4>3, <4>4
    <3>3. QED BY <3>1, <3>2
  <2>3. QED BY <2>1, <2>2
<1>a. n \in 0 .. n
  OBVIOUS
<1>b. S \cap (1 .. n) = S
  OBVIOUS
<1>3. n \in 0 .. n /\ S \cap (1 .. n) = S
  BY <1>a, <1>b
<1> HIDE DEF G
<1>4. n \in G
  BY <1>1, <1>2, <1>3, IntervalInduction
<1>5. QED BY <1>3, <1>4 DEF G

\* How many numbers of a set come before one: its place in the sorted set.
RankIn(S, a) == Cardinality({b \in S : b < a})

\* The ranks in a finite set of numbers are below its size, and rise.
LEMMA RanksRise ==
  ASSUME NEW S, S \subseteq Int, IsFiniteSet(S)
  PROVE  /\ Cardinality(S) \in Nat
         /\ \A a \in S : RankIn(S, a) \in 0 .. Cardinality(S) - 1
         /\ \A a, b \in S : a < b => RankIn(S, a) < RankIn(S, b)
<1>1. Cardinality(S) \in Nat
  BY FS_CardinalityType
<1>2. ASSUME NEW A, NEW B, B \subseteq S, A \subseteq B, NEW x \in B, x \notin A
      PROVE  Cardinality(A) \in Nat /\ Cardinality(B) \in Nat /\ Cardinality(A) < Cardinality(B)
  <2>1. IsFiniteSet(B)
    BY <1>2, FS_Subset
  <2>2. IsFiniteSet(A) /\ Cardinality(A) <= Cardinality(B) /\ (Cardinality(B) = Cardinality(A) => B = A)
    BY <1>2, <2>1, FS_Subset
  <2>3. Cardinality(A) \in Nat /\ Cardinality(B) \in Nat
    BY <2>1, <2>2, FS_CardinalityType
  <2>4. Cardinality(A) # Cardinality(B)
    BY <1>2, <2>2
  <2>5. QED BY <2>2, <2>3, <2>4
<1>3. ASSUME NEW a \in S
      PROVE  RankIn(S, a) \in 0 .. Cardinality(S) - 1
  <2> DEFINE A == {b \in S : b < a}
  <2>1. A \subseteq S /\ a \notin A
    OBVIOUS
  <2>2. Cardinality(A) \in Nat /\ Cardinality(A) < Cardinality(S)
    BY <1>2, <2>1
  <2>3. RankIn(S, a) = Cardinality(A)
    BY DEF RankIn
  <2> HIDE DEF A
  <2>4. QED BY <1>1, <2>2, <2>3
<1>4. ASSUME NEW a \in S, NEW b \in S, a < b
      PROVE  RankIn(S, a) < RankIn(S, b)
  <2> DEFINE A == {c \in S : c < a}
             B == {c \in S : c < b}
  <2>0. a \in Int /\ b \in Int /\ \A c \in S : c \in Int
    OBVIOUS
  <2>1. B \subseteq S /\ A \subseteq B /\ a \in B /\ a \notin A
    <3>1. \A c \in S : c < a => c < b
      BY <1>4, <2>0
    <3>2. ~ (a < a)
      BY <2>0
    <3>3. QED BY <1>4, <3>1, <3>2
  <2> HIDE DEF A, B
  <2>2. Cardinality(A) < Cardinality(B)
    BY <1>2, <2>1
  <2>3. QED BY <2>2 DEF RankIn, A, B
<1>5. QED BY <1>1, <1>3, <1>4

\* Each rank below the size is that of exactly one number.
LEMMA RanksFill ==
  ASSUME NEW S, S \subseteq Int, IsFiniteSet(S)
  PROVE  /\ Cardinality(S) \in Nat
         /\ \A a \in S : RankIn(S, a) \in 0 .. Cardinality(S) - 1
         /\ \A a, b \in S : RankIn(S, a) = RankIn(S, b) => a = b
         /\ \A k \in 0 .. Cardinality(S) - 1 : \E a \in S : RankIn(S, a) = k
<1> DEFINE n == Cardinality(S)
           f == [a \in S |-> RankIn(S, a)]
           R == {f[a] : a \in S}
<1>1. /\ n \in Nat
      /\ \A a \in S : f[a] \in 0 .. n - 1
      /\ \A a, b \in S : f[a] = f[b] => a = b
  <2>1. \A a, b \in S : a < b => f[a] < f[b]
    BY RanksRise
  <2>2. \A a \in S : f[a] \in 0 .. n - 1
    BY RanksRise
  <2>3. n \in Nat
    BY RanksRise
  <2> HIDE DEF f, n
  <2>4. ASSUME NEW a \in S, NEW b \in S, f[a] = f[b] PROVE a = b
    <3>1. a \in Int /\ b \in Int /\ f[a] \in Int /\ f[b] \in Int
      BY <2>2
    <3>2. QED BY <2>1, <2>4, <3>1
  <2>5. QED BY <2>2, <2>3, <2>4
<1>2. f \in Bijection(S, R)
  BY <1>1 DEF Bijection, Injection, Surjection, IsInjective
<1>3. Cardinality(R) = n
  BY <1>2, FS_Bijection DEF ExistsBijection
<1>4. R = 0 .. n - 1
  <2>1. R \subseteq 0 .. n - 1
    BY <1>1
  <2> HIDE DEF R, n
  <2>2. IsFiniteSet(0 .. n - 1) /\ Cardinality(0 .. n - 1) = n
    BY <1>1, FS_Interval
  <2>3. QED BY <1>3, <2>1, <2>2, FS_Subset
<1>5. QED BY <1>1, <1>4
=============================================================================
