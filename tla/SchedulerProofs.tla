--------------------------- MODULE SchedulerProofs ---------------------------
(***************************************************************************)
(* Proofs about Scheduler, for every number of nodes, tasks, slots and     *)
(* units.  The invariant is stated on the node table (an ordinary record), *)
(* so that the edits a call strings together are each proved once and then *)
(* composed.  At the end, proofs about the ledger of base documents of     *)
(* Releases, stated on the ledger record in the same way, about the        *)
(* supervisor that watches the scheduler's tasks, and about the helper     *)
(* that starts its confined programs.                                      *)
(***************************************************************************)
EXTENDS Scheduler, Releases, Supervisor, Helper, ProofLemmas, SequenceTheorems

-----------------------------------------------------------------------------
\* Retain: existence of the recursive function it is read off from.
RetainStep(F, q, K, i) ==
    IF i = 0 THEN << >>
    ELSE IF q[i] \in K THEN Append(F[i - 1], q[i]) ELSE F[i - 1]

RetainFn(q, K) == CHOOSE F : F = [i \in 0 .. Len(q) |-> RetainStep(F, q, K, i)]

\* Retain reads its result off that function.
LEMMA RetainIsFn == \A q, K : Retain(q, K) = RetainFn(q, K)[Len(q)]
  BY DEF Retain, RetainFn, RetainStep

\* The recursion of Retain has a solution, and RetainFn is one.
LEMMA RetainFnExists ==
  ASSUME NEW q, NEW K, Len(q) \in Nat
  PROVE  RetainFn(q, K) = [i \in 0 .. Len(q) |-> RetainStep(RetainFn(q, K), q, K, i)]
<1> DEFINE n == Len(q)
           G == {k \in 0 .. n : \E F : F = [i \in 0 .. k |-> RetainStep(F, q, K, i)]}
<1>1. 0 \in G
  <2> DEFINE F0 == [i \in 0 .. 0 |-> << >>]
  <2>1. F0 = [i \in 0 .. 0 |-> RetainStep(F0, q, K, i)]
    BY DEF RetainStep
  <2>2. QED BY <2>1
<1>2. ASSUME NEW k \in 0 .. n, k # n, k \in G PROVE k + 1 \in G
  <2>1. PICK F : F = [i \in 0 .. k |-> RetainStep(F, q, K, i)]
    BY <1>2
  <2> DEFINE H == [i \in 0 .. k + 1 |-> IF i <= k THEN F[i] ELSE RetainStep(F, q, K, i)]
  <2>2. \A i \in 0 .. k : H[i] = F[i]
    OBVIOUS
  <2>3. ASSUME NEW i \in 0 .. k + 1 PROVE H[i] = RetainStep(H, q, K, i)
    <3>1. i = 0 \/ (i - 1 \in 0 .. k /\ H[i - 1] = F[i - 1])
      BY <2>2
    <3>2. RetainStep(H, q, K, i) = RetainStep(F, q, K, i)
      BY <3>1 DEF RetainStep
    <3>3. CASE i <= k
      BY <2>1, <2>2, <3>2, <3>3
    <3>4. CASE ~ (i <= k)
      BY <3>2, <3>4
    <3>5. QED BY <3>3, <3>4
  <2>4. H = [i \in 0 .. k + 1 |-> RetainStep(H, q, K, i)]
    BY <2>3
  <2>5. k + 1 \in 0 .. n
    BY <1>2
  <2> HIDE DEF H
  <2>6. \E X : X = [i \in 0 .. k + 1 |-> RetainStep(X, q, K, i)]
    BY <2>4
  <2>7. QED BY <2>5, <2>6
<1>3. n \in 0 .. n
  OBVIOUS
<1> HIDE DEF G
<1>4. n \in G
  BY <1>1, <1>2, <1>3, IntervalInduction
<1>5. \E F : F = [i \in 0 .. n |-> RetainStep(F, q, K, i)]
  BY <1>4 DEF G
<1>6. QED BY <1>5 DEF RetainFn

\* Retain keeps exactly the members of K, and no duplicates appear.
LEMMA RetainFacts ==
  ASSUME NEW S, NEW q \in Seq(S), NEW K
  PROVE  /\ Retain(q, K) \in Seq(S)
         /\ \A i \in DOMAIN Retain(q, K) :
               Retain(q, K)[i] \in K /\ \E j \in DOMAIN q : Retain(q, K)[i] = q[j]
         /\ \A j \in DOMAIN q :
               q[j] \in K => \E i \in DOMAIN Retain(q, K) : Retain(q, K)[i] = q[j]
         /\ (\A i, j \in DOMAIN q : q[i] = q[j] => i = j)
              => \A i, j \in DOMAIN Retain(q, K) :
                    Retain(q, K)[i] = Retain(q, K)[j] => i = j
<1> DEFINE n == Len(q)
           F == RetainFn(q, K)
           Kept(r, k) ==
             /\ r \in Seq(S)
             /\ \A i \in DOMAIN r : r[i] \in K /\ \E j \in 1 .. k : r[i] = q[j]
             /\ \A j \in 1 .. k : q[j] \in K => \E i \in DOMAIN r : r[i] = q[j]
             /\ (\A i, j \in DOMAIN q : q[i] = q[j] => i = j)
                  => \A i, j \in DOMAIN r : r[i] = r[j] => i = j
           G == {k \in 0 .. n : Kept(F[k], k)}
<1>0. n \in Nat /\ DOMAIN q = 1 .. n
  OBVIOUS
<1>1. \A k \in 0 .. n : F[k] = RetainStep(F, q, K, k)
  BY <1>0, RetainFnExists
<1> HIDE DEF F
<1>2. 0 \in G
  <2>1. F[0] = << >>
    BY <1>0, <1>1 DEF RetainStep
  <2>2. DOMAIN << >> = {} /\ 1 .. 0 = {} /\ << >> \in Seq(S) /\ 0 \in 0 .. n
    BY <1>0
  <2>3. Kept(<< >>, 0)
    BY <2>2, Zenon
  <2> HIDE DEF Kept
  <2>4. Kept(F[0], 0)
    BY <2>1, <2>3
  <2>5. QED BY <2>2, <2>4
<1> HIDE DEF Kept, G
<1>3. ASSUME NEW k \in 0 .. n, k # n, k \in G PROVE k + 1 \in G
  <2>0. n \in Nat /\ k \in 0 .. n /\ k # n
    BY <1>0, <1>3
  <2> HIDE DEF n
  <2>1. k + 1 \in 0 .. n /\ k + 1 \in 1 .. n /\ k + 1 # 0 /\ (k + 1) - 1 = k
    BY <2>0
  <2>2. F[k + 1] = IF q[k + 1] \in K THEN Append(F[k], q[k + 1]) ELSE F[k]
    BY <1>1, <2>1 DEF RetainStep
  <2>3. Kept(F[k], k)
    BY <1>3 DEF G
  <2>4. CASE q[k + 1] \notin K
    <3>1. F[k + 1] = F[k]
      BY <2>2, <2>4
    <3>2. Kept(F[k], k + 1)
      BY <2>1, <2>3, <2>4, <1>0 DEF Kept
    <3>3. QED BY <3>1, <3>2, <2>1 DEF G
  <2>5. CASE q[k + 1] \in K
    <3> DEFINE r == F[k]
               r1 == Append(r, q[k + 1])
    <3>1. F[k + 1] = r1
      BY <2>2, <2>5
    <3>a. q[k + 1] \in S
      BY <2>1 DEF n
    <3>2. r \in Seq(S) /\ q[k + 1] \in S
      BY <2>3, <3>a DEF Kept
    <3>3. r1 \in Seq(S) /\ Len(r1) = Len(r) + 1 /\ DOMAIN r1 = 1 .. Len(r) + 1
          /\ DOMAIN r = 1 .. Len(r) /\ Len(r) \in Nat
      BY <3>2
    <3>4. r1[Len(r) + 1] = q[k + 1] /\ \A i \in 1 .. Len(r) : r1[i] = r[i]
      BY <3>2
    <3> HIDE DEF r, r1
    <3>5. \A i \in DOMAIN r1 : r1[i] \in K /\ \E j \in 1 .. k + 1 : r1[i] = q[j]
      <4> SUFFICES ASSUME NEW i \in DOMAIN r1
                   PROVE  r1[i] \in K /\ \E j \in 1 .. k + 1 : r1[i] = q[j]
        OBVIOUS
      <4>1. CASE i = Len(r) + 1
        BY <4>1, <3>4, <2>1, <2>5
      <4>2. CASE i # Len(r) + 1
        <5>1. i \in DOMAIN r /\ r1[i] = r[i]
          BY <4>2, <3>3, <3>4
        <5>2. r[i] \in K /\ \E j \in 1 .. k : r[i] = q[j]
          BY <5>1, <2>3 DEF Kept, r
        <5>3. QED BY <5>1, <5>2
      <4>3. QED BY <4>1, <4>2
    <3>6. \A j \in 1 .. k + 1 : q[j] \in K => \E i \in DOMAIN r1 : r1[i] = q[j]
      <4> SUFFICES ASSUME NEW j \in 1 .. k + 1, q[j] \in K
                   PROVE  \E i \in DOMAIN r1 : r1[i] = q[j]
        OBVIOUS
      <4>1. CASE j = k + 1
        BY <4>1, <3>3, <3>4
      <4>2. CASE j # k + 1
        <5>1. j \in 1 .. k
          BY <4>2
        <5>2. PICK i \in DOMAIN r : r[i] = q[j]
          BY <5>1, <2>3 DEF Kept, r
        <5>3. QED BY <5>2, <3>3, <3>4
      <4>3. QED BY <4>1, <4>2
    <3>7. ASSUME \A i, j \in DOMAIN q : q[i] = q[j] => i = j,
                 NEW i \in DOMAIN r1, NEW j \in DOMAIN r1, r1[i] = r1[j]
          PROVE  i = j
      <4>1. \A a, b \in DOMAIN r : r[a] = r[b] => a = b
        BY <3>7, <2>3 DEF Kept, r
      <4>2. \A a \in DOMAIN r : r[a] # q[k + 1]
        <5> SUFFICES ASSUME NEW a \in DOMAIN r, r[a] = q[k + 1] PROVE FALSE
          OBVIOUS
        <5>1. PICK b \in 1 .. k : r[a] = q[b]
          BY <2>3 DEF Kept, r
        <5>2. b \in DOMAIN q /\ k + 1 \in DOMAIN q /\ q[b] = q[k + 1]
          BY <5>1, <2>1, <1>0
        <5>3. b = k + 1
          BY <5>2, <3>7
        <5>4. QED BY <5>1, <5>3, <2>1
      <4>3. QED BY <3>3, <3>4, <3>7, <4>1, <4>2
    <3>8. Kept(r1, k + 1)
      BY <3>3, <3>5, <3>6, <3>7 DEF Kept
    <3>9. QED BY <3>1, <3>8, <2>1 DEF G
  <2>6. QED BY <2>4, <2>5
<1>4. n \in 0 .. n
  BY <1>0
<1>5. n \in G
  BY <1>0, <1>2, <1>3, <1>4, IntervalInduction
<1>6. Kept(F[n], n)
  BY <1>5 DEF G
<1>7. Retain(q, K) = F[n]
  BY RetainIsFn DEF F
<1> HIDE DEF F
<1>8. QED BY <1>0, <1>6, <1>7 DEF Kept

-----------------------------------------------------------------------------
\* UnitsOf: the same argument for the sum over the node table.
UnitsStep(F, u, N, i) ==
    IF i = 0 THEN 0 ELSE F[i - 1] + (IF i \in N THEN u[i] ELSE 0)

UnitsFn(u, N) == CHOOSE F : F = [i \in 0 .. MaxNodes |-> UnitsStep(F, u, N, i)]

\* UnitsOf reads its result off that function.
LEMMA UnitsIsFn == \A s, N : UnitsOf(s, N) = UnitsFn(s.units, N)[MaxNodes]
  BY DEF UnitsOf, UnitsFn, UnitsStep

\* The recursion of UnitsOf has a solution, and UnitsFn is one.
LEMMA UnitsFnExists ==
  ASSUME NEW u, NEW N
  PROVE  UnitsFn(u, N) = [i \in 0 .. MaxNodes |-> UnitsStep(UnitsFn(u, N), u, N, i)]
<1> DEFINE n == MaxNodes
           G == {k \in 0 .. n : \E F : F = [i \in 0 .. k |-> UnitsStep(F, u, N, i)]}
<1>0. n \in Nat
  BY SchedulerAssumption
<1>1. 0 \in G
  <2> DEFINE F0 == [i \in 0 .. 0 |-> 0]
  <2>1. F0 = [i \in 0 .. 0 |-> UnitsStep(F0, u, N, i)]
    BY DEF UnitsStep
  <2>2. QED BY <2>1, <1>0
<1>2. ASSUME NEW k \in 0 .. n, k # n, k \in G PROVE k + 1 \in G
  <2>1. PICK F : F = [i \in 0 .. k |-> UnitsStep(F, u, N, i)]
    BY <1>2
  <2> DEFINE H == [i \in 0 .. k + 1 |-> IF i <= k THEN F[i] ELSE UnitsStep(F, u, N, i)]
  <2>2. \A i \in 0 .. k : H[i] = F[i]
    OBVIOUS
  <2>3. ASSUME NEW i \in 0 .. k + 1 PROVE H[i] = UnitsStep(H, u, N, i)
    <3>1. i = 0 \/ (i - 1 \in 0 .. k /\ H[i - 1] = F[i - 1])
      BY <2>2
    <3>2. UnitsStep(H, u, N, i) = UnitsStep(F, u, N, i)
      BY <3>1 DEF UnitsStep
    <3>3. CASE i <= k
      BY <2>1, <2>2, <3>2, <3>3
    <3>4. CASE ~ (i <= k)
      BY <3>2, <3>4
    <3>5. QED BY <3>3, <3>4
  <2>4. H = [i \in 0 .. k + 1 |-> UnitsStep(H, u, N, i)]
    BY <2>3
  <2>5. k + 1 \in 0 .. n
    BY <1>0, <1>2
  <2> HIDE DEF H
  <2>6. \E X : X = [i \in 0 .. k + 1 |-> UnitsStep(X, u, N, i)]
    BY <2>4
  <2>7. QED BY <2>5, <2>6
<1>3. n \in 0 .. n
  BY <1>0
<1> HIDE DEF G
<1>4. n \in G
  BY <1>0, <1>1, <1>2, <1>3, IntervalInduction
<1>5. \E F : F = [i \in 0 .. n |-> UnitsStep(F, u, N, i)]
  BY <1>4 DEF G
<1>6. QED BY <1>5 DEF UnitsFn

\* One unfolding of the sum.
LEMMA UnitsUnfold ==
  ASSUME NEW u, NEW N
  PROVE  /\ UnitsFn(u, N)[0] = 0
         /\ \A k \in 0 .. MaxNodes : k # MaxNodes =>
               UnitsFn(u, N)[k + 1] = UnitsFn(u, N)[k] + (IF k + 1 \in N THEN u[k + 1] ELSE 0)
<1> DEFINE F == UnitsFn(u, N)
<1>1. MaxNodes \in Nat
  BY SchedulerAssumption
<1>2. F = [i \in 0 .. MaxNodes |-> UnitsStep(F, u, N, i)]
  BY UnitsFnExists
<1> HIDE DEF F
<1>3. \A i \in 0 .. MaxNodes : F[i] = UnitsStep(F, u, N, i)
  BY <1>2
<1>4. QED BY <1>1, <1>3 DEF UnitsStep, F

\* The sum over a set of nodes is a natural number.
LEMMA UnitsNat ==
  ASSUME NEW u \in [NodeId -> Nat], NEW N
  PROVE  UnitsFn(u, N)[MaxNodes] \in Nat
<1> DEFINE F == UnitsFn(u, N)
           G == {k \in 0 .. MaxNodes : F[k] \in Nat}
<1>0. MaxNodes \in Nat
  BY SchedulerAssumption
<1>1. F[0] = 0 /\ \A k \in 0 .. MaxNodes : k # MaxNodes =>
          F[k + 1] = F[k] + (IF k + 1 \in N THEN u[k + 1] ELSE 0)
  BY UnitsUnfold
<1>2. \A k \in 0 .. MaxNodes : k # MaxNodes => u[k + 1] \in Nat /\ k + 1 \in 0 .. MaxNodes
  BY <1>0 DEF NodeId
<1> HIDE DEF F
<1>3. 0 \in G
  BY <1>0, <1>1
<1>4. \A k \in 0 .. MaxNodes : k # MaxNodes /\ k \in G => k + 1 \in G
  BY <1>1, <1>2
<1>5. MaxNodes \in 0 .. MaxNodes
  BY <1>0
<1> HIDE DEF G
<1>6. MaxNodes \in G
  BY <1>0, <1>3, <1>4, <1>5, IntervalInduction
<1>7. QED BY <1>6 DEF F, G

\* Sums over disjoint sets add up.
LEMMA UnitsAdd ==
  ASSUME NEW u \in [NodeId -> Nat], NEW A, NEW B, A \cap B = {}
  PROVE  UnitsFn(u, A \cup B)[MaxNodes] = UnitsFn(u, A)[MaxNodes] + UnitsFn(u, B)[MaxNodes]
<1> DEFINE F == UnitsFn(u, A)
           H == UnitsFn(u, B)
           J == UnitsFn(u, A \cup B)
           G == {k \in 0 .. MaxNodes : F[k] \in Nat /\ H[k] \in Nat /\ J[k] = F[k] + H[k]}
<1>0. MaxNodes \in Nat
  BY SchedulerAssumption
<1>1. /\ F[0] = 0 /\ H[0] = 0 /\ J[0] = 0
      /\ \A k \in 0 .. MaxNodes : k # MaxNodes =>
          /\ F[k + 1] = F[k] + (IF k + 1 \in A THEN u[k + 1] ELSE 0)
          /\ H[k + 1] = H[k] + (IF k + 1 \in B THEN u[k + 1] ELSE 0)
          /\ J[k + 1] = J[k] + (IF k + 1 \in A \cup B THEN u[k + 1] ELSE 0)
  BY UnitsUnfold
<1>2. \A k \in 0 .. MaxNodes : k # MaxNodes => u[k + 1] \in Nat /\ k + 1 \in 0 .. MaxNodes
  BY <1>0 DEF NodeId
<1> HIDE DEF F, H, J
<1>3. 0 \in G
  BY <1>0, <1>1
<1>4. \A k \in 0 .. MaxNodes : k # MaxNodes /\ k \in G => k + 1 \in G
  BY <1>1, <1>2
<1>5. MaxNodes \in 0 .. MaxNodes
  BY <1>0
<1> HIDE DEF G
<1>6. MaxNodes \in G
  BY <1>0, <1>3, <1>4, <1>5, IntervalInduction
<1>7. QED BY <1>6 DEF F, H, J, G

\* Only the units of the members matter.
LEMMA UnitsAgree ==
  ASSUME NEW u, NEW w, NEW A, \A n \in A \cap NodeId : u[n] = w[n]
  PROVE  UnitsFn(u, A)[MaxNodes] = UnitsFn(w, A)[MaxNodes]
<1> DEFINE F == UnitsFn(u, A)
           H == UnitsFn(w, A)
           G == {k \in 0 .. MaxNodes : F[k] = H[k]}
<1>0. MaxNodes \in Nat
  BY SchedulerAssumption
<1>1. /\ F[0] = 0 /\ H[0] = 0
      /\ \A k \in 0 .. MaxNodes : k # MaxNodes =>
          /\ F[k + 1] = F[k] + (IF k + 1 \in A THEN u[k + 1] ELSE 0)
          /\ H[k + 1] = H[k] + (IF k + 1 \in A THEN w[k + 1] ELSE 0)
  BY UnitsUnfold
<1>2. \A k \in 0 .. MaxNodes : k # MaxNodes => k + 1 \in NodeId /\ k + 1 \in 0 .. MaxNodes
  BY <1>0 DEF NodeId
<1> HIDE DEF F, H
<1>3. 0 \in G
  BY <1>0, <1>1
<1>4. \A k \in 0 .. MaxNodes : k # MaxNodes /\ k \in G => k + 1 \in G
  BY <1>1, <1>2
<1>5. MaxNodes \in 0 .. MaxNodes
  BY <1>0
<1> HIDE DEF G
<1>6. MaxNodes \in G
  BY <1>0, <1>3, <1>4, <1>5, IntervalInduction
<1>7. QED BY <1>6 DEF F, H, G

\* The empty sum.
LEMMA UnitsEmpty ==
  ASSUME NEW u
  PROVE  UnitsFn(u, {})[MaxNodes] = 0
<1> DEFINE F == UnitsFn(u, {})
           G == {k \in 0 .. MaxNodes : F[k] = 0}
<1>0. MaxNodes \in Nat
  BY SchedulerAssumption
<1>1. F[0] = 0 /\ \A k \in 0 .. MaxNodes : k # MaxNodes => F[k + 1] = F[k] + 0
  BY UnitsUnfold
<1> HIDE DEF F
<1>3. 0 \in G
  BY <1>0, <1>1
<1>4. \A k \in 0 .. MaxNodes : k # MaxNodes /\ k \in G => k + 1 \in G
  BY <1>0, <1>1
<1>5. MaxNodes \in 0 .. MaxNodes
  BY <1>0
<1> HIDE DEF G
<1>6. MaxNodes \in G
  BY <1>0, <1>3, <1>4, <1>5, IntervalInduction
<1>7. QED BY <1>6 DEF F, G

\* The sum over one node is its reservation.
LEMMA UnitsSingle ==
  ASSUME NEW u \in [NodeId -> Nat], NEW n \in NodeId
  PROVE  UnitsFn(u, {n})[MaxNodes] = u[n]
<1> DEFINE F == UnitsFn(u, {n})
           G == {k \in 0 .. MaxNodes : F[k] = IF k < n THEN 0 ELSE u[n]}
<1>0. MaxNodes \in Nat /\ n \in 1 .. MaxNodes /\ u[n] \in Nat
  BY SchedulerAssumption DEF NodeId
<1>1. F[0] = 0 /\ \A k \in 0 .. MaxNodes : k # MaxNodes =>
          F[k + 1] = F[k] + (IF k + 1 \in {n} THEN u[k + 1] ELSE 0)
  BY UnitsUnfold
<1> HIDE DEF F
<1>3. 0 \in G
  BY <1>0, <1>1
<1>4. \A k \in 0 .. MaxNodes : k # MaxNodes /\ k \in G => k + 1 \in G
  BY <1>0, <1>1
<1>5. MaxNodes \in 0 .. MaxNodes
  BY <1>0
<1> HIDE DEF G
<1>6. MaxNodes \in G
  BY <1>0, <1>3, <1>4, <1>5, IntervalInduction
<1>7. QED BY <1>0, <1>6 DEF F, G

-----------------------------------------------------------------------------
(***************************************************************************)
(* The inductive invariant, on a node table s.                             *)
(***************************************************************************)
Shape(s) ==
    /\ s \in Tree
    /\ \A n \in NodeId : (n <= s.count) <=> (s.state[n] # "absent")
    /\ \A n \in NodeId : s.parent[n] < n
    /\ \A n \in NodeId : n > s.count => s.parent[n] = None /\ s.unfinished[n] = 0

Slots(s) == s.running = Cardinality(NodesIn(s, {"Running"}))

Held(s) == s.held = UnitsOf(s, NodesIn(s, {"Running"}))

Queue(s) ==
    /\ \A i \in DOMAIN s.ready : s.state[s.ready[i]] = "Ready"
    /\ \A n \in NodeId :
         s.state[n] = "Ready" => \E i \in DOMAIN s.ready : s.ready[i] = n
    /\ \A i, j \in DOMAIN s.ready : s.ready[i] = s.ready[j] => i = j

Counts(s) ==
    \A p \in NodeId : Live(s, p) => s.unfinished[p] = Cardinality(LiveChildren(s, p))

Waiters(s) ==
    \A p \in NodeId : s.state[p] = "Waiting" => s.unfinished[p] > 0

Bounds(s) == s.running <= MaxSlots /\ s.held <= ResourceCap

Good(s) ==
    /\ Shape(s) /\ Slots(s) /\ Held(s) /\ Bounds(s)
    /\ Queue(s) /\ Counts(s) /\ Waiters(s)

\* Sets of nodes are finite.
LEMMA NodeSetsFinite ==
  ASSUME NEW S, S \subseteq NodeId
  PROVE  IsFiniteSet(S) /\ Cardinality(S) \in Nat
<1>1. MaxNodes \in Nat
  BY SchedulerAssumption
<1>2. IsFiniteSet(NodeId)
  BY <1>1, FS_Interval DEF NodeId
<1>3. IsFiniteSet(S)
  BY <1>2, FS_Subset
<1>4. QED BY <1>3, FS_CardinalityType

\* Taking a subset away takes its size away.
LEMMA CardinalityMinus ==
  ASSUME NEW S, NEW T, S \subseteq NodeId, T \subseteq S
  PROVE  Cardinality(S \ T) = Cardinality(S) - Cardinality(T)
<1>1. IsFiniteSet(S)
  BY NodeSetsFinite
<1>2. S \cap T = T
  OBVIOUS
<1>3. Cardinality(S \ T) = Cardinality(S) - Cardinality(S \cap T)
  BY <1>1, FS_Difference
<1>4. QED BY <1>2, <1>3

\* submit keeps the invariant.
LEMMA SubmittedGood ==
  ASSUME NEW s, Good(s), s.count < MaxNodes, NEW u \in Nat, NEW t \in Task,
         NEW p \in 0 .. s.count, SubmitAccepts(s, p, u)
  PROVE  Good(Submitted(s, p, t, u))
<1> DEFINE n == s.count + 1
           r == Submitted(s, p, t, u)
<1>0. /\ MaxNodes \in Nat /\ s \in Tree /\ n \in NodeId /\ s.count \in 0 .. MaxNodes
      /\ n > s.count /\ n # p /\ n \in 1 .. MaxNodes
  BY SchedulerAssumption DEF Good, Shape, Tree, NodeId
<1>1. /\ r.count = n
      /\ r.task = [s.task EXCEPT ![n] = t]
      /\ r.parent = [s.parent EXCEPT ![n] = p]
      /\ r.units = [s.units EXCEPT ![n] = u]
      /\ r.unfinished = [m \in NodeId |-> s.unfinished[m] + (IF m = p THEN 1 ELSE 0)]
      /\ r.state = [s.state EXCEPT ![n] = "Ready"]
      /\ r.ready = Append(s.ready, n)
      /\ r.running = s.running /\ r.held = s.held
  BY <1>0 DEF Submitted, Tree
<1>t. /\ s.parent \in [NodeId -> NodeId \cup {None}] /\ s.units \in [NodeId -> Nat]
      /\ s.unfinished \in [NodeId -> Nat] /\ s.state \in [NodeId -> NodeState]
      /\ s.ready \in Seq(NodeId) /\ s.state[n] = "absent"
      /\ s.task \in [NodeId -> Task \cup {NoTask}] /\ s.running \in Int /\ s.held \in Int
  BY <1>0 DEF Tree, Good, Shape
<1>p. \A m \in NodeId :
        /\ r.state[m] = IF m = n THEN "Ready" ELSE s.state[m]
        /\ r.parent[m] = IF m = n THEN p ELSE s.parent[m]
        /\ r.unfinished[m] = s.unfinished[m] + (IF m = p THEN 1 ELSE 0)
        /\ r.units[m] = IF m = n THEN u ELSE s.units[m]
  BY <1>0, <1>1, <1>t
<1>2. r \in Tree
  <2>1. /\ r.task \in [NodeId -> Task \cup {NoTask}]
        /\ r.units \in [NodeId -> Nat]
        /\ r.state \in [NodeId -> NodeState]
    BY <1>0, <1>1, <1>t DEF NodeState
  <2>2. r.parent \in [NodeId -> NodeId \cup {None}]
    <3>1. p \in NodeId \cup {None}
      BY <1>0 DEF NodeId, None
    <3>2. QED BY <3>1, <1>0, <1>1, <1>t
  <2>3. r.unfinished \in [NodeId -> Nat]
    BY <1>1, <1>t
  <2>4. r.ready \in Seq(NodeId) /\ r.count \in 0 .. MaxNodes
    BY <1>0, <1>1, <1>t
  <2>5. r = [count |-> r.count, task |-> r.task, parent |-> r.parent, units |-> r.units,
             unfinished |-> r.unfinished, state |-> r.state, ready |-> r.ready,
             running |-> r.running, held |-> r.held]
    BY DEF Submitted
  <2>6. r.running \in Int /\ r.held \in Int
    BY <1>1, <1>t
  <2> HIDE DEF r
  <2>7. QED BY <2>1, <2>2, <2>3, <2>4, <2>5, <2>6 DEF Tree
<1> HIDE DEF r
<1>n. n = s.count + 1 /\ s.count \in Nat /\ n \in NodeId /\ n \in Nat /\ p \in Nat /\ p < n
  BY <1>0
<1>s. /\ \A m \in NodeId : m \in Nat /\ m > 0
      /\ \A m \in NodeId : (m <= s.count) <=> (s.state[m] # "absent")
      /\ \A m \in NodeId : s.parent[m] < m
      /\ \A m \in NodeId : m > s.count => s.parent[m] = None /\ s.unfinished[m] = 0
  BY DEF Good, Shape, NodeId
<1> HIDE DEF n
<1>3. Shape(r)
  <2>1. \A m \in NodeId : (m <= r.count) <=> (r.state[m] # "absent")
    <3> SUFFICES ASSUME NEW m \in NodeId
                 PROVE  (m <= r.count) <=> (r.state[m] # "absent")
      OBVIOUS
    <3>0. m \in Nat
      BY <1>s
    <3>a. n = s.count + 1 /\ s.count \in Nat
      BY <1>n
    <3>1. (m <= n) <=> (m <= s.count \/ m = n)
      BY ONLY <3>0, <3>a
    <3>2. QED BY <3>0, <3>1, <1>1, <1>p, <1>s
  <2>2. \A m \in NodeId : r.parent[m] < m
    BY <1>n, <1>p, <1>s
  <2>3. \A m \in NodeId : m > r.count => r.parent[m] = None /\ r.unfinished[m] = 0
    <3> SUFFICES ASSUME NEW m \in NodeId, m > n
                 PROVE  r.parent[m] = None /\ r.unfinished[m] = 0
      BY <1>1
    <3>a. m \in Nat
      BY <1>s
    <3>1. m # n /\ m # p /\ m > s.count
      BY <1>n, <3>a
    <3>2. QED BY <3>1, <1>p, <1>s
  <2>4. QED BY <1>2, <2>1, <2>2, <2>3 DEF Shape
<1>4. NodesIn(r, {"Running"}) = NodesIn(s, {"Running"})
  BY <1>0, <1>1, <1>t DEF NodesIn
<1>5. Slots(r)
  BY <1>1, <1>4 DEF Good, Slots
<1>6. Held(r)
  <2>1. \A m \in NodesIn(s, {"Running"}) \cap NodeId : r.units[m] = s.units[m]
    BY <1>0, <1>1, <1>t DEF NodesIn
  <2>2. UnitsOf(r, NodesIn(r, {"Running"})) = UnitsOf(s, NodesIn(s, {"Running"}))
    BY <1>4, <2>1, UnitsAgree, UnitsIsFn
  <2>3. QED BY <1>1, <2>2 DEF Good, Held
<1>7. Queue(r)
  <2>1. /\ DOMAIN r.ready = 1 .. Len(s.ready) + 1 /\ Len(s.ready) \in Nat
        /\ DOMAIN s.ready = 1 .. Len(s.ready)
        /\ r.ready[Len(s.ready) + 1] = n
        /\ \A i \in DOMAIN s.ready : r.ready[i] = s.ready[i]
    <3>1. r.ready = Append(s.ready, n) /\ s.ready \in Seq(NodeId) /\ n \in NodeId
      BY <1>n, <1>1, <1>t
    <3>2. /\ r.ready \in Seq(NodeId) /\ Len(r.ready) = Len(s.ready) + 1
          /\ \A i \in 1 .. Len(s.ready) : r.ready[i] = s.ready[i]
          /\ r.ready[Len(s.ready) + 1] = n
      BY ONLY <3>1, AppendProperties
    <3>3. DOMAIN s.ready = 1 .. Len(s.ready) /\ Len(s.ready) \in Nat
      BY ONLY <3>1
    <3>4. DOMAIN r.ready = 1 .. Len(r.ready)
      BY ONLY <3>2
    <3>5. QED BY <3>2, <3>3, <3>4
  <2>2. \A i \in DOMAIN s.ready : s.ready[i] # n /\ s.ready[i] \in NodeId
    BY <1>0, <1>t, <2>1 DEF Good, Queue
  <2>c. \A i \in DOMAIN s.ready : s.state[s.ready[i]] = "Ready"
    BY DEF Good, Queue
  <2>b. \A i \in DOMAIN r.ready : i \in DOMAIN s.ready \/ i = Len(s.ready) + 1
    BY <2>1
  <2>3. \A i \in DOMAIN r.ready : r.state[r.ready[i]] = "Ready"
    <3> SUFFICES ASSUME NEW i \in DOMAIN r.ready PROVE r.state[r.ready[i]] = "Ready"
      OBVIOUS
    <3>1. CASE i \in DOMAIN s.ready
      <4>1. r.ready[i] = s.ready[i] /\ s.ready[i] \in NodeId /\ s.ready[i] # n
        BY <3>1, <2>1, <2>2
      <4>2. QED BY <4>1, <3>1, <2>c, <1>p
    <3>2. CASE i = Len(s.ready) + 1
      BY <3>2, <2>1, <1>n, <1>p
    <3>3. QED BY <3>1, <3>2, <2>b
  <2>4. \A m \in NodeId : r.state[m] = "Ready" => \E i \in DOMAIN r.ready : r.ready[i] = m
    <3> SUFFICES ASSUME NEW m \in NodeId, r.state[m] = "Ready"
                 PROVE  \E i \in DOMAIN r.ready : r.ready[i] = m
      OBVIOUS
    <3>1. CASE m = n
      BY <3>1, <2>1
    <3>2. CASE m # n
      <4>1. s.state[m] = "Ready"
        BY <3>2, <1>0, <1>1, <1>t
      <4>2. PICK i \in DOMAIN s.ready : s.ready[i] = m
        BY <4>1 DEF Good, Queue
      <4>3. QED BY <4>2, <2>1
    <3>3. QED BY <3>1, <3>2
  <2>a. \A i, j \in DOMAIN s.ready : s.ready[i] = s.ready[j] => i = j
    BY DEF Good, Queue
  <2>5. \A i, j \in DOMAIN r.ready : r.ready[i] = r.ready[j] => i = j
    BY <2>1, <2>2, <2>a, <2>b
  <2>6. QED BY <2>3, <2>4, <2>5 DEF Queue
<1>8. Counts(r)
  <2> SUFFICES ASSUME NEW q \in NodeId, Live(r, q)
               PROVE  r.unfinished[q] = Cardinality(LiveChildren(r, q))
    BY DEF Counts
  <2>1. CASE q = n
    <3>1. LiveChildren(r, n) = {}
      <4> SUFFICES ASSUME NEW c \in NodeId, r.parent[c] = n, Live(r, c) PROVE FALSE
        BY DEF LiveChildren
      <4>1. c > n
        BY <1>3, <1>s, <1>n DEF Shape
      <4>2. r.parent[c] = None
        BY <4>1, <1>1, <1>3 DEF Shape
      <4>3. QED BY <4>2, <1>n DEF None
    <3>2. r.unfinished[n] = 0
      BY <1>n, <1>p, <1>s
    <3>3. QED BY <2>1, <3>1, <3>2, FS_EmptySet
  <2>2. CASE q # n
    <3>1. Live(s, q)
      BY <2>2, <1>0, <1>1, <1>t DEF Live
    <3>2. s.unfinished[q] = Cardinality(LiveChildren(s, q))
      BY <3>1 DEF Good, Counts
    <3>3. LiveChildren(s, q) \subseteq NodeId /\ n \notin LiveChildren(s, q)
      BY <1>t DEF LiveChildren, Live
    <3>4. CASE q = p
      <4>1. LiveChildren(r, q) = LiveChildren(s, q) \cup {n}
        BY <3>4, <1>n, <1>p DEF LiveChildren, Live
      <4>2. Cardinality(LiveChildren(s, q) \cup {n}) = Cardinality(LiveChildren(s, q)) + 1
        BY <3>3, NodeSetsFinite, FS_AddElement
      <4>3. QED BY <3>2, <3>4, <4>1, <4>2, <1>p
    <3>5. CASE q # p
      <4>1. LiveChildren(r, q) = LiveChildren(s, q)
        BY <3>5, <1>n, <1>p, <1>t DEF LiveChildren, Live
      <4>2. QED BY <3>2, <3>5, <4>1, <1>p, <1>t
    <3>6. QED BY <3>4, <3>5
  <2>3. QED BY <2>1, <2>2
<1>9. Waiters(r)
  <2> SUFFICES ASSUME NEW m \in NodeId, r.state[m] = "Waiting" PROVE r.unfinished[m] > 0
    BY DEF Waiters
  <2>1. s.state[m] = "Waiting" /\ s.unfinished[m] \in Nat
    BY <1>p, <1>t
  <2>2. s.unfinished[m] > 0
    BY <2>1 DEF Good, Waiters
  <2>3. QED BY <2>1, <2>2, <1>p
<1>b. Bounds(r)
  BY <1>1 DEF Good, Bounds
<1>10. QED BY <1>3, <1>5, <1>6, <1>7, <1>8, <1>9, <1>b DEF Good, r

\* Ending nodes keeps the invariant, when the roots that settle a surviving
\* parent are exactly the children it loses.
LEMMA EndedGood ==
  ASSUME NEW s, Good(s),
         NEW ended, ended \subseteq NodeId, \A n \in ended : Live(s, n),
         NEW roots, roots \subseteq NodeId,
         NEW to \in {"Completed", "Settled", "Cancelled"},
         \A p \in NodeId \ ended :
            Live(s, p) => Settling(s, roots, p) = {c \in ended : s.parent[c] = p},
         NEW wakes \in Orders(Woken(s, ended, roots))
  PROVE  Good(Ended(s, ended, roots, to, wakes))
<1> DEFINE r == Ended(s, ended, roots, to, wakes)
           woken == Woken(s, ended, roots)
           freed == {n \in ended : s.state[n] = "Running"}
           K == NodeId \ ended
           q1 == Retain(s.ready, K)
<1>t. /\ s.parent \in [NodeId -> NodeId \cup {None}] /\ s.units \in [NodeId -> Nat]
      /\ s.unfinished \in [NodeId -> Nat] /\ s.state \in [NodeId -> NodeState]
      /\ s.ready \in Seq(NodeId) /\ s.count \in 0 .. MaxNodes
      /\ s.task \in [NodeId -> Task \cup {NoTask}] /\ s.running \in Int /\ s.held \in Int
  BY DEF Tree, Good, Shape
<1>1. /\ r.count = s.count /\ r.task = s.task /\ r.parent = s.parent /\ r.units = s.units
      /\ r.unfinished = [p \in NodeId |-> IF p \in ended THEN s.unfinished[p]
                                          ELSE Left(s, roots, p)]
      /\ r.state = [n \in NodeId |-> IF n \in ended THEN to
                                     ELSE IF n \in woken THEN "Ready" ELSE s.state[n]]
      /\ r.ready = q1 \o wakes
      /\ r.running = s.running - Cardinality(freed)
      /\ r.held = s.held - UnitsOf(s, freed)
  BY DEF Ended
<1>r. r = [count |-> r.count, task |-> r.task, parent |-> r.parent, units |-> r.units,
           unfinished |-> r.unfinished, state |-> r.state, ready |-> r.ready,
           running |-> r.running, held |-> r.held]
  BY DEF Ended
<1>w. /\ woken \subseteq NodeId
      /\ \A n \in woken : /\ n \notin ended /\ s.state[n] = "Waiting"
                          /\ Settling(s, roots, n) # {} /\ Left(s, roots, n) = 0
      /\ \A n \in NodeId \ ended :
           /\ s.state[n] = "Waiting" /\ Settling(s, roots, n) # {}
           /\ Left(s, roots, n) = 0
           => n \in woken
  BY DEF Woken
<1>o. /\ Cardinality(woken) \in Nat
      /\ wakes \in [1 .. Cardinality(woken) -> woken]
      /\ \A x \in woken : \E i \in 1 .. Cardinality(woken) : wakes[i] = x
      /\ \A i, j \in 1 .. Cardinality(woken) : wakes[i] = wakes[j] => i = j
  BY <1>w, NodeSetsFinite DEF Orders
<1>l. \A p \in NodeId : /\ Cardinality(Settling(s, roots, p)) \in Nat
                        /\ Left(s, roots, p) \in Nat
                        /\ Left(s, roots, p) =
                             IF s.unfinished[p] > Cardinality(Settling(s, roots, p))
                             THEN s.unfinished[p] - Cardinality(Settling(s, roots, p)) ELSE 0
  <2> SUFFICES ASSUME NEW p \in NodeId
               PROVE  /\ Cardinality(Settling(s, roots, p)) \in Nat
                      /\ Left(s, roots, p) \in Nat
                      /\ Left(s, roots, p) =
                             IF s.unfinished[p] > Cardinality(Settling(s, roots, p))
                             THEN s.unfinished[p] - Cardinality(Settling(s, roots, p)) ELSE 0
    OBVIOUS
  <2>1. Settling(s, roots, p) \subseteq NodeId
    BY DEF Settling
  <2>2. Cardinality(Settling(s, roots, p)) \in Nat /\ s.unfinished[p] \in Nat
    BY <2>1, <1>t, NodeSetsFinite
  <2>3. QED BY <2>2 DEF Left
<1>q. /\ q1 \in Seq(NodeId)
      /\ \A i \in DOMAIN q1 : q1[i] \in K /\ \E j \in DOMAIN s.ready : q1[i] = s.ready[j]
      /\ \A j \in DOMAIN s.ready : s.ready[j] \in K => \E i \in DOMAIN q1 : q1[i] = s.ready[j]
      /\ \A i, j \in DOMAIN q1 : q1[i] = q1[j] => i = j
  <2>1. \A i, j \in DOMAIN s.ready : s.ready[i] = s.ready[j] => i = j
    BY DEF Good, Queue
  <2>2. s.ready \in Seq(NodeId)
    BY <1>t
  <2> HIDE DEF K
  <2>3. QED BY <2>1, <2>2, RetainFacts
<1> HIDE DEF r, woken, freed, q1
<1>p. \A n \in NodeId :
        /\ r.state[n] = IF n \in ended THEN to ELSE IF n \in woken THEN "Ready" ELSE s.state[n]
        /\ r.unfinished[n] = IF n \in ended THEN s.unfinished[n] ELSE Left(s, roots, n)
        /\ r.parent[n] = s.parent[n]
  BY <1>1
<1>v. \A n \in NodeId : Live(r, n) <=> (n \notin ended /\ Live(s, n))
  BY <1>p, <1>w DEF Live
<1>2. Shape(r)
  <2>1. r.state \in [NodeId -> NodeState]
    BY <1>1, <1>t DEF NodeState
  <2>2. r.unfinished \in [NodeId -> Nat]
    BY <1>1, <1>t, <1>l
  <2>3. r.ready \in Seq(NodeId)
    <3>1. wakes \in Seq(woken)
      BY <1>o, SeqDef
    <3>2. wakes \in Seq(NodeId)
      BY <3>1, <1>w, SeqMonotonic
    <3>3. QED BY <1>1, <1>q, <3>2, ConcatProperties
  <2>4. r.running \in Int /\ r.held \in Int
    <3>1. freed \subseteq NodeId
      BY DEF freed
    <3>2. Cardinality(freed) \in Nat
      BY <3>1, NodeSetsFinite
    <3>3. UnitsOf(s, freed) \in Nat
      BY <1>t, UnitsIsFn, UnitsNat
    <3>4. QED BY <1>1, <1>t, <3>2, <3>3
  <2>5. r \in Tree
    BY <1>r, <1>1, <1>t, <2>1, <2>2, <2>3, <2>4 DEF Tree
  <2>6. \A n \in NodeId : (s.state[n] = "absent") <=> (r.state[n] = "absent")
    BY <1>p, <1>w DEF Live
  <2>7. \A n \in NodeId : n > r.count => r.unfinished[n] = 0
    <3> SUFFICES ASSUME NEW n \in NodeId, n > s.count PROVE r.unfinished[n] = 0
      BY <1>1
    <3>1. s.unfinished[n] = 0
      BY DEF Good, Shape
    <3>2. QED BY <3>1, <1>p, <1>l
  <2>8. QED BY <2>5, <2>6, <2>7, <1>1 DEF Good, Shape
<1>3. NodesIn(r, {"Running"}) = NodesIn(s, {"Running"}) \ freed
  BY <1>p, <1>w DEF NodesIn, freed
<1>4. freed \subseteq NodesIn(s, {"Running"}) /\ NodesIn(s, {"Running"}) \subseteq NodeId
  BY DEF NodesIn, freed
<1>5. Slots(r)
  <2>1. Cardinality(NodesIn(r, {"Running"})) = Cardinality(NodesIn(s, {"Running"})) - Cardinality(freed)
    BY <1>3, <1>4, CardinalityMinus
  <2>2. QED BY <2>1, <1>1 DEF Good, Slots
<1>6. Held(r)
  <2> DEFINE R == NodesIn(s, {"Running"})
  <2>1. (R \ freed) \cap freed = {} /\ (R \ freed) \cup freed = R
    BY <1>4
  <2> HIDE DEF R
  <2>2. UnitsFn(s.units, R)[MaxNodes]
           = UnitsFn(s.units, R \ freed)[MaxNodes] + UnitsFn(s.units, freed)[MaxNodes]
    <3> DEFINE A == R \ freed
    <3>1. A \cap freed = {} /\ A \cup freed = R /\ s.units \in [NodeId -> Nat]
      BY <2>1, <1>t
    <3> HIDE DEF A
    <3>2. UnitsFn(s.units, A \cup freed)[MaxNodes]
             = UnitsFn(s.units, A)[MaxNodes] + UnitsFn(s.units, freed)[MaxNodes]
      BY <3>1, UnitsAdd
    <3>3. QED BY <3>1, <3>2 DEF A
  <2>3. /\ UnitsOf(r, R \ freed) = UnitsFn(s.units, R \ freed)[MaxNodes]
        /\ UnitsOf(s, freed) = UnitsFn(s.units, freed)[MaxNodes]
        /\ UnitsOf(s, R) = UnitsFn(s.units, R)[MaxNodes]
    BY <1>1, UnitsIsFn
  <2>4. /\ UnitsFn(s.units, R \ freed)[MaxNodes] \in Nat
        /\ UnitsFn(s.units, freed)[MaxNodes] \in Nat
    BY <1>t, UnitsNat
  <2>5. s.held = UnitsOf(s, R)
    BY DEF Good, Held, R
  <2>6. r.held = UnitsOf(r, R \ freed)
    BY <1>1, <2>2, <2>3, <2>4, <2>5
  <2>7. QED BY <1>3, <2>6 DEF Held, R
<1>7. Queue(r)
  <2> DEFINE k == Len(q1)
             w == Cardinality(woken)
  <2>0. /\ \A i \in DOMAIN s.ready : s.state[s.ready[i]] = "Ready"
        /\ \A n \in NodeId : s.state[n] = "Ready" => \E i \in DOMAIN s.ready : s.ready[i] = n
    BY DEF Good, Queue
  <2>1. k \in Nat /\ DOMAIN q1 = 1 .. k /\ w \in Nat
    BY <1>q, <1>o
  <2>2. wakes \in Seq(woken) /\ Len(wakes) = w /\ DOMAIN wakes = 1 .. w
    BY <1>o, SeqDef
  <2>3. /\ DOMAIN r.ready = 1 .. k + w
        /\ \A i \in 1 .. k : r.ready[i] = q1[i]
        /\ \A i \in 1 .. k + w : i > k => r.ready[i] = wakes[i - k] /\ i - k \in 1 .. w
        /\ \A i \in 1 .. w : r.ready[k + i] = wakes[i] /\ k + i \in 1 .. k + w
    BY <1>1, <1>q, <2>1, <2>2, ConcatProperties
  <2> HIDE DEF k, w
  <2>4. \A i \in 1 .. k : /\ q1[i] \in NodeId /\ q1[i] \notin ended
                          /\ s.state[q1[i]] = "Ready"
    BY <1>q, <2>0, <2>1
  <2>5. \A i \in 1 .. w : wakes[i] \in woken
    BY <1>o DEF w
  <2>6. \A i \in DOMAIN r.ready : r.state[r.ready[i]] = "Ready"
    <3> SUFFICES ASSUME NEW i \in 1 .. k + w PROVE r.state[r.ready[i]] = "Ready"
      BY <2>3
    <3>1. CASE i > k
      <4>1. r.ready[i] \in woken
        BY <3>1, <2>3, <2>5
      <4>2. QED BY <4>1, <1>p, <1>w
    <3>2. CASE ~(i > k)
      <4>1. i \in 1 .. k
        BY <3>2, <2>1
      <4>2. QED BY <4>1, <2>3, <2>4, <1>p
    <3>3. QED BY <3>1, <3>2
  <2>7. ASSUME NEW n \in NodeId, r.state[n] = "Ready"
        PROVE  \E i \in DOMAIN r.ready : r.ready[i] = n
    <3>1. n \notin ended
      BY <2>7, <1>p
    <3>2. CASE n \in woken
      <4>1. PICK i \in 1 .. w : wakes[i] = n
        BY <3>2, <1>o DEF w
      <4>2. QED BY <4>1, <2>3
    <3>3. CASE n \notin woken
      <4>1. s.state[n] = "Ready" /\ n \in K
        BY <3>1, <3>3, <2>7, <1>p
      <4>2. PICK j \in DOMAIN s.ready : s.ready[j] = n
        BY <4>1, <2>0
      <4>3. PICK i \in DOMAIN q1 : q1[i] = n
        BY <4>1, <4>2, <1>q
      <4>4. i \in 1 .. k /\ i \in 1 .. k + w
        BY <2>1
      <4>5. QED BY <4>3, <4>4, <2>3
    <3>4. QED BY <3>2, <3>3
  <2>8. ASSUME NEW i \in DOMAIN r.ready, NEW j \in DOMAIN r.ready, r.ready[i] = r.ready[j]
        PROVE  i = j
    <3>1. i \in 1 .. k + w /\ j \in 1 .. k + w
      BY <2>3
    <3>2. \A a \in 1 .. k, b \in 1 .. w : q1[a] # wakes[b]
      BY <2>4, <2>5, <1>w
    <3>3. CASE i > k /\ j > k
      <4>1. wakes[i - k] = wakes[j - k] /\ i - k \in 1 .. w /\ j - k \in 1 .. w
        BY <3>1, <3>3, <2>3, <2>8
      <4>2. i - k = j - k
        BY <4>1, <1>o DEF w
      <4>3. QED BY <4>2, <3>1, <2>1
    <3>4. CASE ~(i > k) /\ ~(j > k)
      <4>1. i \in 1 .. k /\ j \in 1 .. k
        BY <3>1, <3>4, <2>1
      <4>2. q1[i] = q1[j]
        BY <4>1, <2>3, <2>8
      <4>3. QED BY <4>1, <4>2, <2>1, <1>q
    <3>5. CASE i > k /\ ~(j > k)
      <4>1. j \in 1 .. k /\ i - k \in 1 .. w /\ wakes[i - k] = q1[j]
        BY <3>1, <3>5, <2>1, <2>3, <2>8
      <4>2. QED BY <4>1, <3>2
    <3>6. CASE ~(i > k) /\ j > k
      <4>1. i \in 1 .. k /\ j - k \in 1 .. w /\ wakes[j - k] = q1[i]
        BY <3>1, <3>6, <2>1, <2>3, <2>8
      <4>2. QED BY <4>1, <3>2
    <3>7. QED BY <3>3, <3>4, <3>5, <3>6
  <2>9. QED BY <2>6, <2>7, <2>8 DEF Queue
<1>8. Counts(r)
  <2> SUFFICES ASSUME NEW p \in NodeId, Live(r, p)
               PROVE  r.unfinished[p] = Cardinality(LiveChildren(r, p))
    BY DEF Counts
  <2> DEFINE C == LiveChildren(s, p)
             D == Settling(s, roots, p)
  <2>1. p \notin ended /\ Live(s, p)
    BY <1>v
  <2>2. D = {c \in ended : s.parent[c] = p}
    BY <2>1
  <2>3. D \subseteq C /\ C \subseteq NodeId
    BY <2>2 DEF LiveChildren
  <2>4. LiveChildren(r, p) = C \ D
    BY <2>2, <1>v, <1>p DEF LiveChildren
  <2>5. s.unfinished[p] = Cardinality(C)
    BY <2>1 DEF Good, Counts
  <2> HIDE DEF C, D
  <2>6. Cardinality(C \ D) = Cardinality(C) - Cardinality(D)
    BY <2>3, CardinalityMinus
  <2>7. Cardinality(C) \in Nat /\ Cardinality(D) \in Nat /\ Cardinality(C \ D) \in Nat
    BY <2>3, NodeSetsFinite
  <2>8. r.unfinished[p] = Left(s, roots, p)
    BY <2>1, <1>p
  <2>9. Left(s, roots, p) = Cardinality(C) - Cardinality(D)
    BY <1>l, <2>5, <2>6, <2>7 DEF D
  <2>10. QED BY <2>4, <2>6, <2>8, <2>9
<1>9. Waiters(r)
  <2> SUFFICES ASSUME NEW p \in NodeId, r.state[p] = "Waiting" PROVE r.unfinished[p] > 0
    BY DEF Waiters
  <2>1. p \notin ended /\ p \notin woken /\ s.state[p] = "Waiting"
    BY <1>p
  <2>2. s.unfinished[p] > 0 /\ s.unfinished[p] \in Nat
    BY <2>1, <1>t DEF Good, Waiters
  <2>3. r.unfinished[p] = Left(s, roots, p) /\ Left(s, roots, p) \in Nat
    BY <2>1, <1>p, <1>l
  <2>4. CASE Settling(s, roots, p) = {}
    <3>1. Cardinality(Settling(s, roots, p)) = 0
      BY <2>4, FS_EmptySet
    <3>2. QED BY <3>1, <2>2, <2>3, <1>l
  <2>5. CASE Settling(s, roots, p) # {}
    <3>1. Left(s, roots, p) # 0
      BY <2>1, <2>5, <1>w
    <3>2. QED BY <3>1, <2>3
  <2>6. QED BY <2>4, <2>5
<1>b. Bounds(r)
  <2>1. freed \subseteq NodeId
    BY DEF freed
  <2>2. Cardinality(freed) \in Nat
    BY <2>1, NodeSetsFinite
  <2>3. UnitsOf(s, freed) \in Nat
    BY <1>t, UnitsIsFn, UnitsNat
  <2>4. MaxSlots \in Nat /\ ResourceCap \in Nat
    BY SchedulerAssumption
  <2>5. QED BY <1>1, <1>t, <2>2, <2>3, <2>4 DEF Good, Bounds
<1>10. QED BY <1>2, <1>5, <1>6, <1>7, <1>8, <1>9, <1>b DEF Good, r

\* One live node ending keeps the invariant.
LEMMA EndedOneGood ==
  ASSUME NEW s, Good(s), NEW n \in NodeId, Live(s, n),
         NEW to \in {"Completed", "Settled", "Cancelled"}
  PROVE  Good(EndedOne(s, n, to))
<1> DEFINE W == Woken(s, {n}, {n})
           wakes == IF W = {} THEN << >> ELSE << s.parent[n] >>
<1>1. \A p \in NodeId \ {n} :
         Live(s, p) => Settling(s, {n}, p) = {c \in {n} : s.parent[c] = p}
  BY DEF Settling
<1>2. W \subseteq {s.parent[n]}
  BY DEF Woken, Settling
<1>3. wakes \in Orders(W)
  <2>1. CASE W = {}
    <3>1. Cardinality(W) = 0 /\ 1 .. 0 = {} /\ << >> = [i \in 1 .. 0 |-> i]
      BY <2>1, FS_EmptySet
    <3>2. << >> \in [1 .. 0 -> W]
      BY <2>1
    <3> HIDE DEF W
    <3>3. wakes = << >>
      BY <2>1
    <3>4. << >> \in Orders(W)
      BY <3>1, <3>2, <2>1 DEF Orders
    <3>5. QED BY <3>3, <3>4
  <2>2. CASE W # {}
    <3>1. W = {s.parent[n]}
      BY <2>2, <1>2
    <3>2. Cardinality(W) = 1
      BY <3>1, FS_Singleton
    <3> HIDE DEF W
    <3>3. wakes = << s.parent[n] >> /\ 1 .. 1 = {1}
      BY <2>2
    <3>4. << s.parent[n] >> \in [1 .. 1 -> W] /\ << s.parent[n] >>[1] = s.parent[n]
      BY <3>1
    <3> DEFINE f == << s.parent[n] >>
    <3>a. f \in [1 .. 1 -> W] /\ f[1] = s.parent[n]
      BY <3>4
    <3> HIDE DEF f
    <3>b. \A x \in W : \E i \in 1 .. 1 : f[i] = x
      BY <3>1, <3>3, <3>a
    <3>c. \A i, j \in 1 .. 1 : f[i] = f[j] => i = j
      BY <3>3
    <3>d. f \in Orders(W)
      BY <3>2, <3>a, <3>b, <3>c DEF Orders
    <3>5. << s.parent[n] >> \in Orders(W)
      BY <3>d DEF f
    <3>6. QED BY <3>3, <3>5
  <2>3. QED BY <2>1, <2>2
<1>4. EndedOne(s, n, to) = Ended(s, {n}, {n}, to, wakes)
  BY DEF EndedOne
<1> HIDE DEF wakes
<1>5. {n} \subseteq NodeId /\ \A m \in {n} : Live(s, m)
  OBVIOUS
<1>6. Good(Ended(s, {n}, {n}, to, wakes))
  BY <1>1, <1>3, <1>5, EndedGood DEF W
<1>7. QED BY <1>4, <1>6

\* retire keeps the invariant.
LEMMA RetiredGood ==
  ASSUME NEW s, Good(s), NEW n \in NodeId \cup {None}
  PROVE  Good(Retired(s, n)) /\ Retired(s, n).count = s.count
<1>1. CASE n # None /\ Live(s, n)
  <2>1. n \in NodeId
    BY <1>1
  <2>2. Good(EndedOne(s, n, "Settled"))
    BY <1>1, <2>1, EndedOneGood
  <2>3. EndedOne(s, n, "Settled").count = s.count
    BY DEF EndedOne, Ended
  <2>4. QED BY <1>1, <2>2, <2>3 DEF Retired
<1>2. CASE ~(n # None /\ Live(s, n))
  <2>1. Retired(s, n) = s
    BY <1>2 DEF Retired
  <2>2. QED BY <2>1
<1>3. QED BY <1>1, <1>2

\* Draining: the roots that settle a surviving parent are the children it loses.
LEMMA DrainedGood ==
  ASSUME NEW s, Good(s), NEW roots, roots \subseteq NodeId,
         NEW wakes \in Orders(Woken(s, {n \in Subtree(s, roots) : Live(s, n)}, roots))
  PROVE  Good(Ended(s, {n \in Subtree(s, roots) : Live(s, n)}, roots, "Cancelled", wakes))
<1> DEFINE T == Subtree(s, roots)
           ended == {n \in T : Live(s, n)}
<1>1. T \subseteq NodeId /\ roots \subseteq T
  BY DEF Subtree
<1>2. \A c \in NodeId : s.parent[c] \in T => c \in T
  BY DEF Subtree
<1>3. \A S \in SUBSET NodeId :
         roots \subseteq S /\ (\A c \in NodeId : s.parent[c] \in S => c \in S) => T \subseteq S
  BY DEF Subtree
<1> HIDE DEF T
<1>4. ASSUME NEW p \in NodeId \ ended, Live(s, p)
      PROVE  Settling(s, roots, p) = {c \in ended : s.parent[c] = p}
  <2>1. p \notin T
    BY <1>4
  <2>2. ASSUME NEW c \in ended, s.parent[c] = p PROVE c \in roots
    <3>1. SUFFICES ASSUME c \notin roots PROVE FALSE
      OBVIOUS
    <3>2. c \in T /\ c \in NodeId
      BY <2>2, <1>1
    <3>3. T \ {c} \in SUBSET NodeId /\ roots \subseteq T \ {c}
      BY <3>1, <1>1
    <3>4. \A d \in NodeId : s.parent[d] \in T \ {c} => d \in T \ {c}
      BY <1>2, <2>1, <2>2
    <3>5. T \subseteq T \ {c}
      BY <1>3, <3>3, <3>4
    <3>6. QED BY <3>2, <3>5
  <2>3. QED BY <2>2, <1>1 DEF Settling
<1>5. ended \subseteq NodeId /\ \A n \in ended : Live(s, n)
  BY <1>1
<1>6. wakes \in Orders(Woken(s, ended, roots))
  BY DEF T
<1> HIDE DEF ended
<1>7. Good(Ended(s, ended, roots, "Cancelled", wakes))
  BY <1>4, <1>5, <1>6, EndedGood
<1>8. QED BY <1>7 DEF ended, T

\* The types of a table's fields.
LEMMA GoodTypes ==
  ASSUME NEW s, Good(s)
  PROVE  /\ s.parent \in [NodeId -> NodeId \cup {None}] /\ s.units \in [NodeId -> Nat]
         /\ s.unfinished \in [NodeId -> Nat] /\ s.state \in [NodeId -> NodeState]
         /\ s.ready \in Seq(NodeId) /\ s.count \in 0 .. MaxNodes
         /\ s.task \in [NodeId -> Task \cup {NoTask}] /\ s.running \in Int /\ s.held \in Int
  BY DEF Tree, Good, Shape

\* What holds of any move of one node that was already live, whatever the
\* queue and the counters become.
LEMMA MovedKeeps ==
  ASSUME NEW s, Good(s), NEW n \in NodeId, Live(s, n),
         NEW to \in {"Ready", "Running", "Waiting"},
         NEW q \in Seq(NodeId), NEW x \in Int, NEW y \in Int
  PROVE  /\ Shape(Moved(s, n, to, q, x, y))
         /\ Counts(Moved(s, n, to, q, x, y))
<1> DEFINE r == Moved(s, n, to, q, x, y)
<1>1. /\ r.count = s.count /\ r.task = s.task /\ r.parent = s.parent /\ r.units = s.units
      /\ r.unfinished = s.unfinished /\ r.state = [s.state EXCEPT ![n] = to]
      /\ r.ready = q /\ r.running = x /\ r.held = y
  BY DEF Moved
<1>r. r = [count |-> r.count, task |-> r.task, parent |-> r.parent, units |-> r.units,
           unfinished |-> r.unfinished, state |-> r.state, ready |-> r.ready,
           running |-> r.running, held |-> r.held]
  BY DEF Moved
<1> HIDE DEF r
<1>2. \A m \in NodeId : r.state[m] = IF m = n THEN to ELSE s.state[m]
  BY <1>1, GoodTypes
<1>3. \A m \in NodeId : Live(r, m) <=> Live(s, m)
  BY <1>2 DEF Live
<1>4. r.state \in [NodeId -> NodeState]
  BY <1>1, GoodTypes DEF NodeState
<1>5. r \in Tree
  BY <1>r, <1>1, <1>4, GoodTypes DEF Tree
<1>6. \A m \in NodeId : (r.state[m] = "absent") <=> (s.state[m] = "absent")
  BY <1>2 DEF Live
<1>7. Shape(r)
  BY <1>1, <1>5, <1>6 DEF Good, Shape
<1>8. \A p \in NodeId : LiveChildren(r, p) = LiveChildren(s, p)
  BY <1>1, <1>3 DEF LiveChildren
<1>9. Counts(r)
  BY <1>1, <1>3, <1>8 DEF Good, Counts
<1>10. QED BY <1>7, <1>9 DEF r

\* Admission keeps the invariant: the head becomes the one more running node.
LEMMA AdmittedGood ==
  ASSUME NEW s, Good(s), s.ready # << >>, NEW n, n = Head(s.ready),
         s.running # MaxSlots, s.held + s.units[n] <= ResourceCap
  PROVE  Good(Moved(s, n, "Running", Tail(s.ready), s.running + 1, s.held + s.units[n]))
<1> DEFINE r == Moved(s, n, "Running", Tail(s.ready), s.running + 1, s.held + s.units[n])
           q == s.ready
           R == NodesIn(s, {"Running"})
<1>t. /\ q \in Seq(NodeId) /\ s.units \in [NodeId -> Nat] /\ s.state \in [NodeId -> NodeState]
      /\ s.running \in Int /\ s.held \in Int
  BY GoodTypes
<1>q. /\ Len(q) \in Nat /\ Len(q) > 0 /\ DOMAIN q = 1 .. Len(q) /\ n = q[1] /\ 1 \in DOMAIN q
      /\ Tail(q) \in Seq(NodeId) /\ DOMAIN Tail(q) = 1 .. Len(q) - 1
      /\ \A i \in 1 .. Len(q) - 1 : Tail(q)[i] = q[i + 1] /\ i + 1 \in DOMAIN q
  BY <1>t
<1>i. /\ \A i \in DOMAIN q : q[i] \in NodeId /\ s.state[q[i]] = "Ready"
      /\ \A i, j \in DOMAIN q : q[i] = q[j] => i = j
      /\ \A m \in NodeId : s.state[m] = "Ready" => \E i \in DOMAIN q : q[i] = m
  <2>1. \A i \in DOMAIN q : q[i] \in NodeId
    BY <1>t
  <2>2. QED BY <2>1 DEF Good, Queue
<1>n. n \in NodeId /\ s.state[n] = "Ready" /\ Live(s, n) /\ s.units[n] \in Nat
  BY <1>q, <1>i, <1>t DEF Live
<1>1. /\ r.units = s.units /\ r.unfinished = s.unfinished
      /\ r.ready = Tail(q) /\ r.running = s.running + 1 /\ r.held = s.held + s.units[n]
      /\ \A m \in NodeId : r.state[m] = IF m = n THEN "Running" ELSE s.state[m]
  BY <1>n, <1>t DEF Moved
<1>a. s.running + 1 \in Int /\ s.held + s.units[n] \in Int
  BY <1>n, <1>t
<1>2. Shape(r) /\ Counts(r)
  BY <1>a, <1>n, <1>q, MovedKeeps
<1> HIDE DEF r
<1>3. NodesIn(r, {"Running"}) = R \cup {n} /\ n \notin R /\ R \subseteq NodeId
  BY <1>1, <1>n DEF NodesIn
<1>4. Slots(r)
  <2>1. Cardinality(R \cup {n}) = Cardinality(R) + 1
    BY <1>3, NodeSetsFinite, FS_AddElement
  <2>2. QED BY <2>1, <1>1, <1>3 DEF Good, Slots
<1>5. Held(r)
  <2>1. R \cap {n} = {}
    BY <1>3
  <2> HIDE DEF R
  <2>2. UnitsFn(s.units, R \cup {n})[MaxNodes]
           = UnitsFn(s.units, R)[MaxNodes] + UnitsFn(s.units, {n})[MaxNodes]
    BY <2>1, <1>t, UnitsAdd
  <2>3. UnitsFn(s.units, {n})[MaxNodes] = s.units[n]
    BY <1>t, <1>n, UnitsSingle
  <2>4. s.held = UnitsFn(s.units, R)[MaxNodes]
    BY UnitsIsFn DEF Good, Held, R
  <2>5. UnitsOf(r, R \cup {n}) = UnitsFn(s.units, R \cup {n})[MaxNodes]
    BY <1>1, UnitsIsFn
  <2>6. QED BY <1>1, <1>3, <2>2, <2>3, <2>4, <2>5 DEF Held, R
<1>6. Bounds(r)
  BY <1>1, <1>t, SchedulerAssumption DEF Good, Bounds
<1>7. Queue(r)
  <2>1. \A i \in DOMAIN r.ready : r.state[r.ready[i]] = "Ready"
    <3> SUFFICES ASSUME NEW i \in 1 .. Len(q) - 1 PROVE r.state[q[i + 1]] = "Ready"
      BY <1>1, <1>q
    <3>1. q[i + 1] \in NodeId /\ s.state[q[i + 1]] = "Ready"
      BY <1>q, <1>i
    <3>2. q[i + 1] # n
      <4>1. i + 1 # 1 /\ i + 1 \in DOMAIN q /\ 1 \in DOMAIN q
        BY <1>q
      <4>2. QED BY <4>1, <1>q, <1>i
    <3>3. QED BY <3>1, <3>2, <1>1
  <2>2. ASSUME NEW m \in NodeId, r.state[m] = "Ready"
        PROVE  \E i \in DOMAIN r.ready : r.ready[i] = m
    <3>1. m # n /\ s.state[m] = "Ready"
      BY <2>2, <1>1
    <3>2. PICK j \in DOMAIN q : q[j] = m
      BY <3>1, <1>i
    <3>3. j # 1
      BY <3>1, <3>2, <1>q
    <3>4. j - 1 \in 1 .. Len(q) - 1 /\ (j - 1) + 1 = j
      BY <3>2, <3>3, <1>q
    <3>5. Tail(q)[j - 1] = m
      BY <3>2, <3>4, <1>q
    <3>6. QED BY <3>4, <3>5, <1>1, <1>q
  <2>3. ASSUME NEW i \in DOMAIN r.ready, NEW j \in DOMAIN r.ready, r.ready[i] = r.ready[j]
        PROVE  i = j
    <3>1. i \in 1 .. Len(q) - 1 /\ j \in 1 .. Len(q) - 1
      BY <1>1, <1>q
    <3>2. q[i + 1] = q[j + 1] /\ i + 1 \in DOMAIN q /\ j + 1 \in DOMAIN q
      BY <3>1, <2>3, <1>1, <1>q
    <3>3. i + 1 = j + 1
      BY <3>2, <1>i
    <3>4. QED BY <3>1, <3>3, <1>q
  <2>4. QED BY <2>1, <2>2, <2>3 DEF Queue
<1>8. Waiters(r)
  BY <1>1 DEF Good, Waiters
<1>9. QED BY <1>2, <1>4, <1>5, <1>6, <1>7, <1>8 DEF Good, r

\* Waiting keeps the invariant: the slot and the units go with the move.
LEMMA WaitedGood ==
  ASSUME NEW s, Good(s), NEW n \in NodeId, s.state[n] = "Running", s.unfinished[n] # 0
  PROVE  Good(Moved(s, n, "Waiting", s.ready, s.running - 1, s.held - s.units[n]))
<1> DEFINE r == Moved(s, n, "Waiting", s.ready, s.running - 1, s.held - s.units[n])
           R == NodesIn(s, {"Running"})
<1>t. /\ s.ready \in Seq(NodeId) /\ s.units \in [NodeId -> Nat]
      /\ s.state \in [NodeId -> NodeState] /\ s.unfinished \in [NodeId -> Nat]
      /\ s.running \in Int /\ s.held \in Int
  BY GoodTypes
<1>n. Live(s, n) /\ s.units[n] \in Nat /\ s.unfinished[n] > 0
  BY <1>t DEF Live
<1>1. /\ r.units = s.units /\ r.unfinished = s.unfinished
      /\ r.ready = s.ready /\ r.running = s.running - 1 /\ r.held = s.held - s.units[n]
      /\ \A m \in NodeId : r.state[m] = IF m = n THEN "Waiting" ELSE s.state[m]
  BY <1>t DEF Moved
<1>2. Shape(r) /\ Counts(r)
  BY <1>n, <1>t, MovedKeeps
<1> HIDE DEF r
<1>3. NodesIn(r, {"Running"}) = R \ {n} /\ {n} \subseteq R /\ R \subseteq NodeId /\ n \in R
  BY <1>1 DEF NodesIn
<1>4. Slots(r)
  <2>1. Cardinality(R \ {n}) = Cardinality(R) - 1
    BY <1>3, NodeSetsFinite, FS_RemoveElement
  <2>2. QED BY <2>1, <1>1, <1>3 DEF Good, Slots
<1>5. Held(r)
  <2> DEFINE A == R \ {n}
  <2>1. A \cap {n} = {} /\ A \cup {n} = R /\ NodesIn(r, {"Running"}) = A
    BY <1>3
  <2> HIDE DEF A
  <2>2. UnitsFn(s.units, A \cup {n})[MaxNodes]
           = UnitsFn(s.units, A)[MaxNodes] + UnitsFn(s.units, {n})[MaxNodes]
    BY <2>1, <1>t, UnitsAdd
  <2>3. UnitsFn(s.units, {n})[MaxNodes] = s.units[n]
    BY <1>t, UnitsSingle
  <2>4. s.held = UnitsFn(s.units, R)[MaxNodes]
    BY UnitsIsFn DEF Good, Held
  <2>5. UnitsOf(r, A) = UnitsFn(s.units, A)[MaxNodes] /\ UnitsFn(s.units, A)[MaxNodes] \in Nat
    BY <1>1, <1>t, UnitsIsFn, UnitsNat
  <2> HIDE DEF R
  <2>6. s.held = UnitsFn(s.units, A)[MaxNodes] + s.units[n]
    BY <2>1, <2>2, <2>3, <2>4
  <2>7. r.held = UnitsOf(r, A)
    BY <1>1, <1>n, <2>5, <2>6
  <2>8. QED BY <2>1, <2>7 DEF Held
<1>6. Bounds(r)
  BY <1>1, <1>t, <1>n, SchedulerAssumption DEF Good, Bounds
<1>7. Queue(r)
  <2>1. \A i \in DOMAIN s.ready : s.ready[i] \in NodeId /\ s.state[s.ready[i]] = "Ready"
    BY <1>t DEF Good, Queue
  <2>2. QED BY <1>1, <2>1 DEF Good, Queue
<1>8. Waiters(r)
  BY <1>1, <1>n DEF Good, Waiters
<1>9. QED BY <1>2, <1>4, <1>5, <1>6, <1>7, <1>8 DEF Good, r

-----------------------------------------------------------------------------
(***************************************************************************)
(* The specification keeps the invariant.                                  *)
(***************************************************************************)
Inv ==
    /\ Good(tree)
    /\ parents \in [Task -> Task \cup {NoTask}]
    /\ byTask \in [Task -> 0 .. tree.count]
    /\ cancelled \in SUBSET Task
    /\ ignored \in 0 .. MaxIgnored
    /\ created \in SUBSET Task

\* The empty scheduler satisfies the invariant.
LEMMA InitInv == Init => Inv
<1> SUFFICES ASSUME Init PROVE Inv
  OBVIOUS
<1> DEFINE e == EmptyTree
<1>0. MaxNodes \in Nat /\ MaxSlots \in Nat /\ ResourceCap \in Nat /\ MaxIgnored \in Nat
  BY SchedulerAssumption
<1>1. /\ e.count = 0 /\ e.running = 0 /\ e.held = 0 /\ e.ready = << >>
      /\ \A n \in NodeId : /\ e.state[n] = "absent" /\ e.parent[n] = None
                           /\ e.unfinished[n] = 0
      /\ \A n \in NodeId : n \in Nat /\ n > 0
  BY DEF EmptyTree, NodeId
<1>2. e \in Tree
  BY <1>0 DEF EmptyTree, Tree, NodeState
<1> HIDE DEF e
<1>3. Shape(e)
  BY <1>1, <1>2 DEF Shape, None
<1>4. NodesIn(e, {"Running"}) = {}
  BY <1>1 DEF NodesIn
<1>5. Slots(e) /\ Held(e)
  BY <1>1, <1>4, FS_EmptySet, UnitsEmpty, UnitsIsFn DEF Slots, Held
<1>6. Queue(e)
  <2>1. DOMAIN e.ready = {}
    BY <1>1
  <2>2. QED BY <1>1, <2>1 DEF Queue
<1>7. Counts(e) /\ Waiters(e) /\ Bounds(e)
  BY <1>0, <1>1 DEF Counts, Waiters, Bounds, Live
<1>8. Good(e) /\ tree = e
  BY <1>3, <1>5, <1>6, <1>7 DEF Good, Init, e
<1>9. QED BY <1>0, <1>1, <1>8 DEF Init, Inv, None

\* A drain keeps the invariant and the size of the table.
LEMMA DrainGood ==
  ASSUME Good(tree), NEW roots, roots \subseteq NodeId, Drain(roots)
  PROVE  Good(tree') /\ tree'.count = tree.count
<1>1. PICK wakes \in Orders(Woken(tree, {n \in Subtree(tree, roots) : Live(tree, n)}, roots)) :
         tree' = Ended(tree, {n \in Subtree(tree, roots) : Live(tree, n)}, roots,
                       "Cancelled", wakes)
  BY DEF Drain
<1>2. Good(tree')
  BY <1>1, DrainedGood
<1>3. tree'.count = tree.count
  BY <1>1 DEF Ended
<1>4. QED BY <1>2, <1>3

\* Every step keeps the invariant.
LEMMA NextInv == Inv /\ [Next]_vars => Inv'
<1> SUFFICES ASSUME Inv, [Next]_vars PROVE Inv'
  OBVIOUS
<1>0. /\ MaxNodes \in Nat /\ MaxIgnored \in Nat /\ tree.count \in 0 .. MaxNodes
      /\ Units \subseteq Nat /\ Good(tree)
  BY SchedulerAssumption, GoodTypes DEF Inv
<1>1. CASE UNCHANGED vars
  BY <1>1 DEF Inv, vars
<1>2. ASSUME NEW t \in Task, NEW p \in Task \cup {NoTask}, Create(t, p) PROVE Inv'
  BY <1>2 DEF Inv, Create, Adopted
<1>3. ASSUME NEW t \in Task, NEW p \in Task, ReplayCreate(t, p) PROVE Inv'
  BY <1>3 DEF Inv, ReplayCreate, Adopted
<1>4. ASSUME NEW p \in NodeId \cup {None}, NEW t \in Task, NEW u \in Units, Submit(p, t, u)
      PROVE  Inv'
  <2>1. p \in 0 .. tree.count /\ u \in Nat /\ tree.count < MaxNodes
    BY <1>4, <1>0 DEF Submit, None
  <2>2. Good(tree')
    BY <1>4, <1>0, <2>1, SubmittedGood DEF Submit
  <2>3. tree'.count = tree.count + 1
    BY <1>4 DEF Submit, Submitted
  <2>4. byTask' \in [Task -> 0 .. tree'.count]
    BY <1>4, <1>0, <2>1, <2>3 DEF Submit, Inv
  <2>5. QED BY <1>4, <2>2, <2>4 DEF Submit, Inv
<1>5. ASSUME NEW t \in Task, SubmitAnswered(t) PROVE Inv'
  <2> DEFINE s == Retired(tree, byTask[t])
             p == RunnableParent(t)
  <2>1. byTask[t] \in NodeId \cup {None} /\ tree.count < MaxNodes
    BY <1>5, <1>0 DEF Inv, NodeId, None, SubmitAnswered
  <2>2. Good(s) /\ s.count = tree.count
    BY <1>0, <2>1, RetiredGood
  <2>3. p \in 0 .. s.count
    <3>1. \A a \in Task : byTask[a] \in 0 .. tree.count
      BY DEF Inv
    <3>2. Ancestry(parents[t]) \subseteq Task
      BY DEF Ancestry
    <3>3. QED BY <3>1, <3>2, <2>2, <1>0 DEF RunnableParent, None
  <2> HIDE DEF s, p
  <2>4. CASE SubmitAccepts(s, p, 1)
    <3>1. /\ tree' = Submitted(s, p, t, 1)
          /\ byTask' = [byTask EXCEPT ![t] = tree.count + 1]
          /\ UNCHANGED <<parents, cancelled, ignored, created>>
      BY <1>5, <2>4 DEF SubmitAnswered, s, p
    <3>2. Good(tree')
      BY <2>1, <2>2, <2>3, <2>4, <3>1, SubmittedGood
    <3>3. tree'.count = tree.count + 1
      BY <2>2, <3>1 DEF Submitted
    <3>4. byTask' \in [Task -> 0 .. tree'.count]
      BY <1>0, <3>1, <3>3 DEF Inv
    <3>5. QED BY <3>1, <3>2, <3>4 DEF Inv
  <2>5. CASE ~ SubmitAccepts(s, p, 1)
    <3>1. tree' = s /\ UNCHANGED <<byTask, parents, cancelled, ignored, created>>
      BY <1>5, <2>5 DEF SubmitAnswered, s, p
    <3>2. QED BY <2>2, <3>1 DEF Inv
  <2>6. QED BY <2>4, <2>5
<1>6. CASE Admit
  <2>1. Good(tree') /\ tree'.count = tree.count
    BY <1>0, <1>6, AdmittedGood DEF Admit, Moved
  <2>2. QED BY <1>6, <2>1 DEF Admit, Inv
<1>7. ASSUME NEW n \in NodeId, BeginWait(n) PROVE Inv'
  <2>1. Good(tree')
    BY <1>0, <1>7, WaitedGood DEF BeginWait
  <2>2. tree'.count = tree.count
    BY <1>7 DEF BeginWait, Moved
  <2>3. QED BY <1>7, <2>1, <2>2 DEF BeginWait, Inv
<1>8. ASSUME NEW n \in NodeId, Complete(n) PROVE Inv'
  <2>1. Live(tree, n) /\ tree' = EndedOne(tree, n, "Completed")
    BY <1>8 DEF Complete, Live
  <2>2. Good(tree')
    BY <1>0, <2>1, EndedOneGood
  <2>3. tree'.count = tree.count
    BY <2>1 DEF EndedOne, Ended
  <2>4. QED BY <1>8, <2>2, <2>3 DEF Complete, Inv
<1>9. ASSUME NEW n \in NodeId, CompleteLate(n) PROVE Inv'
  BY <1>0, <1>9 DEF CompleteLate, Inv
<1>10. ASSUME NEW n \in NodeId, Settle(n) PROVE Inv'
  <2>1. Live(tree, n) /\ tree' = EndedOne(tree, n, "Settled")
    BY <1>10 DEF Settle, Live
  <2>2. Good(tree')
    BY <1>0, <2>1, EndedOneGood
  <2>3. tree'.count = tree.count
    BY <2>1 DEF EndedOne, Ended
  <2>4. QED BY <1>10, <2>2, <2>3 DEF Settle, Inv
<1>11. ASSUME NEW n \in NodeId, CancelTree(n) PROVE Inv'
  <2>1. {n} \subseteq NodeId /\ Drain({n})
    BY <1>11 DEF CancelTree
  <2>2. Good(tree') /\ tree'.count = tree.count
    BY <1>0, <2>1, DrainGood
  <2>3. QED BY <1>11, <2>2 DEF CancelTree, Inv
<1>12. ASSUME NEW t \in Task, CancelTaskTree(t) PROVE Inv'
  <2> DEFINE roots == {byTask[d] : d \in TaskSubtree(t)} \ {None}
  <2>1. TaskSubtree(t) \subseteq Task
    BY DEF TaskSubtree
  <2>2. \A d \in Task : byTask[d] \in NodeId \cup {None}
    BY <1>0 DEF Inv, NodeId, None
  <2>3. roots \subseteq NodeId /\ Drain(roots)
    BY <1>12, <2>1, <2>2 DEF CancelTaskTree
  <2> HIDE DEF roots
  <2>4. Good(tree') /\ tree'.count = tree.count
    BY <1>0, <2>3, DrainGood
  <2>5. QED BY <1>12, <2>1, <2>4 DEF CancelTaskTree, Inv
<1>13. ASSUME NEW t \in Task, DeliverLate(t) PROVE Inv'
  BY <1>0, <1>13 DEF DeliverLate, Inv
<1>14. QED
  BY <1>1, <1>2, <1>3, <1>4, <1>5, <1>6, <1>7, <1>8, <1>9, <1>10, <1>11, <1>12, <1>13
     DEF Next

\* The inductive invariant holds of every behaviour of the scheduler.
THEOREM Invariance == Spec => []Inv
<1>1. QED BY InitInv, NextInv, PTL DEF Spec

\* The table of nodes keeps its shape: ids in submission order, children
\* younger than parents, every field typed.
THEOREM TypeCorrect == Spec => []TypeOK
<1>1. Inv => TypeOK
  BY DEF Inv, Good, Shape, TypeOK
<1>2. QED BY <1>1, Invariance, PTL

\* running and held_units are exactly what the Running nodes hold, and never
\* pass max_slots and resource_cap.
THEOREM SlotsSafe == Spec => [](SlotsExact /\ UnitsExact)
<1>1. Inv => SlotsExact /\ UnitsExact
  BY DEF Inv, Good, Slots, Held, Bounds, SlotsExact, UnitsExact
<1>2. QED BY <1>1, Invariance, PTL

\* The ready queue holds each Ready node once and nothing else.
THEOREM QueueSafe == Spec => []QueueExact
<1>1. Inv => QueueExact
  BY DEF Inv, Good, Queue, QueueExact
<1>2. QED BY <1>1, Invariance, PTL

\* A live node's wait count is the number of its live children.
THEOREM WaitsSafe == Spec => []WaitsExact
<1>1. Inv => WaitsExact
  BY DEF Inv, Good, Counts, WaitsExact
<1>2. QED BY <1>1, Invariance, PTL

\* A waiting node has a live child to wait for.
LEMMA WaiterHasChild ==
  ASSUME Inv, NEW p \in NodeId, tree.state[p] = "Waiting"
  PROVE  LiveChildren(tree, p) # {}
<1>1. tree.unfinished[p] > 0 /\ tree.unfinished[p] = Cardinality(LiveChildren(tree, p))
  BY DEF Inv, Good, Waiters, Counts, Live
<1>2. QED BY <1>1, FS_EmptySet

\* No wake-up is ever lost.
THEOREM WakeSafe == Spec => []NoLostWake
<1>1. Inv => NoLostWake
  BY WaiterHasChild DEF NoLostWake
<1>2. QED BY <1>1, Invariance, PTL

\* The tree never stalls: the youngest live node is queued or running, because
\* a waiting node has a live child and a child is younger than its parent.
THEOREM ProgressSafe == Spec => []NeverAllWaiting
<1>1. Inv => NeverAllWaiting
  <2> SUFFICES ASSUME Inv, NodesIn(tree, {"Waiting"}) # {},
                      NodesIn(tree, {"Ready", "Running"}) = {}
               PROVE  FALSE
    BY DEF NeverAllWaiting
  <2> DEFINE W == NodesIn(tree, {"Waiting"})
  <2>1. MaxNodes \in Nat /\ W \subseteq 1 .. MaxNodes /\ W # {}
    BY SchedulerAssumption DEF NodesIn, NodeId
  <2> HIDE DEF W
  <2>2. PICK x \in W : \A y \in W : y <= x
    BY <2>1, GreatestInInterval
  <2>3. x \in NodeId /\ tree.state[x] = "Waiting"
    BY <2>2 DEF W, NodesIn
  <2>4. PICK c \in NodeId : tree.parent[c] = x /\ Live(tree, c)
    BY <2>3, WaiterHasChild DEF LiveChildren
  <2>5. c \in W
    BY <2>4 DEF W, NodesIn, Live
  <2>6. x < c /\ x \in Nat /\ c \in Nat
    BY <2>3, <2>4, <2>1 DEF Inv, Good, Shape, NodeId
  <2>7. QED BY <2>2, <2>5, <2>6
<1>2. QED BY <1>1, Invariance, PTL

\* A terminal node stays as it ended: no edit of the table reaches it.
THEOREM TerminalSafe == Spec => TerminalIsFinal
<1> DEFINE Done(n) == tree.state[n] \in {"Completed", "Settled", "Cancelled"}
           Keeps == \A n \in NodeId : Done(n) => tree'.state[n] = tree.state[n]
<1>e. ASSUME NEW s, NEW ended, \A n \in ended : Live(s, n), NEW roots, NEW to, NEW wakes,
             NEW n \in NodeId, ~ Live(s, n), s.state[n] # "Waiting"
      PROVE  Ended(s, ended, roots, to, wakes).state[n] = s.state[n]
  <2>1. n \notin ended /\ n \notin Woken(s, ended, roots)
    BY <1>e DEF Woken
  <2>2. QED BY <2>1 DEF Ended
<1>o. ASSUME NEW s, NEW m \in NodeId, Live(s, m), NEW to, NEW n \in NodeId,
             ~ Live(s, n), s.state[n] # "Waiting"
      PROVE  EndedOne(s, m, to).state[n] = s.state[n]
  <2> DEFINE wakes == IF Woken(s, {m}, {m}) = {} THEN << >> ELSE << s.parent[m] >>
  <2>1. EndedOne(s, m, to) = Ended(s, {m}, {m}, to, wakes)
    BY DEF EndedOne
  <2> HIDE DEF wakes
  <2>2. \A k \in {m} : Live(s, k)
    BY <1>o
  <2>3. Ended(s, {m}, {m}, to, wakes).state[n] = s.state[n]
    BY <1>e, <1>o, <2>2
  <2>4. QED BY <2>1, <2>3
<1>d. ASSUME NEW roots, Drain(roots), NEW n \in NodeId, Done(n)
      PROVE  tree'.state[n] = tree.state[n]
  <2>1. PICK wakes :
          tree' = Ended(tree, {m \in Subtree(tree, roots) : Live(tree, m)}, roots,
                        "Cancelled", wakes)
    BY <1>d DEF Drain
  <2>2. ~ Live(tree, n) /\ tree.state[n] # "Waiting"
    BY <1>d DEF Live
  <2>3. QED BY <1>e, <2>1, <2>2
<1>s. ASSUME NEW s, Good(s), s.count < MaxNodes, NEW p, NEW t, NEW u, NEW n \in NodeId,
             s.state[n] # "absent"
      PROVE  Submitted(s, p, t, u).state[n] = s.state[n]
  <2>1. n <= s.count /\ s.count \in Nat /\ n \in Nat /\ s.state \in [NodeId -> NodeState]
    BY <1>s, GoodTypes DEF Good, Shape, NodeId
  <2>2. n # s.count + 1
    BY <2>1
  <2>3. QED BY <2>1, <2>2 DEF Submitted
<1>1. Inv /\ [Next]_vars => Keeps
  <2> SUFFICES ASSUME Inv, [Next]_vars, NEW n \in NodeId, Done(n)
               PROVE  tree'.state[n] = tree.state[n]
    OBVIOUS
  <2>0. /\ Good(tree) /\ ~ Live(tree, n) /\ tree.state[n] # "Waiting"
        /\ tree.state[n] # "absent" /\ tree.state \in [NodeId -> NodeState]
    BY GoodTypes DEF Inv, Live
  <2>1. CASE UNCHANGED tree
    BY <2>1
  <2>2. CASE \E p \in NodeId \cup {None}, t \in Task, u \in Units : Submit(p, t, u)
    BY <2>0, <2>2, <1>s DEF Submit
  <2>3. ASSUME NEW t \in Task, SubmitAnswered(t) PROVE tree'.state[n] = tree.state[n]
    <3> DEFINE s == Retired(tree, byTask[t])
    <3>1. byTask[t] \in NodeId \cup {None} /\ tree.count < MaxNodes
      BY <2>3, SchedulerAssumption, GoodTypes DEF Inv, NodeId, None, SubmitAnswered
    <3>2. Good(s) /\ s.count = tree.count
      BY <2>0, <3>1, RetiredGood
    <3>3. s.state[n] = tree.state[n]
      <4>1. CASE byTask[t] # None /\ Live(tree, byTask[t])
        <5>1. byTask[t] \in NodeId /\ s = EndedOne(tree, byTask[t], "Settled")
          BY <3>1, <4>1 DEF Retired
        <5>2. QED BY <4>1, <5>1, <2>0, <1>o
      <4>2. CASE ~(byTask[t] # None /\ Live(tree, byTask[t]))
        BY <4>2 DEF Retired
      <4>3. QED BY <4>1, <4>2
    <3> HIDE DEF s
    <3>4. tree' = s \/ \E p : tree' = Submitted(s, p, t, 1)
      BY <2>3 DEF SubmitAnswered, s
    <3>5. QED BY <3>1, <3>2, <3>3, <3>4, <2>0, <1>s
  <2>4. CASE Admit
    <3>1. /\ Queue(tree) /\ tree.ready \in Seq(NodeId) /\ tree.ready # << >>
          /\ tree'.state = [tree.state EXCEPT ![Head(tree.ready)] = "Running"]
      BY <2>0, <2>4, GoodTypes DEF Admit, Good, Moved
    <3>2. tree.state[Head(tree.ready)] = "Ready"
      <4>1. 1 \in DOMAIN tree.ready /\ Head(tree.ready) = tree.ready[1]
        BY <3>1
      <4>2. QED BY <3>1, <4>1 DEF Queue
    <3>3. n # Head(tree.ready)
      BY <3>2, <2>0 DEF Live
    <3>4. QED BY <3>1, <3>3, <2>0
  <2>5. CASE \E m \in NodeId : BeginWait(m)
    BY <2>0, <2>5 DEF BeginWait, Moved
  <2>6. CASE \E m \in NodeId : Complete(m) \/ Settle(m)
    <3>1. PICK m \in NodeId : Complete(m) \/ Settle(m)
      BY <2>6
    <3>2. Live(tree, m) /\ \E to : tree' = EndedOne(tree, m, to)
      BY <3>1 DEF Complete, Settle, Live
    <3>3. QED BY <3>2, <2>0, <1>o
  <2>7. CASE \E m \in NodeId : CancelTree(m)
    BY <2>7, <1>d DEF CancelTree
  <2>8. CASE \E t \in Task : CancelTaskTree(t)
    BY <2>8, <1>d DEF CancelTaskTree
  <2>9. QED
    BY <2>1, <2>2, <2>3, <2>4, <2>5, <2>6, <2>7, <2>8
       DEF Next, vars, Create, ReplayCreate, CompleteLate, DeliverLate
<1>2. Inv /\ [Next]_vars
        => [\A n \in NodeId : tree.state[n] \in {"Completed", "Settled", "Cancelled"}
              => tree'.state[n] = tree.state[n]]_vars
  BY <1>1
<1>3. QED BY <1>2, Invariance, PTL DEF Spec, TerminalIsFinal

-----------------------------------------------------------------------------
\* Refinement.  A quiet edit of the table starts no node and moves each one
\* along the pool's edges or not at all.
Quietly(s, r) ==
    \A n \in NodeId :
        \/ r.state[n] = s.state[n]
        \/ <<PhaseOf(s.state[n]), PhaseOf(r.state[n])>> \in Pool!Moves
           /\ PhaseOf(r.state[n]) # "active"

\* Ending live nodes and waking their parents is quiet.
LEMMA EndedQuietly ==
  ASSUME NEW s, NEW ended, ended \subseteq NodeId, \A n \in ended : Live(s, n), NEW roots,
         NEW to \in {"Completed", "Settled", "Cancelled"}, NEW wakes
  PROVE  Quietly(s, Ended(s, ended, roots, to, wakes))
<1> DEFINE r == Ended(s, ended, roots, to, wakes)
<1> SUFFICES ASSUME NEW n \in NodeId, r.state[n] # s.state[n]
             PROVE  <<PhaseOf(s.state[n]), PhaseOf(r.state[n])>> \in Pool!Moves
                    /\ PhaseOf(r.state[n]) # "active"
  BY DEF Quietly
<1>0. r.state[n] = IF n \in ended THEN to
                   ELSE IF n \in Woken(s, ended, roots) THEN "Ready" ELSE s.state[n]
  BY DEF Ended
<1>1. CASE n \in ended
  <2>1. s.state[n] \in {"Ready", "Running", "Waiting"} /\ r.state[n] = to
    BY <1>0, <1>1 DEF Live
  <2>2. QED BY <2>1 DEF PhaseOf, Pool!Moves
<1>2. CASE n \notin ended
  <2>1. s.state[n] = "Waiting" /\ r.state[n] = "Ready"
    BY <1>0, <1>2 DEF Woken
  <2>2. QED BY <2>1 DEF PhaseOf, Pool!Moves
<1>3. QED BY <1>1, <1>2

\* And so is one node ending.
LEMMA EndedOneQuietly ==
  ASSUME NEW s, NEW m \in NodeId, Live(s, m), NEW to \in {"Completed", "Settled", "Cancelled"}
  PROVE  Quietly(s, EndedOne(s, m, to))
<1> DEFINE wakes == IF Woken(s, {m}, {m}) = {} THEN << >> ELSE << s.parent[m] >>
<1>1. EndedOne(s, m, to) = Ended(s, {m}, {m}, to, wakes)
  BY DEF EndedOne
<1> HIDE DEF wakes
<1>2. QED BY <1>1, EndedQuietly

\* A submission only queues a node that was absent.
LEMMA SubmittedState ==
  ASSUME NEW s, Good(s), s.count < MaxNodes, NEW p, NEW t, NEW u
  PROVE  /\ s.count + 1 \in NodeId
         /\ s.state[s.count + 1] = "absent"
         /\ Submitted(s, p, t, u).state[s.count + 1] = "Ready"
         /\ \A n \in NodeId : n # s.count + 1 =>
                Submitted(s, p, t, u).state[n] = s.state[n]
<1>1. /\ s.count \in Nat /\ s.count + 1 \in NodeId /\ s.state \in [NodeId -> NodeState]
      /\ \A n \in NodeId : (n <= s.count) <=> (s.state[n] # "absent")
  BY GoodTypes, SchedulerAssumption DEF Good, Shape, NodeId
<1>2. s.state[s.count + 1] = "absent"
  <2>1. ~ (s.count + 1 <= s.count)
    BY <1>1
  <2>2. QED BY <1>1, <2>1
<1>3. Submitted(s, p, t, u).state = [s.state EXCEPT ![s.count + 1] = "Ready"]
  BY DEF Submitted
<1>4. QED BY <1>1, <1>2, <1>3

\* The scheduler implements the pool of slots it promises: every call is a
\* quiet move of the nodes, or the start of one queued node into a free slot.
THEOREM Refinement == Spec => ImplementsPool
<1>1. Init => Pool!Init
  BY DEF Init, EmptyTree, Pool!Init, phases, PhaseOf
<1>q. ASSUME Good(tree'), Quietly(tree, tree') PROVE Pool!Shift
  <2>1. tree'.state \in [NodeId -> NodeState]
    BY <1>q, GoodTypes
  <2>2. ASSUME NEW n \in NodeId
        PROVE  /\ phases'[n] = PhaseOf(tree'.state[n]) /\ phases[n] = PhaseOf(tree.state[n])
               /\ phases'[n] \in Pool!Phases
    BY <2>1 DEF phases, PhaseOf, Pool!Phases
  <2>3. phases' \in [NodeId -> Pool!Phases]
    BY <2>2 DEF phases
  <2>4. ASSUME NEW n \in NodeId
        PROVE  /\ phases'[n] # phases[n] => <<phases[n], phases'[n]>> \in Pool!Moves
               /\ phases'[n] = "active" => phases[n] = "active"
    BY <1>q, <2>2 DEF Quietly
  <2>5. QED BY <2>3, <2>4 DEF Pool!Shift
<1>s. ASSUME Good(tree), tree.ready # << >>, tree.running # MaxSlots, Admit
      PROVE  \E n \in NodeId : Pool!Start(n)
  <2> DEFINE n == Head(tree.ready)
  <2>1. /\ Queue(tree) /\ tree.ready \in Seq(NodeId)
        /\ tree.state \in [NodeId -> NodeState] /\ Slots(tree)
        /\ tree'.state = [tree.state EXCEPT ![n] = "Running"]
    BY <1>s, GoodTypes DEF Admit, Good, Moved
  <2>2. n \in NodeId /\ tree.state[n] = "Ready"
    <3>1. 1 \in DOMAIN tree.ready /\ n = tree.ready[1]
      BY <1>s, <2>1
    <3>2. QED BY <2>1, <3>1 DEF Queue
  <2>3. phases[n] = "queued"
    BY <2>2 DEF phases, PhaseOf
  <2>4. Pool!Active(phases) = NodesIn(tree, {"Running"})
    <3>1. ASSUME NEW m \in NodeId PROVE (phases[m] = "active") <=> (tree.state[m] \in {"Running"})
      BY <2>1 DEF phases, PhaseOf, NodeState
    <3>2. QED BY <3>1 DEF Pool!Active, NodesIn
  <2>5. Cardinality(Pool!Active(phases)) < MaxSlots
    <3>1. tree.running <= MaxSlots /\ tree.running \in Int /\ MaxSlots \in Int
      BY <1>s, SchedulerAssumption, GoodTypes DEF Good, Bounds
    <3>2. tree.running < MaxSlots
      BY <3>1, <1>s
    <3>3. QED BY <2>1, <2>4, <3>2 DEF Slots
  <2>6. phases' = [phases EXCEPT ![n] = "active"]
    <3>1. ASSUME NEW m \in NodeId
          PROVE  PhaseOf(tree'.state[m]) = IF m = n THEN "active" ELSE PhaseOf(tree.state[m])
      BY <2>1, <2>2 DEF PhaseOf
    <3>2. QED BY <3>1 DEF phases
  <2>7. Pool!Start(n)
    <3>1. Pool!Cardinality(Pool!Active(phases)) = Cardinality(Pool!Active(phases))
      BY DEF Cardinality, Pool!Cardinality
    <3>2. QED BY <2>3, <2>5, <2>6, <3>1 DEF Pool!Start
  <2>8. QED BY <2>2, <2>7
<1>d. ASSUME NEW roots, Drain(roots) PROVE Quietly(tree, tree')
  <2> DEFINE ended == {m \in Subtree(tree, roots) : Live(tree, m)}
  <2>1. PICK wakes : tree' = Ended(tree, ended, roots, "Cancelled", wakes)
    BY <1>d DEF Drain
  <2>2. ended \subseteq NodeId /\ \A m \in ended : Live(tree, m)
    BY DEF Subtree
  <2> HIDE DEF ended
  <2>3. QED BY <2>1, <2>2, EndedQuietly
<1>b. ASSUME NEW s, Good(s), s.count < MaxNodes, NEW p, NEW t, NEW u, Quietly(tree, s),
             s.state[s.count + 1] = tree.state[s.count + 1]
      PROVE  Quietly(tree, Submitted(s, p, t, u))
  <2> DEFINE r == Submitted(s, p, t, u)
  <2>1. /\ s.count + 1 \in NodeId /\ tree.state[s.count + 1] = "absent"
        /\ r.state[s.count + 1] = "Ready"
        /\ \A n \in NodeId : n # s.count + 1 => r.state[n] = s.state[n]
    BY <1>b, SubmittedState
  <2>2. <<PhaseOf("absent"), PhaseOf("Ready")>> \in Pool!Moves /\ PhaseOf("Ready") # "active"
    BY DEF PhaseOf, Pool!Moves
  <2> HIDE DEF r
  <2>3. ASSUME NEW n \in NodeId
        PROVE  \/ r.state[n] = tree.state[n]
               \/ <<PhaseOf(tree.state[n]), PhaseOf(r.state[n])>> \in Pool!Moves
                  /\ PhaseOf(r.state[n]) # "active"
    <3>1. CASE n = s.count + 1
      BY <3>1, <2>1, <2>2
    <3>2. CASE n # s.count + 1
      BY <3>2, <2>1, <1>b DEF Quietly
    <3>3. QED BY <3>1, <3>2
  <2>4. QED BY <2>3 DEF Quietly, r
<1>2. Inv /\ Inv' /\ [Next]_vars => [Pool!Next]_phases
  <2> SUFFICES ASSUME Inv, Inv', [Next]_vars PROVE [Pool!Next]_phases
    OBVIOUS
  <2>0. Good(tree) /\ Good(tree')
    BY DEF Inv
  <2>1. CASE UNCHANGED tree
    BY <2>1 DEF phases
  <2>2. CASE \E p \in NodeId \cup {None}, t \in Task, u \in Units : Submit(p, t, u)
    <3>1. Quietly(tree, tree)
      BY DEF Quietly
    <3>2. Quietly(tree, tree')
      BY <2>0, <2>2, <3>1, <1>b DEF Submit
    <3>3. QED BY <3>2, <2>0, <1>q DEF Pool!Next
  <2>3. ASSUME NEW t \in Task, SubmitAnswered(t) PROVE Pool!Next
    <3> DEFINE s == Retired(tree, byTask[t])
    <3>1. byTask[t] \in NodeId \cup {None} /\ tree.count < MaxNodes
      BY <2>3, SchedulerAssumption, GoodTypes DEF Inv, NodeId, None, SubmitAnswered
    <3>2. Good(s) /\ s.count = tree.count
      BY <2>0, <3>1, RetiredGood
    <3>3. Quietly(tree, s)
      <4>1. CASE byTask[t] # None /\ Live(tree, byTask[t])
        <5>1. byTask[t] \in NodeId /\ s = EndedOne(tree, byTask[t], "Settled")
          BY <3>1, <4>1 DEF Retired
        <5>2. QED BY <4>1, <5>1, EndedOneQuietly
      <4>2. CASE ~(byTask[t] # None /\ Live(tree, byTask[t]))
        BY <4>2 DEF Retired, Quietly
      <4>3. QED BY <4>1, <4>2
    <3> HIDE DEF s
    <3>4. s.state[s.count + 1] = tree.state[s.count + 1]
      <4>1. s.state[tree.count + 1] = "absent" /\ tree.state[tree.count + 1] = "absent"
        BY <2>0, <3>1, <3>2, SubmittedState
      <4>2. QED BY <4>1, <3>2
    <3>5. tree' = s \/ \E p : tree' = Submitted(s, p, t, 1)
      BY <2>3 DEF SubmitAnswered, s
    <3>6. Quietly(tree, tree')
      BY <3>1, <3>2, <3>3, <3>4, <3>5, <1>b
    <3>7. QED BY <3>6, <2>0, <1>q DEF Pool!Next
  <2>4. CASE Admit
    <3>1. tree.ready # << >> /\ tree.running # MaxSlots
      BY <2>4 DEF Admit
    <3>2. QED BY <2>0, <2>4, <3>1, <1>s DEF Pool!Next
  <2>5. CASE \E m \in NodeId : BeginWait(m)
    <3>1. PICK m \in NodeId : BeginWait(m)
      BY <2>5
    <3>2. /\ tree.state[m] = "Running" /\ tree.state \in [NodeId -> NodeState]
          /\ tree'.state = [tree.state EXCEPT ![m] = "Waiting"]
      BY <2>0, <3>1, GoodTypes DEF BeginWait, Moved
    <3>3. <<PhaseOf("Running"), PhaseOf("Waiting")>> \in Pool!Moves /\ PhaseOf("Waiting") # "active"
      BY DEF PhaseOf, Pool!Moves
    <3>4. Quietly(tree, tree')
      BY <3>2, <3>3 DEF Quietly
    <3>5. QED BY <3>4, <2>0, <1>q DEF Pool!Next
  <2>6. CASE \E m \in NodeId : Complete(m) \/ Settle(m)
    <3>1. PICK m \in NodeId : Complete(m) \/ Settle(m)
      BY <2>6
    <3>2. Live(tree, m) /\ \E to \in {"Completed", "Settled", "Cancelled"} :
                               tree' = EndedOne(tree, m, to)
      BY <3>1 DEF Complete, Settle, Live
    <3>3. QED BY <3>2, <2>0, EndedOneQuietly, <1>q DEF Pool!Next
  <2>7. CASE \E m \in NodeId : CancelTree(m)
    BY <2>0, <2>7, <1>d, <1>q DEF CancelTree, Pool!Next
  <2>8. CASE \E t \in Task : CancelTaskTree(t)
    BY <2>0, <2>8, <1>d, <1>q DEF CancelTaskTree, Pool!Next
  <2>9. QED
    BY <2>1, <2>2, <2>3, <2>4, <2>5, <2>6, <2>7, <2>8
       DEF Next, vars, Create, ReplayCreate, CompleteLate, DeliverLate
<1>3. QED BY <1>1, <1>2, Invariance, PTL DEF Spec, ImplementsPool, Pool!Spec

\* The books of the tree as a whole, for any number of slots, units and calls.
THEOREM AccountsSafe == Spec => []AccountsExact
<1>1. Inv => AccountsExact
  BY DEF Inv, Good, Shape, Slots, Held, Bounds, Queue, Counts,
         AccountsExact, TypeOK, SlotsExact, UnitsExact, QueueExact, WaitsExact
<1>2. QED BY <1>1, Invariance, PTL

\* Whoever waits can be woken.
THEOREM WaitsSafeToEnd == Spec => []WaitsCanEnd
<1>1. NoLostWake /\ NeverAllWaiting => WaitsCanEnd
  BY DEF WaitsCanEnd
<1>2. QED BY <1>1, WakeSafe, ProgressSafe, PTL

-----------------------------------------------------------------------------
(***************************************************************************)
(* No bypass.                                                              *)
(***************************************************************************)

\* Retain keeps the order of what it keeps.
LEMMA RetainOrder ==
  ASSUME NEW S, NEW q \in Seq(S), NEW K,
         NEW x \in DOMAIN q, NEW y \in DOMAIN q, x < y, q[x] \in K, q[y] \in K
  PROVE  \E a, b \in DOMAIN Retain(q, K) :
             a < b /\ Retain(q, K)[a] = q[x] /\ Retain(q, K)[b] = q[y]
<1> DEFINE n == Len(q)
           F == RetainFn(q, K)
           Kept(r, k) ==
             /\ r \in Seq(S)
             /\ \A j \in 1 .. k : q[j] \in K => \E b \in DOMAIN r : r[b] = q[j]
             /\ \A i, j \in 1 .. k : i < j /\ q[i] \in K /\ q[j] \in K =>
                  \E a, b \in DOMAIN r : a < b /\ r[a] = q[i] /\ r[b] = q[j]
           G == {k \in 0 .. n : Kept(F[k], k)}
<1>0. n \in Nat /\ DOMAIN q = 1 .. n
  OBVIOUS
<1>1. \A k \in 0 .. n : F[k] = RetainStep(F, q, K, k)
  BY <1>0, RetainFnExists
<1> HIDE DEF F
<1>2. 0 \in G
  <2>1. F[0] = << >>
    BY <1>0, <1>1 DEF RetainStep
  <2>2. 1 .. 0 = {} /\ << >> \in Seq(S) /\ 0 \in 0 .. n
    BY <1>0
  <2>3. Kept(<< >>, 0)
    BY <2>2, Zenon
  <2> HIDE DEF Kept
  <2>4. Kept(F[0], 0)
    BY <2>1, <2>3
  <2>5. QED BY <2>2, <2>4
<1> HIDE DEF Kept, G
<1>3. ASSUME NEW k \in 0 .. n, k # n, k \in G PROVE k + 1 \in G
  <2>0. n \in Nat /\ k \in 0 .. n /\ k # n
    BY <1>0, <1>3
  <2>d. DOMAIN q = 1 .. n
    BY <1>0
  <2> HIDE DEF n
  <2>s. k + 1 \in DOMAIN q
    BY <2>0, <2>d
  <2>1. k + 1 \in 0 .. n /\ k + 1 # 0 /\ (k + 1) - 1 = k /\ k \in Nat
    BY <2>0
  <2>2. F[k + 1] = IF q[k + 1] \in K THEN Append(F[k], q[k + 1]) ELSE F[k]
    BY <1>1, <2>1 DEF RetainStep
  <2>3. Kept(F[k], k)
    BY <1>3 DEF G
  <2>4. CASE q[k + 1] \notin K
    <3>1. F[k + 1] = F[k]
      BY <2>2, <2>4
    <3>2. \A j \in 1 .. k + 1 : q[j] \in K => j \in 1 .. k
      BY <2>1, <2>4
    <3>3. Kept(F[k], k + 1)
      BY <3>2, <2>3 DEF Kept
    <3>4. QED BY <3>1, <3>3, <2>1 DEF G
  <2>5. CASE q[k + 1] \in K
    <3> DEFINE r == F[k]
               r1 == Append(r, q[k + 1])
    <3>1. F[k + 1] = r1
      BY <2>2, <2>5
    <3>2. r \in Seq(S) /\ q[k + 1] \in S
      BY <2>3, <2>s DEF Kept
    <3>3. r1 \in Seq(S) /\ DOMAIN r1 = 1 .. Len(r) + 1 /\ DOMAIN r = 1 .. Len(r) /\ Len(r) \in Nat
      BY <3>2
    <3>4. r1[Len(r) + 1] = q[k + 1] /\ \A i \in 1 .. Len(r) : r1[i] = r[i]
      BY <3>2
    <3>5. /\ \A j \in 1 .. k : q[j] \in K => \E b \in DOMAIN r : r[b] = q[j]
          /\ \A i, j \in 1 .. k : i < j /\ q[i] \in K /\ q[j] \in K =>
               \E a, b \in DOMAIN r : a < b /\ r[a] = q[i] /\ r[b] = q[j]
      BY <2>3 DEF Kept
    <3> HIDE DEF r, r1
    <3>6. ASSUME NEW j \in 1 .. k + 1, q[j] \in K PROVE \E b \in DOMAIN r1 : r1[b] = q[j]
      <4>1. CASE j = k + 1
        BY <4>1, <3>3, <3>4
      <4>2. CASE j # k + 1
        <5>1. j \in 1 .. k
          BY <4>2, <2>1
        <5>2. PICK b \in DOMAIN r : r[b] = q[j]
          BY <5>1, <3>5, <3>6
        <5>3. QED BY <5>2, <3>3, <3>4
      <4>3. QED BY <4>1, <4>2
    <3>7. ASSUME NEW i \in 1 .. k + 1, NEW j \in 1 .. k + 1, i < j, q[i] \in K, q[j] \in K
          PROVE  \E a, b \in DOMAIN r1 : a < b /\ r1[a] = q[i] /\ r1[b] = q[j]
      <4>0. i \in 1 .. k
        BY <3>7, <2>1
      <4>1. CASE j = k + 1
        <5>1. PICK a \in DOMAIN r : r[a] = q[i]
          BY <4>0, <3>5, <3>7
        <5>2. a \in DOMAIN r1 /\ Len(r) + 1 \in DOMAIN r1 /\ a < Len(r) + 1 /\ r1[a] = q[i]
          BY <5>1, <3>3, <3>4
        <5>3. QED BY <5>2, <4>1, <3>4
      <4>2. CASE j # k + 1
        <5>1. j \in 1 .. k
          BY <4>2, <2>1
        <5>2. PICK a \in DOMAIN r, b \in DOMAIN r : a < b /\ r[a] = q[i] /\ r[b] = q[j]
          BY <4>0, <5>1, <3>5, <3>7
        <5>3. QED BY <5>2, <3>3, <3>4
      <4>3. QED BY <4>1, <4>2
    <3>8. Kept(r1, k + 1)
      BY <3>3, <3>6, <3>7 DEF Kept
    <3>9. QED BY <3>1, <3>8, <2>1 DEF G
  <2>6. QED BY <2>4, <2>5
<1>4. n \in G
  <2>1. n \in 0 .. n
    BY <1>0
  <2> HIDE DEF n
  <2>2. QED BY <1>0, <1>2, <1>3, <2>1, IntervalInduction
<1>5. Kept(F[n], n)
  BY <1>4 DEF G
<1>6. Retain(q, K) = F[n]
  BY RetainIsFn DEF F
<1>7. QED BY <1>0, <1>5, <1>6 DEF Kept

\* Of two nodes queued in s the later one is not ahead in r.
Ahead(s, r) ==
    \A m, n \in NodeId :
        Before(s, m, n) /\ r.state[m] = "Ready"
            => Before(r, m, n) \/ r.state[n] \notin {"Ready", "Running"}

\* Ending nodes and queueing the woken parents lets nobody past.
LEMMA EndedAhead ==
  ASSUME NEW s, Good(s), NEW ended, NEW roots, NEW to \in {"Completed", "Settled", "Cancelled"},
         NEW X, NEW wakes \in Seq(X)
  PROVE  Ahead(s, Ended(s, ended, roots, to, wakes))
<1> DEFINE r == Ended(s, ended, roots, to, wakes)
           q == s.ready
           K == NodeId \ ended
           k == Retain(q, K)
<1>1. q \in Seq(NodeId)
  BY GoodTypes
<1>2. r.ready = k \o wakes /\ \A n \in NodeId : n \in ended => r.state[n] = to
  BY DEF Ended
<1> HIDE DEF r
<1> SUFFICES ASSUME NEW m \in NodeId, NEW n \in NodeId, Before(s, m, n), r.state[m] = "Ready",
                    r.state[n] \in {"Ready", "Running"}
             PROVE  Before(r, m, n)
  BY DEF Ahead, r
<1>3. m \in K /\ n \in K
  BY <1>2
<1>4. PICK i \in DOMAIN q, j \in DOMAIN q : i < j /\ q[i] = m /\ q[j] = n
  BY DEF Before
<1>5. k \in Seq(NodeId) /\ \E a, b \in DOMAIN k : a < b /\ k[a] = q[i] /\ k[b] = q[j]
  <2> HIDE DEF K
  <2>1. k \in Seq(NodeId)
    BY <1>1, RetainFacts
  <2>2. s.ready[i] \in K /\ s.ready[j] \in K
    BY <1>3, <1>4
  <2>3. QED BY <2>1, <2>2, <1>1, <1>4, RetainOrder
<1> HIDE DEF k
<1>6. PICK a \in DOMAIN k, b \in DOMAIN k : a < b /\ k[a] = m /\ k[b] = n
  BY <1>4, <1>5
<1>7. /\ a \in DOMAIN (k \o wakes) /\ b \in DOMAIN (k \o wakes)
      /\ (k \o wakes)[a] = k[a] /\ (k \o wakes)[b] = k[b]
  BY <1>5, <1>6
<1>8. QED BY <1>2, <1>6, <1>7 DEF Before

\* So does one node ending.
LEMMA EndedOneAhead ==
  ASSUME NEW s, Good(s), NEW n, NEW to \in {"Completed", "Settled", "Cancelled"}
  PROVE  Ahead(s, EndedOne(s, n, to))
<1> DEFINE wakes == IF Woken(s, {n}, {n}) = {} THEN << >> ELSE << s.parent[n] >>
<1>1. wakes \in Seq({s.parent[n]})
  <2> DEFINE x == s.parent[n]
  <2>1. << >> \in Seq({x}) /\ << x >> \in Seq({x})
    <3> HIDE DEF x
    <3>1. QED OBVIOUS
  <2>2. QED BY <2>1
<1>2. EndedOne(s, n, to) = Ended(s, {n}, {n}, to, wakes)
  BY DEF EndedOne
<1> HIDE DEF wakes
<1>3. QED BY <1>1, <1>2, EndedAhead

\* And a drain.
LEMMA DrainAhead ==
  ASSUME Good(tree), NEW roots, Drain(roots)
  PROVE  Ahead(tree, tree')
<1> DEFINE ended == {m \in Subtree(tree, roots) : Live(tree, m)}
           W == Woken(tree, ended, roots)
<1>1. PICK wakes \in Orders(W) : tree' = Ended(tree, ended, roots, "Cancelled", wakes)
  BY DEF Drain
<1>2. W \subseteq NodeId
  BY DEF Woken
<1> HIDE DEF W
<1>3. wakes \in Seq(W)
  <2>1. Cardinality(W) \in Nat
    BY <1>2, NodeSetsFinite
  <2>2. QED BY <1>1, <2>1 DEF Orders
<1> HIDE DEF ended
<1>4. QED BY <1>1, <1>3, EndedAhead

\* A node that is queued last is ahead of nobody.
LEMMA SubmittedAhead ==
  ASSUME NEW s0, Good(s0), NEW s, Good(s), Ahead(s0, s), s.count = s0.count, s.count < MaxNodes,
         NEW p, NEW t, NEW u
  PROVE  Ahead(s0, Submitted(s, p, t, u))
<1> DEFINE r == Submitted(s, p, t, u)
           x == s.count + 1
           q == s.ready
<1>1. /\ q \in Seq(NodeId) /\ s0.ready \in Seq(NodeId) /\ x \in NodeId
      /\ \A n \in NodeId : n # x => r.state[n] = s.state[n]
  <2>1. q \in Seq(NodeId) /\ s0.ready \in Seq(NodeId)
    BY GoodTypes
  <2>2. x \in NodeId /\ \A n \in NodeId : n # x => r.state[n] = s.state[n]
    BY SubmittedState
  <2>3. QED BY <2>1, <2>2
<1>2. r.ready = Append(q, x)
  BY DEF Submitted
<1>3. \A i \in DOMAIN s0.ready : s0.ready[i] # x
  <2> SUFFICES ASSUME NEW i \in DOMAIN s0.ready, s0.ready[i] = x PROVE FALSE
    OBVIOUS
  <2>1. s0.state[x] = "Ready"
    BY DEF Good, Queue
  <2>2. x <= s0.count
    BY <1>1, <2>1 DEF Good, Shape
  <2>3. s0.count \in Nat
    BY GoodTypes, SchedulerAssumption
  <2>4. QED BY <2>2, <2>3
<1> HIDE DEF r, x
<1> SUFFICES ASSUME NEW m \in NodeId, NEW n \in NodeId, Before(s0, m, n), r.state[m] = "Ready",
                    r.state[n] \in {"Ready", "Running"}
             PROVE  Before(r, m, n)
  BY DEF Ahead, r
<1>4. m # x /\ n # x
  BY <1>3 DEF Before
<1>5. Before(s, m, n)
  BY <1>1, <1>4 DEF Ahead
<1>6. PICK i \in DOMAIN q, j \in DOMAIN q : i < j /\ q[i] = m /\ q[j] = n
  BY <1>5 DEF Before
<1>7. /\ i \in DOMAIN Append(q, x) /\ j \in DOMAIN Append(q, x)
      /\ Append(q, x)[i] = q[i] /\ Append(q, x)[j] = q[j]
  BY <1>1, <1>6
<1>8. QED BY <1>2, <1>6, <1>7 DEF Before

\* The queue is first in, first out: no call lets a queued node start, or stand, ahead of
\* one queued before it.
THEOREM BypassSafe == Spec => NoBypass
<1>1. Inv /\ [Next]_vars => Ahead(tree, tree')
  <2> SUFFICES ASSUME Inv, [Next]_vars PROVE Ahead(tree, tree')
    OBVIOUS
  <2>0. Good(tree) /\ tree.ready \in Seq(NodeId) /\ tree.state \in [NodeId -> NodeState]
    BY GoodTypes DEF Inv
  <2>a. Ahead(tree, tree)
    BY DEF Ahead
  <2>1. CASE UNCHANGED tree
    BY <2>a, <2>1 DEF Ahead, Before
  <2>2. CASE \E p \in NodeId \cup {None}, t \in Task, u \in Units : Submit(p, t, u)
    BY <2>0, <2>2, <2>a, SubmittedAhead DEF Submit
  <2>3. ASSUME NEW t \in Task, SubmitAnswered(t) PROVE Ahead(tree, tree')
    <3> DEFINE s == Retired(tree, byTask[t])
    <3>1. byTask[t] \in NodeId \cup {None} /\ tree.count < MaxNodes
      BY <2>3, SchedulerAssumption, GoodTypes DEF Inv, NodeId, None, SubmitAnswered
    <3>2. Good(s) /\ s.count = tree.count
      BY <2>0, <3>1, RetiredGood
    <3>3. Ahead(tree, s)
      BY <2>0, <2>a, EndedOneAhead DEF Retired
    <3> HIDE DEF s
    <3>4. tree' = s \/ \E p : tree' = Submitted(s, p, t, 1)
      BY <2>3 DEF SubmitAnswered, s
    <3>5. QED BY <3>1, <3>2, <3>3, <3>4, <2>0, SubmittedAhead
  <2>4. CASE Admit
    <3> DEFINE q == tree.ready
    <3>1. /\ q # << >> /\ tree'.ready = Tail(q)
          /\ tree'.state = [tree.state EXCEPT ![Head(q)] = "Running"]
      BY <2>0, <2>4 DEF Admit, Moved
    <3>2. 1 \in DOMAIN q /\ Head(q) = q[1] /\ q[1] \in NodeId
      BY <2>0, <3>1
    <3> SUFFICES ASSUME NEW m \in NodeId, NEW n \in NodeId, Before(tree, m, n), tree'.state[m] = "Ready"
                 PROVE  Before(tree', m, n)
      BY DEF Ahead
    <3>3. m # q[1]
      BY <2>0, <3>1, <3>2
    <3>4. PICK i \in DOMAIN q, j \in DOMAIN q : i < j /\ q[i] = m /\ q[j] = n
      BY DEF Before
    <3>5. i # 1
      BY <3>3, <3>4
    <3>6. /\ i - 1 \in DOMAIN Tail(q) /\ j - 1 \in DOMAIN Tail(q) /\ i - 1 < j - 1
          /\ Tail(q)[i - 1] = q[i] /\ Tail(q)[j - 1] = q[j]
      BY <2>0, <3>1, <3>4, <3>5
    <3>7. QED BY <3>1, <3>4, <3>6 DEF Before
  <2>5. CASE \E m \in NodeId : BeginWait(m)
    <3>1. PICK k \in NodeId : BeginWait(k)
      BY <2>5
    <3>2. tree'.ready = tree.ready
      BY <3>1 DEF BeginWait, Moved
    <3>3. QED BY <3>2 DEF Ahead, Before
  <2>6. CASE \E m \in NodeId : Complete(m) \/ Settle(m)
    BY <2>0, <2>6, EndedOneAhead DEF Complete, Settle
  <2>7. CASE \E m \in NodeId : CancelTree(m)
    BY <2>0, <2>7, DrainAhead DEF CancelTree
  <2>8. CASE \E t \in Task : CancelTaskTree(t)
    BY <2>0, <2>8, DrainAhead DEF CancelTaskTree
  <2>9. QED
    BY <2>1, <2>2, <2>3, <2>4, <2>5, <2>6, <2>7, <2>8
       DEF Next, vars, Create, ReplayCreate, CompleteLate, DeliverLate
<1>2. Inv /\ [Next]_vars
        => [\A m, n \in NodeId :
              Before(tree, m, n) /\ tree'.state[m] = "Ready"
                => Before(tree', m, n) \/ tree'.state[n] \notin {"Ready", "Running"}]_vars
  BY <1>1 DEF Ahead
<1>3. QED BY <1>2, Invariance, PTL DEF Spec, NoBypass

-----------------------------------------------------------------------------
(***************************************************************************)
(* Cancelled and replaced work stays out of the tree, when every dispatch  *)
(* goes through submit_answered and a create is not replayed under another *)
(* parent.                                                                 *)
(***************************************************************************)

\* Only tasks the store holds are linked or dispatched.
Known ==
    /\ \A x \in Task : parents[x] # NoTask => x \in created /\ parents[x] \in created
    /\ \A n \in NodeId : Live(tree, n) => tree.task[n] \in created

\* A live node is the latest of its task.
LatestLives == \A n \in NodeId : Live(tree, n) => byTask[tree.task[n]] = n

TreeInv == Known /\ LatestLives /\ CancelledTreesStayDead

\* A task is in its own ancestry, and the ancestry of an ancestor is part of it.
LEMMA AncestryOfAncestor ==
  /\ \A d \in Task : d \in Ancestry(d)
  /\ \A a, b, d \in Task : a \in Ancestry(b) /\ b \in Ancestry(d) => a \in Ancestry(d)
<1>1. ASSUME NEW d \in Task PROVE d \in Ancestry(d)
  BY DEF Ancestry
<1>2. ASSUME NEW a \in Task, NEW b \in Task, NEW d \in Task, a \in Ancestry(b), b \in Ancestry(d)
      PROVE  a \in Ancestry(d)
  <2> SUFFICES ASSUME NEW S \in SUBSET Task, d \in S,
                      \A x \in S : parents[x] # NoTask => parents[x] \in S
               PROVE  a \in S
    BY DEF Ancestry
  <2>1. b \in S
    BY <1>2 DEF Ancestry
  <2>2. QED BY <1>2, <2>1 DEF Ancestry
<1>3. QED BY <1>1, <1>2

\* Linking a task the store did not hold moves no task it holds.
LEMMA AncestryKept ==
  ASSUME Known, NEW t \in Task, t \notin created, created \subseteq Task,
         \A x \in Task \ {t} : parents'[x] = parents[x], NEW d \in created
  PROVE  Ancestry(d)' \subseteq Ancestry(d)
<1> SUFFICES ASSUME NEW a \in Task, a \in Ancestry(d)', NEW S \in SUBSET Task, d \in S,
                    \A x \in S : parents[x] # NoTask => parents[x] \in S
             PROVE  a \in S
  BY DEF Ancestry
<1> DEFINE C == S \cap created
<1>1. C \in SUBSET Task /\ d \in C
  OBVIOUS
<1>2. \A x \in C : parents'[x] # NoTask => parents'[x] \in C
  <2> SUFFICES ASSUME NEW x \in C, parents'[x] # NoTask PROVE parents'[x] \in C
    OBVIOUS
  <2>1. x \in Task \ {t} /\ x \in S
    OBVIOUS
  <2>2. parents'[x] = parents[x]
    BY <2>1
  <2>3. QED BY <2>1, <2>2 DEF Known
<1> HIDE DEF C
<1>3. a \in C
  BY <1>1, <1>2 DEF Ancestry
<1>4. QED BY <1>3 DEF C

\* Ending nodes brings none to life, and none of the ended stays alive.
LEMMA EndedKills ==
  ASSUME NEW s, NEW ended, NEW roots, NEW to, to \in {"Completed", "Settled", "Cancelled"}, NEW wakes,
         NEW u, u = Ended(s, ended, roots, to, wakes), NEW n \in NodeId, Live(u, n)
  PROVE  Live(s, n) /\ n \notin ended
BY DEF Ended, Live, Woken

\* So does ending one node.
LEMMA EndedOneKills ==
  ASSUME NEW s, NEW m, NEW to, to \in {"Completed", "Settled", "Cancelled"},
         NEW u, u = EndedOne(s, m, to)
  PROVE  u.task = s.task /\ \A n \in NodeId : Live(u, n) => Live(s, n) /\ n # m
<1> DEFINE wakes == IF Woken(s, {m}, {m}) = {} THEN << >> ELSE << s.parent[m] >>
           ended == {m}
<1>1. u = Ended(s, ended, {m}, to, wakes)
  BY DEF EndedOne
<1>2. m \in ended
  OBVIOUS
<1> HIDE DEF wakes, ended
<1>3. u.task = s.task
  BY <1>1 DEF Ended
<1>4. ASSUME NEW n \in NodeId, Live(u, n) PROVE Live(s, n) /\ n # m
  BY <1>1, <1>2, <1>4, EndedKills
<1>5. QED BY <1>3, <1>4

\* A step that brings no node to life and changes no task, link or binding.
LEMMA KillingStep ==
  ASSUME TreeInv, tree'.task = tree.task, \A n \in NodeId : Live(tree', n) => Live(tree, n),
         UNCHANGED <<parents, byTask, cancelled, created>>
  PROVE  TreeInv'
<1>1. Known' /\ LatestLives'
  BY DEF TreeInv, Known, LatestLives
<1>2. \A d : Ancestry(d)' = Ancestry(d)
  BY DEF Ancestry
<1>3. CancelledTreesStayDead'
  BY <1>2 DEF TreeInv, CancelledTreesStayDead
<1>4. QED BY <1>1, <1>3 DEF TreeInv

\* submit_answered: the replaced node ends before the fresh one is queued, and a task in a
\* cancelled tree is refused.
LEMMA AnsweredStep ==
  ASSUME Inv, TreeInv, NEW t \in Task, SubmitAnswered(t)
  PROVE  TreeInv'
<1> DEFINE s == Retired(tree, byTask[t])
           x == tree.count + 1
<1>1. /\ t \in created /\ tree.count < MaxNodes /\ ~ InCancelledSubtree(t)
      /\ UNCHANGED <<parents, cancelled, ignored, created>> /\ Good(tree)
  BY DEF SubmitAnswered, Inv
<1>2. byTask[t] \in NodeId \cup {None}
  BY <1>1, SchedulerAssumption, GoodTypes DEF Inv, NodeId, None
<1>3. Good(s) /\ s.count = tree.count
  BY <1>1, <1>2, RetiredGood
<1>4. /\ s.task = tree.task /\ \A n \in NodeId : Live(s, n) => Live(tree, n)
      /\ \A n \in NodeId : Live(s, n) => n # byTask[t]
  <2>1. CASE byTask[t] # None /\ Live(tree, byTask[t])
    BY <2>1, EndedOneKills DEF Retired
  <2>2. CASE ~ (byTask[t] # None /\ Live(tree, byTask[t]))
    BY <2>2 DEF Retired, None, NodeId
  <2>3. QED BY <2>1, <2>2
<1>5. CASE tree' = s /\ UNCHANGED byTask
  BY <1>1, <1>4, <1>5, KillingStep
<1>6. CASE \E p : tree' = Submitted(s, p, t, 1) /\ byTask' = [byTask EXCEPT ![t] = x]
  <2>1. PICK p : tree' = Submitted(s, p, t, 1)
    BY <1>6
  <2>2. /\ x \in NodeId /\ \A n \in NodeId : n # x => tree'.state[n] = s.state[n]
    BY <1>1, <1>3, <2>1, SubmittedState
  <2>3. tree'.task = [s.task EXCEPT ![x] = t] /\ s.task \in [NodeId -> Task \cup {NoTask}]
    BY <1>3, <2>1, GoodTypes DEF Submitted
  <2>4. /\ tree'.task[x] = t
        /\ \A n \in NodeId : n # x => tree'.task[n] = tree.task[n] /\ (Live(tree', n) => Live(s, n))
    BY <1>4, <2>2, <2>3 DEF Live
  <2>5. byTask \in [Task -> 0 .. tree.count] /\ byTask'[t] = x /\ \A d \in Task \ {t} : byTask'[d] = byTask[d]
    BY <1>6 DEF Inv
  <2> HIDE DEF s, x
  <2>6. Known'
    BY <1>1, <1>4, <2>4 DEF TreeInv, Known
  <2>7. \A n \in NodeId : n # x /\ Live(tree', n) => tree.task[n] # t /\ tree.task[n] \in Task
    BY <1>4, <2>4, <1>1 DEF TreeInv, LatestLives, Known, Inv
  <2>8. LatestLives'
    BY <1>4, <2>4, <2>5, <2>7 DEF TreeInv, LatestLives
  <2>9. \A d : Ancestry(d)' = Ancestry(d)
    BY <1>1 DEF Ancestry
  <2>10. CancelledTreesStayDead'
    <3>1. \A n \in NodeId : Live(tree', n) => Ancestry(tree'.task[n]) \cap cancelled = {}
      BY <1>1, <1>4, <2>4 DEF TreeInv, CancelledTreesStayDead, InCancelledSubtree
    <3>2. QED BY <1>1, <2>9, <3>1 DEF CancelledTreesStayDead
  <2>11. QED BY <2>6, <2>8, <2>10 DEF TreeInv
<1>7. QED
  <2>1. \/ tree' = s /\ UNCHANGED byTask
        \/ \E p : tree' = Submitted(s, p, t, 1) /\ byTask' = [byTask EXCEPT ![t] = x]
    BY DEF SubmitAnswered
  <2>2. QED BY <1>5, <1>6, <2>1

\* cancel_task_tree: the latest node of every task below is drained, and those are the
\* live ones.
LEMMA CancelStep ==
  ASSUME Inv, TreeInv, NEW t \in Task, CancelTaskTree(t)
  PROVE  TreeInv'
<1> DEFINE roots == {byTask[d] : d \in TaskSubtree(t)} \ {None}
           ended == {n \in Subtree(tree, roots) : Live(tree, n)}
<1>1. /\ cancelled' = cancelled \cup TaskSubtree(t) /\ Drain(roots)
      /\ UNCHANGED <<parents, byTask, ignored, created>>
  BY DEF CancelTaskTree
<1>2. PICK wakes : tree' = Ended(tree, ended, roots, "Cancelled", wakes)
  BY <1>1 DEF Drain
<1>3. roots \cap NodeId \subseteq Subtree(tree, roots)
  BY DEF Subtree
<1>4. /\ tree'.task = tree.task
      /\ \A n \in NodeId : Live(tree', n) => Live(tree, n) /\ n \notin roots
  <2>1. tree'.task = tree.task /\ \A n \in NodeId : Live(tree', n) => Live(tree, n) /\ n \notin ended
    <3> DEFINE to == "Cancelled"
    <3>1. tree' = Ended(tree, ended, roots, to, wakes) /\ to \in {"Completed", "Settled", "Cancelled"}
      BY <1>2
    <3> HIDE DEF ended, roots, to
    <3>2. tree'.task = tree.task
      BY <3>1 DEF Ended
    <3>3. ASSUME NEW n \in NodeId, Live(tree', n) PROVE Live(tree, n) /\ n \notin ended
      BY <3>1, <3>3, EndedKills
    <3>4. QED BY <3>2, <3>3
  <2>2. QED BY <2>1, <1>3
<1> HIDE DEF ended
<1>5. Known' /\ LatestLives'
  BY <1>1, <1>4 DEF TreeInv, Known, LatestLives
<1>6. \A d : Ancestry(d)' = Ancestry(d)
  BY <1>1 DEF Ancestry
<1>7. CancelledTreesStayDead'
  <2> SUFFICES ASSUME NEW n \in NodeId, Live(tree', n), NEW a \in Ancestry(tree.task[n]), a \in cancelled'
               PROVE  FALSE
    BY <1>4, <1>6 DEF CancelledTreesStayDead
  <2>1. Live(tree, n) /\ n \notin roots /\ tree.task[n] \in Task /\ a \in Task
    BY <1>4 DEF TreeInv, Known, Inv, Ancestry
  <2>2. a \in TaskSubtree(t)
    BY <1>1, <2>1 DEF TreeInv, CancelledTreesStayDead
  <2>3. tree.task[n] \in TaskSubtree(t)
    BY <2>1, <2>2, AncestryOfAncestor DEF TaskSubtree
  <2>4. byTask[tree.task[n]] = n /\ n # None
    BY <2>1 DEF TreeInv, LatestLives, NodeId, None
  <2>5. QED BY <2>1, <2>3, <2>4
<1>8. QED BY <1>5, <1>7 DEF TreeInv

\* Create: a fresh task is nobody's ancestor yet.
LEMMA CreateStep ==
  ASSUME Inv, TreeInv, NEW t \in Task, NEW p \in Task \cup {NoTask}, Create(t, p)
  PROVE  TreeInv'
<1>1. /\ t \notin created /\ p \in created \cup {NoTask} /\ created' = created \cup {t}
      /\ UNCHANGED <<tree, byTask, cancelled>> /\ created \subseteq Task
  BY DEF Create, Inv
<1>2. parents \in [Task -> Task \cup {NoTask}] /\ (parents' = parents \/ parents' = [parents EXCEPT ![t] = p])
  BY DEF Create, Inv, Adopted
<1>3. (\A x \in Task \ {t} : parents'[x] = parents[x]) /\ (parents'[t] # NoTask => parents'[t] \in created)
  BY <1>1, <1>2 DEF TreeInv, Known
<1>4. Known'
  <2>1. \A x \in Task : parents'[x] # NoTask => x \in created' /\ parents'[x] \in created'
    <3> SUFFICES ASSUME NEW x \in Task, parents'[x] # NoTask PROVE x \in created' /\ parents'[x] \in created'
      OBVIOUS
    <3>1. CASE x = t
      BY <3>1, <1>1, <1>3
    <3>2. CASE x # t
      BY <3>2, <1>1, <1>3 DEF TreeInv, Known
    <3>3. QED BY <3>1, <3>2
  <2>2. \A n \in NodeId : Live(tree', n) => tree'.task[n] \in created'
    BY <1>1 DEF TreeInv, Known
  <2>3. QED BY <2>1, <2>2 DEF Known
<1>5. LatestLives'
  BY <1>1 DEF TreeInv, LatestLives
<1>6. CancelledTreesStayDead'
  <2> SUFFICES ASSUME NEW n \in NodeId, Live(tree, n) PROVE Ancestry(tree.task[n])' \cap cancelled = {}
    BY <1>1 DEF CancelledTreesStayDead
  <2>1. tree.task[n] \in created
    BY DEF TreeInv, Known
  <2>2. Ancestry(tree.task[n]) \cap cancelled = {}
    BY DEF TreeInv, CancelledTreesStayDead
  <2> DEFINE d == tree.task[n]
  <2>3. Ancestry(d)' \subseteq Ancestry(d)
    BY <1>1, <1>3, <2>1, AncestryKept DEF TreeInv, Ancestry
  <2>4. QED BY <2>2, <2>3
<1>7. QED BY <1>4, <1>5, <1>6 DEF TreeInv

\* Every step keeps it.
LEMMA TreeInvNext ==
  ASSUME ~ DirectSubmit, ~ ReplayParents, Inv, TreeInv, [Next]_vars
  PROVE  TreeInv'
<1>1. CASE UNCHANGED <<tree, parents, byTask, cancelled, created>>
  BY <1>1, KillingStep
<1>2. CASE \E t \in Task, p \in Task \cup {NoTask} : Create(t, p)
  BY <1>2, CreateStep
<1>3. CASE \E t \in Task : SubmitAnswered(t)
  BY <1>3, AnsweredStep
<1>4. CASE \E t \in Task : CancelTaskTree(t)
  BY <1>4, CancelStep
<1>5. CASE Admit
  <2>1. Live(tree, Head(tree.ready))
    <3>1. Queue(tree) /\ tree.ready \in Seq(NodeId) /\ tree.ready # << >>
      BY <1>5, GoodTypes DEF Inv, Good, Admit
    <3>2. 1 \in DOMAIN tree.ready /\ Head(tree.ready) = tree.ready[1]
      BY <3>1
    <3>3. QED BY <3>1, <3>2 DEF Queue, Live
  <2>2. tree'.state = [tree.state EXCEPT ![Head(tree.ready)] = "Running"] /\ tree'.task = tree.task
    BY <1>5 DEF Admit, Moved
  <2>3. \A n \in NodeId : Live(tree', n) => Live(tree, n)
    BY <2>1, <2>2, GoodTypes DEF Live, Inv
  <2>4. QED BY <1>5, <2>2, <2>3, KillingStep DEF Admit
<1>6. ASSUME NEW m \in NodeId, BeginWait(m) PROVE TreeInv'
  <2>1. tree'.state = [tree.state EXCEPT ![m] = "Waiting"] /\ tree'.task = tree.task /\ Live(tree, m)
    BY <1>6 DEF BeginWait, Moved, Live
  <2>2. \A n \in NodeId : Live(tree', n) => Live(tree, n)
    BY <2>1, GoodTypes DEF Live, Inv
  <2>3. QED BY <1>6, <2>1, <2>2, KillingStep DEF BeginWait
<1>7. ASSUME NEW m \in NodeId, Complete(m) \/ Settle(m) PROVE TreeInv'
  <2>1. \E to \in {"Completed", "Settled", "Cancelled"} : tree' = EndedOne(tree, m, to)
    BY <1>7 DEF Complete, Settle
  <2>2. tree'.task = tree.task /\ \A n \in NodeId : Live(tree', n) => Live(tree, n)
    BY <2>1, EndedOneKills
  <2>3. QED BY <1>7, <2>2, KillingStep DEF Complete, Settle
<1>8. ASSUME NEW m \in NodeId, CancelTree(m) PROVE TreeInv'
  <2>1. PICK ended, wakes : tree' = Ended(tree, ended, {m}, "Cancelled", wakes)
    BY <1>8 DEF CancelTree, Drain
  <2> DEFINE to == "Cancelled"
             roots == {m}
  <2>2. tree' = Ended(tree, ended, roots, to, wakes) /\ to \in {"Completed", "Settled", "Cancelled"}
    BY <2>1
  <2> HIDE DEF to, roots
  <2>4. tree'.task = tree.task /\ \A n \in NodeId : Live(tree', n) => Live(tree, n)
    <3>1. tree'.task = tree.task
      BY <2>2 DEF Ended
    <3>2. ASSUME NEW n \in NodeId, Live(tree', n) PROVE Live(tree, n)
      BY <2>2, <3>2, EndedKills
    <3>3. QED BY <3>1, <3>2
  <2>3. QED BY <1>8, <2>4, KillingStep DEF CancelTree
<1>9. QED
  BY <1>1, <1>2, <1>3, <1>4, <1>5, <1>6, <1>7, <1>8
     DEF Next, vars, Submit, ReplayCreate, CompleteLate, DeliverLate

\* Whatever ends, is cancelled or is replaced stays out of the tree: a task has one live
\* node, no task at or below a cancelled one has any, and a terminal node keeps its state.
THEOREM EndedSafe ==
  ASSUME ~ DirectSubmit, ~ ReplayParents
  PROVE  Spec => EndedStaysEnded
<1>1. Init => TreeInv
  BY DEF Init, EmptyTree, TreeInv, Known, LatestLives, CancelledTreesStayDead, Live
<1>2. Inv /\ TreeInv /\ [Next]_vars => TreeInv'
  BY TreeInvNext
<1>3. TreeInv => OneLiveNodePerTask /\ CancelledTreesStayDead
  BY DEF TreeInv, LatestLives, OneLiveNodePerTask
<1>4. QED BY <1>1, <1>2, <1>3, Invariance, TerminalSafe, PTL DEF Spec, EndedStaysEnded

-----------------------------------------------------------------------------
(***************************************************************************)
(* The ledger of base documents (Releases): any number of versions, offered*)
(* documents, identity rules, bindings and addresses.                      *)
(***************************************************************************)

\* The order of a page query is that of the addresses (RankIn of ProofLemmas), so a page
\* counts what it spans.
LEMMA PageSpans ==
  ASSUME NEW S, S \subseteq Int, IsFiniteSet(S),
         NEW lo \in Nat, NEW hi \in Nat, lo <= hi, hi <= Cardinality(S)
  PROVE  Cardinality({a \in S : RankIn(S, a) >= lo /\ RankIn(S, a) < hi}) = hi - lo
<1> DEFINE n == Cardinality(S)
           f == [a \in S |-> RankIn(S, a)]
           T == {a \in S : RankIn(S, a) >= lo /\ RankIn(S, a) < hi}
           g == [a \in T |-> RankIn(S, a)]
<1>1. /\ n \in Nat
      /\ \A a, b \in S : f[a] = f[b] => a = b
  <2>1. n \in Nat /\ \A a, b \in S : RankIn(S, a) = RankIn(S, b) => a = b
    BY RanksFill
  <2>2. QED BY <2>1
<1>4. \A k \in 0 .. n - 1 : \E a \in S : f[a] = k
  <2>1. \A k \in 0 .. n - 1 : \E a \in S : RankIn(S, a) = k
    BY RanksFill
  <2>2. QED BY <2>1
<1>3. \A a \in S : f[a] \in 0 .. n - 1
  <2>1. \A a \in S : RankIn(S, a) \in 0 .. n - 1
    BY RanksFill
  <2>2. QED BY <2>1
<1>5. g \in Bijection(T, lo .. hi - 1)
  <2>1. ASSUME NEW k \in lo .. hi - 1 PROVE \E a \in T : g[a] = k
    <3>1. k \in 0 .. n - 1
      BY <1>1
    <3>2. PICK a \in S : f[a] = k
      BY <1>4, <3>1
    <3>3. QED BY <3>2
  <2>2. \A a \in T : g[a] \in lo .. hi - 1
    <3> SUFFICES ASSUME NEW a \in T PROVE RankIn(S, a) \in lo .. hi - 1
      OBVIOUS
    <3>1. f[a] = RankIn(S, a) /\ f[a] \in 0 .. n - 1
      BY <1>3
    <3>2. QED BY <3>1
  <2>3. \A a, b \in T : g[a] = g[b] => a = b
    BY <1>1
  <2> HIDE DEF T
  <2>4. QED BY <2>1, <2>2, <2>3 DEF Bijection, Injection, Surjection, IsInjective
<1>6. IsFiniteSet(T)
  BY FS_Subset
<1> HIDE DEF T, g, f, n
<1>7. Cardinality(lo .. hi - 1) = hi - lo
  <2>1. Cardinality(lo .. hi - 1) = IF lo > hi - 1 THEN 0 ELSE (hi - 1) - lo + 1
    BY FS_Interval
  <2>2. QED BY <2>1
<1>8. Cardinality(T) = hi - lo
  BY <1>5, <1>6, <1>7, FS_Bijection DEF ExistsBijection
<1>9. QED BY <1>8 DEF T

\* What a page is: it counts PageSize addresses, or those that are left, and
\* ends where they end.
LEMMA PageIs ==
  ASSUME NEW S, S \subseteq Int, IsFiniteSet(S), NEW k \in Nat, k <= Cardinality(S)
  PROVE  LET page == BlockerPage(S, k)
             n == k + Cardinality(page)
         IN  /\ n \in Nat /\ n <= Cardinality(S)
             /\ Cardinality(S) <= k + PageSize => n = Cardinality(S)
             /\ {a \in S : RankIn(S, a) < k} \cup page = {a \in S : RankIn(S, a) < n}
<1> DEFINE size == Cardinality(S)
           hi == IF size <= k + PageSize THEN size ELSE k + PageSize
           page == BlockerPage(S, k)
<1>1. PageSize \in Nat /\ size \in Nat
  BY BaseLedgerAssumption, FS_CardinalityType
<1>2. hi \in Nat /\ k <= hi /\ hi <= size /\ (size <= k + PageSize => hi = size)
  BY <1>1
<1>3. \A a \in S : /\ RankIn(S, a) \in Nat
                   /\ RankIn(S, a) < size
                   /\ RankIn(S, a) < k + PageSize <=> RankIn(S, a) < hi
  <2> SUFFICES ASSUME NEW a \in S PROVE
         /\ RankIn(S, a) \in Nat /\ RankIn(S, a) < size
         /\ RankIn(S, a) < k + PageSize <=> RankIn(S, a) < hi
    OBVIOUS
  <2>1. RankIn(S, a) \in 0 .. size - 1
    BY RanksRise
  <2> HIDE DEF size
  <2>2. QED BY <1>1, <2>1
<1>4. page = {a \in S : RankIn(S, a) >= k /\ RankIn(S, a) < k + PageSize}
  BY DEF BlockerPage, RankIn
<1>5. page = {a \in S : RankIn(S, a) >= k /\ RankIn(S, a) < hi}
  BY <1>3, <1>4
<1> HIDE DEF page, hi, size
<1>6. Cardinality(page) = hi - k
  BY <1>2, <1>5, PageSpans DEF size
<1>7. k + Cardinality(page) = hi
  BY <1>2, <1>6
<1>8. {a \in S : RankIn(S, a) < k} \cup page = {a \in S : RankIn(S, a) < hi}
  <2>1. ASSUME NEW a \in S
        PROVE  RankIn(S, a) < hi
                 <=> RankIn(S, a) < k \/ (RankIn(S, a) >= k /\ RankIn(S, a) < hi)
    <3> DEFINE r == RankIn(S, a)
    <3>1. r \in Nat
      BY <1>3
    <3> HIDE DEF r
    <3>2. r < hi <=> r < k \/ (r >= k /\ r < hi)
      BY <1>2, <3>1
    <3>3. QED BY <3>2 DEF r
  <2>2. QED BY <1>5, <2>1, Zenon
<1>9. QED BY <1>2, <1>7, <1>8 DEF page, size

Addresses == UserRecords \cup RoleBinding
Bindings == RoleBinding \cup ActionBinding
Subjects == {FirstBound[b] : b \in Bindings} \cup {r.new : r \in Rule}
Versions == 1 .. MaxVersion
BaseRow ==
    [ state : {"none", "staged", "active", "retired"},
      digest : {"none"} \cup {i.digest : i \in Install},
      epoch : Nat, blocks : SUBSET Addresses ]

LedgerType(l) ==
    l \in [ rows : [Versions -> BaseRow], epochs : Nat,
            rules : [Versions -> SUBSET Rule], bound : [Bindings -> Subjects] ]

\* One document of a state serves or is staged, and the staged one is the next.
OneEach(l) ==
    /\ \A v, w \in Versions :
          l.rows[v].state = l.rows[w].state /\ l.rows[v].state \in {"active", "staged"} => v = w
    /\ \A v, w \in Versions :
          l.rows[v].state = "active" /\ l.rows[w].state = "staged" => w = v + 1

EpochsBounded(l) == \A v \in Versions : l.rows[v].epoch <= l.epochs

RulesStandOn(l) ==
    \A v \in Versions : v # 1 /\ l.rules[v] # {} => l.rows[v].state # "none"

BoundApart(l) ==
    \A a, b \in ActionBinding :
        Effect[a] # Effect[b] /\ FirstBound[a] # FirstBound[b] => l.bound[a] # l.bound[b]

GoodBase(l) ==
    LedgerType(l) /\ OneEach(l) /\ EpochsBounded(l) /\ RulesStandOn(l) /\ BoundApart(l)

\* A set of blockers that changes does so under an epoch no ledger had before.
Follows(l, m) ==
    /\ l.epochs <= m.epochs
    /\ \A v \in Versions :
          \/ m.rows[v].epoch = 0
          \/ m.rows[v].epoch > l.epochs
          \/ m.rows[v].epoch = l.rows[v].epoch /\ m.rows[v].blocks = l.rows[v].blocks

SameServing(l, m) ==
    \A v \in Versions : l.rows[v].state = "active" <=> m.rows[v].state = "active"

\* Whoever served, it or the next version serves now.
Advances(l, m) ==
    \A v \in Versions : l.rows[v].state = "active" =>
        \E w \in Versions : m.rows[w].state = "active" /\ w \in {v, v + 1}

\* Two edits in one transaction.
LEMMA FollowsOn ==
  ASSUME NEW l, NEW m, NEW n, GoodBase(l), GoodBase(m), GoodBase(n), Follows(l, m), Follows(m, n)
  PROVE  Follows(l, n)
<1>1. l.epochs \in Nat /\ m.epochs \in Nat /\ n.epochs \in Nat
  BY DEF GoodBase, LedgerType
<1>2. l.epochs <= n.epochs
  BY <1>1 DEF Follows
<1>3. ASSUME NEW v \in Versions
      PROVE  \/ n.rows[v].epoch = 0
             \/ n.rows[v].epoch > l.epochs
             \/ n.rows[v].epoch = l.rows[v].epoch /\ n.rows[v].blocks = l.rows[v].blocks
  <2>1. n.rows[v].epoch \in Nat /\ m.rows[v].epoch \in Nat /\ l.rows[v].epoch \in Nat
    BY DEF GoodBase, LedgerType, BaseRow
  <2>2. \/ n.rows[v].epoch = 0
        \/ n.rows[v].epoch > m.epochs
        \/ n.rows[v].epoch = m.rows[v].epoch /\ n.rows[v].blocks = m.rows[v].blocks
    BY DEF Follows
  <2>3. \/ m.rows[v].epoch = 0
        \/ m.rows[v].epoch > l.epochs
        \/ m.rows[v].epoch = l.rows[v].epoch /\ m.rows[v].blocks = l.rows[v].blocks
    BY DEF Follows
  <2>4. l.epochs <= m.epochs
    BY DEF Follows
  <2>5. CASE n.rows[v].epoch > m.epochs
    BY <1>1, <2>1, <2>4, <2>5
  <2>6. QED BY <2>2, <2>3, <2>5
<1>4. QED BY <1>2, <1>3 DEF Follows

\* An edit of one row: it keeps its state, or is staged where nothing was, after
\* the version that serves; its set changes under a new epoch only.
LEMMA BaseRowPut ==
  ASSUME NEW l, GoodBase(l), NEW v \in Versions, NEW row \in BaseRow, NEW e \in Nat,
         l.epochs <= e, row.epoch <= e,
         \/ row.epoch > l.epochs
         \/ row.epoch = l.rows[v].epoch /\ row.blocks = l.rows[v].blocks,
         \/ row.state = l.rows[v].state
         \/ /\ row.state = "staged" /\ l.rows[v].state = "none"
            /\ \A w \in Versions : /\ l.rows[w].state # "staged"
                                   /\ l.rows[w].state = "active" => v = w + 1
  PROVE  LET m == WithRow([l EXCEPT !.epochs = e], v, row)
         IN  /\ GoodBase(m) /\ Follows(l, m) /\ SameServing(l, m)
             /\ m.epochs = e /\ m.rules = l.rules /\ m.bound = l.bound
             /\ m.rows[v] = row /\ \A w \in Versions : w # v => m.rows[w] = l.rows[w]
<1> DEFINE m == WithRow([l EXCEPT !.epochs = e], v, row)
<1>1. LedgerType(l) /\ l.rows \in [Versions -> BaseRow] /\ l.epochs \in Nat
  BY DEF GoodBase, LedgerType
<1>2. /\ m.epochs = e /\ m.rules = l.rules /\ m.bound = l.bound
      /\ m.rows = [l.rows EXCEPT ![v] = row]
      /\ LedgerType(m)
  <2>1. [l EXCEPT !.epochs = e] \in
          [ rows : [Versions -> BaseRow], epochs : Nat,
            rules : [Versions -> SUBSET Rule], bound : [Bindings -> Subjects] ]
    BY <1>1 DEF LedgerType
  <2>2. [l.rows EXCEPT ![v] = row] \in [Versions -> BaseRow]
    BY <1>1
  <2>3. QED BY <1>1, <2>1, <2>2 DEF WithRow, LedgerType
<1> HIDE DEF m
<1>3. m.rows[v] = row /\ \A w \in Versions : w # v => m.rows[w] = l.rows[w]
  BY <1>1, <1>2
<1>4. Follows(l, m)
  BY <1>2, <1>3 DEF Follows
<1>5. SameServing(l, m)
  BY <1>3 DEF SameServing
<1>6. EpochsBounded(m)
  <2>1. \A w \in Versions : l.rows[w].epoch \in Nat /\ l.rows[w].epoch <= l.epochs
    BY <1>1 DEF BaseRow, GoodBase, EpochsBounded
  <2>2. QED BY <1>1, <1>2, <1>3, <2>1 DEF EpochsBounded
<1>7. OneEach(m)
  BY <1>3 DEF GoodBase, OneEach
<1>8. RulesStandOn(m) /\ BoundApart(m)
  BY <1>2, <1>3 DEF GoodBase, RulesStandOn, BoundApart
<1>9. QED BY <1>2, <1>3, <1>4, <1>5, <1>6, <1>7, <1>8 DEF m, GoodBase

\* seal_blockers_on
LEMMA SealKeeps ==
  ASSUME NEW l, GoodBase(l), NEW i \in Install
  PROVE  LET m == SealBlockers(l, i)
         IN  GoodBase(m) /\ Follows(l, m) /\ SameServing(l, m)
<1> DEFINE v == i.version
           set == BlocklessAddresses(l, i)
           e == l.epochs + 1
           row == [l.rows[v] EXCEPT !.epoch = e, !.blocks = set]
<1>1. v \in Versions
  BY BaseLedgerAssumption DEF Versions
<1>2. l.rows[v] \in BaseRow /\ l.epochs \in Nat
  BY <1>1 DEF GoodBase, LedgerType
<1>3. set \in SUBSET Addresses
  BY DEF BlocklessAddresses, Addresses
<1>4. CASE l.rows[v].blocks = set
  <2>1. SealBlockers(l, i) = l
    BY <1>4 DEF SealBlockers
  <2>2. Follows(l, l) /\ SameServing(l, l)
    BY <1>2 DEF Follows, SameServing
  <2>3. QED BY <2>1, <2>2
<1>5. CASE l.rows[v].blocks # set
  <2>1. SealBlockers(l, i) = WithRow([l EXCEPT !.epochs = e], v, row)
    BY <1>5 DEF SealBlockers
  <2> HIDE DEF set
  <2>2. /\ row \in BaseRow /\ row.epoch = e /\ row.state = l.rows[v].state
        /\ e \in Nat /\ l.epochs <= e /\ e > l.epochs
    <3>1. e \in Nat /\ l.epochs <= e /\ e > l.epochs
      BY <1>2
    <3>2. ASSUME NEW r \in BaseRow, NEW n \in Nat
          PROVE  LET s == [r EXCEPT !.epoch = n, !.blocks = set]
                 IN  s \in BaseRow /\ s.epoch = n /\ s.state = r.state
      BY <1>3 DEF BaseRow
    <3> HIDE DEF e
    <3>3. QED BY <1>2, <3>1, <3>2
  <2> HIDE DEF e, row, v
  <2>3. QED BY <1>1, <2>1, <2>2, BaseRowPut
<1>6. QED BY <1>4, <1>5

\* stage_base_on
LEMMA StageKeeps ==
  ASSUME NEW l, GoodBase(l), NEW i \in Install, CanStage(l, i)
  PROVE  LET m == StageBaseOn(l, i)
         IN  GoodBase(m) /\ Follows(l, m) /\ SameServing(l, m)
<1> DEFINE v == i.version
           e == l.epochs + 1
           fresh == [state |-> "staged", digest |-> i.digest, epoch |-> e, blocks |-> {}]
           row == IF l.rows[v].state # "none" THEN l.rows[v] ELSE fresh
           k == WithRow([l EXCEPT !.epochs = e], v, row)
<1>1. v \in Versions
  BY BaseLedgerAssumption DEF Versions
<1>2. l.rows[v] \in BaseRow /\ l.epochs \in Nat /\ l.rows[v].epoch <= l.epochs
      /\ l.rows[v].epoch \in Nat
  BY <1>1 DEF GoodBase, LedgerType, EpochsBounded, BaseRow
<1>3. CASE Serves(l, i)
  <2>1. StageBaseOn(l, i) = l
    BY <1>3 DEF StageBaseOn
  <2>2. Follows(l, l) /\ SameServing(l, l)
    BY <1>2 DEF Follows, SameServing
  <2>3. QED BY <2>1, <2>2
<1>4. CASE ~ Serves(l, i)
  <2>1. StageBaseOn(l, i) = SealBlockers(k, i)
    BY <1>4 DEF StageBaseOn
  <2>2. e \in Nat /\ l.epochs <= e /\ fresh \in BaseRow
    BY <1>2 DEF BaseRow
  <2>3. row \in BaseRow /\ row.epoch <= e
    BY <1>2, <2>2
  <2>4. \/ row.epoch > l.epochs
        \/ row.epoch = l.rows[v].epoch /\ row.blocks = l.rows[v].blocks
    BY <1>2
  <2>5. \/ row.state = l.rows[v].state
        \/ /\ row.state = "staged" /\ l.rows[v].state = "none"
           /\ \A w \in Versions : /\ l.rows[w].state # "staged"
                                  /\ l.rows[w].state = "active" => v = w + 1
    <3>1. CASE l.rows[v].state = "none"
      <4>1. row.state = "staged"
        BY <3>1
      <4>2. ASSUME NEW w \in Versions
            PROVE  l.rows[w].state # "staged" /\ (l.rows[w].state = "active" => v = w + 1)
        <5>1. l.rows[w].state = "active" => v \in {w, w + 1}
          BY DEF CanStage, In, Versions
        <5>2. l.rows[w].state = "staged" => w = v
          BY <1>4 DEF CanStage, In, Versions
        <5>3. QED BY <3>1, <5>1, <5>2
      <4>3. QED BY <3>1, <4>1, <4>2
    <3>2. QED BY <3>1
  <2> HIDE DEF e, fresh, row, v
  <2>6. GoodBase(k) /\ Follows(l, k) /\ SameServing(l, k)
    BY <1>1, <2>2, <2>3, <2>4, <2>5, BaseRowPut
  <2> HIDE DEF k
  <2>7. /\ GoodBase(SealBlockers(k, i)) /\ Follows(k, SealBlockers(k, i))
        /\ SameServing(k, SealBlockers(k, i))
    BY <2>6, SealKeeps
  <2>8. SameServing(l, SealBlockers(k, i))
    BY <2>6, <2>7 DEF SameServing
  <2>9. QED BY <2>1, <2>6, <2>7, <2>8, FollowsOn
<1>5. QED BY <1>3, <1>4

\* abandon_base_on
LEMMA AbandonKeeps ==
  ASSUME NEW l, GoodBase(l), NEW v \in In(l, "staged")
  PROVE  LET m == AbandonBaseOn(l, v)
         IN  GoodBase(m) /\ Follows(l, m) /\ SameServing(l, m)
<1> DEFINE m == AbandonBaseOn(l, v)
<1>1. v \in Versions /\ l.rows[v].state = "staged"
  BY DEF In, Versions
<1>2. LedgerType(l) /\ l.rows \in [Versions -> BaseRow] /\ l.epochs \in Nat
      /\ l.rules \in [Versions -> SUBSET Rule]
  BY DEF GoodBase, LedgerType
<1>3. NoBase \in BaseRow
  BY DEF NoBase, BaseRow
<1>4. /\ m.rows = [l.rows EXCEPT ![v] = NoBase] /\ m.rules = [l.rules EXCEPT ![v] = {}]
      /\ m.epochs = l.epochs /\ m.bound = l.bound /\ LedgerType(m)
  <2>1. [l.rows EXCEPT ![v] = NoBase] \in [Versions -> BaseRow]
    BY <1>2, <1>3
  <2>2. [l.rules EXCEPT ![v] = {}] \in [Versions -> SUBSET Rule]
    BY <1>2
  <2>3. QED BY <1>2, <2>1, <2>2 DEF AbandonBaseOn, WithRules, WithRow, LedgerType
<1> HIDE DEF m
<1>5. /\ m.rows[v] = NoBase /\ m.rules[v] = {}
      /\ \A w \in Versions : w # v => m.rows[w] = l.rows[w] /\ m.rules[w] = l.rules[w]
  BY <1>1, <1>2, <1>4
<1>6. NoBase.state = "none" /\ NoBase.epoch = 0
  BY DEF NoBase
<1>7. Follows(l, m) /\ SameServing(l, m)
  BY <1>1, <1>2, <1>4, <1>5, <1>6 DEF Follows, SameServing
<1>8. EpochsBounded(m)
  BY <1>2, <1>4, <1>5, <1>6 DEF GoodBase, EpochsBounded
<1>9. OneEach(m)
  BY <1>5, <1>6 DEF GoodBase, OneEach
<1>10. RulesStandOn(m) /\ BoundApart(m)
  BY <1>4, <1>5 DEF GoodBase, RulesStandOn, BoundApart
<1>11. QED BY <1>4, <1>7, <1>8, <1>9, <1>10 DEF m, GoodBase

\* stage_for_cutover_on
LEMMA CutoverKeeps ==
  ASSUME NEW l, GoodBase(l), NEW i \in Install, NEW m \in StageForCutoverOn(l, i)
  PROVE  GoodBase(m) /\ Follows(l, m) /\ SameServing(l, m)
<1>1. CASE CanStage(l, i)
  BY <1>1, StageKeeps DEF StageForCutoverOn
<1>2. CASE ~ CanStage(l, i)
  <2>1. PICK v \in In(l, "staged") : /\ CanStage(AbandonBaseOn(l, v), i)
                                    /\ m = StageBaseOn(AbandonBaseOn(l, v), i)
    BY <1>2 DEF StageForCutoverOn
  <2> DEFINE k == AbandonBaseOn(l, v)
  <2>2. GoodBase(k) /\ Follows(l, k) /\ SameServing(l, k)
    BY AbandonKeeps
  <2>3. CanStage(k, i) /\ m = StageBaseOn(k, i)
    BY <2>1
  <2> HIDE DEF k
  <2>4. GoodBase(m) /\ Follows(k, m) /\ SameServing(k, m)
    BY <2>2, <2>3, StageKeeps
  <2>5. SameServing(l, m)
    BY <2>2, <2>4 DEF SameServing
  <2>6. QED BY <2>2, <2>4, <2>5, FollowsOn
<1>3. QED BY <1>1, <1>2

\* A placement stays among the subjects.
LEMMA PlacedIs ==
  ASSUME NEW l, LedgerType(l), NEW v \in Versions, NEW b \in Bindings
  PROVE  Placed(l, v, b) \in Subjects
<1> DEFINE applied == {r \in l.rules[v] : r.kind = KindOf(b) /\ r.old = l.bound[b]}
<1>1. l.rules[v] \subseteq Rule /\ l.bound[b] \in Subjects
  BY DEF LedgerType
<1>2. CASE applied = {}
  BY <1>1, <1>2 DEF Placed
<1>3. CASE applied # {}
  <2>1. (CHOOSE r \in applied : TRUE) \in applied
    BY <1>3
  <2>2. applied \subseteq Rule
    BY <1>1
  <2> HIDE DEF applied
  <2>3. (CHOOSE r \in applied : TRUE).new \in Subjects
    BY <2>1, <2>2 DEF Subjects
  <2>4. Placed(l, v, b) = (CHOOSE r \in applied : TRUE).new
    BY <1>3 DEF Placed, applied
  <2>5. QED BY <2>3, <2>4
<1>4. QED BY <1>2, <1>3

\* prune_base_versions touches retired documents only.
LEMMA PruneKeeps ==
  ASSUME NEW l, GoodBase(l)
  PROVE  LET m == PruneBases(l)
         IN  GoodBase(m) /\ Follows(l, m) /\ SameServing(l, m)
<1> DEFINE old == {v \in In(l, "retired") :
                     Cardinality({w \in In(l, "retired") : w > v}) >= BASE_VERSION_RETENTION}
           m == PruneBases(l)
<1>1. LedgerType(l) /\ l.rows \in [Versions -> BaseRow] /\ l.epochs \in Nat
      /\ l.rules \in [Versions -> SUBSET Rule]
  BY DEF GoodBase, LedgerType
<1>2. \A v \in old : v \in Versions /\ l.rows[v].state = "retired"
  BY DEF In, Versions
<1> HIDE DEF old
<1>3. NoBase \in BaseRow /\ NoBase.state = "none" /\ NoBase.epoch = 0
  BY DEF NoBase, BaseRow
<1>4. /\ m.rows = [v \in Versions |-> IF v \in old THEN NoBase ELSE l.rows[v]]
      /\ m.rules = [v \in Versions |-> IF v \in old THEN {} ELSE l.rules[v]]
      /\ m.epochs = l.epochs /\ m.bound = l.bound /\ LedgerType(m)
  <2> DEFINE rs == [v \in Versions |-> IF v \in old THEN NoBase ELSE l.rows[v]]
             us == [v \in Versions |-> IF v \in old THEN {} ELSE l.rules[v]]
  <2>1. m = [l EXCEPT !.rows = rs, !.rules = us]
    BY DEF PruneBases, old, Versions
  <2>2. rs \in [Versions -> BaseRow]
    BY <1>1, <1>3
  <2>3. us \in [Versions -> SUBSET Rule]
    BY <1>1
  <2> HIDE DEF rs, us, m
  <2>4. m.rows = rs /\ m.rules = us /\ m.epochs = l.epochs /\ m.bound = l.bound /\ LedgerType(m)
    BY <1>1, <2>1, <2>2, <2>3 DEF LedgerType
  <2>5. QED BY <2>4 DEF rs, us
<1> HIDE DEF m
<1>5. /\ \A v \in Versions : v \in old => m.rows[v] = NoBase /\ m.rules[v] = {}
      /\ \A v \in Versions : v \notin old => m.rows[v] = l.rows[v] /\ m.rules[v] = l.rules[v]
  BY <1>4
<1>6. Follows(l, m)
  BY <1>1, <1>3, <1>4, <1>5 DEF Follows
<1>7. SameServing(l, m)
  BY <1>2, <1>3, <1>5 DEF SameServing
<1>8. EpochsBounded(m)
  BY <1>1, <1>3, <1>4, <1>5 DEF GoodBase, EpochsBounded
<1>9. OneEach(m)
  BY <1>2, <1>3, <1>5 DEF GoodBase, OneEach
<1>10. RulesStandOn(m) /\ BoundApart(m)
  BY <1>4, <1>5 DEF GoodBase, RulesStandOn, BoundApart
<1>11. QED BY <1>4, <1>6, <1>7, <1>8, <1>9, <1>10 DEF m, GoodBase

\* commit_base_on: the staged version serves and what served is retired.
LEMMA CommitKeeps ==
  ASSUME NEW l, GoodBase(l), NEW v, NEW m \in CommitBaseOn(l, v)
  PROVE  GoodBase(m) /\ Follows(l, m) /\ Advances(l, m)
<1> DEFINE rs == [w \in Versions |->
                    IF w = v THEN [l.rows[w] EXCEPT !.state = "active"]
                    ELSE IF l.rows[w].state = "active" THEN [l.rows[w] EXCEPT !.state = "retired"]
                    ELSE l.rows[w]]
           bs == [b \in Bindings |-> Placed(l, v, b)]
           k == [l EXCEPT !.rows = rs, !.bound = bs]
<1>1. LedgerType(l) /\ l.rows \in [Versions -> BaseRow] /\ l.epochs \in Nat
      /\ l.rules \in [Versions -> SUBSET Rule] /\ DOMAIN l.bound = Bindings
  BY DEF GoodBase, LedgerType
<1>2. v \in Versions /\ l.rows[v].state = "staged" /\ ~ Conflicts(l, v) /\ m = PruneBases(k)
  BY <1>1 DEF CommitBaseOn, In, Versions
<1>3. /\ rs \in [Versions -> BaseRow]
      /\ \A w \in Versions : /\ rs[w].epoch = l.rows[w].epoch /\ rs[w].blocks = l.rows[w].blocks
                             /\ rs[w].state = IF w = v THEN "active"
                                              ELSE IF l.rows[w].state = "active" THEN "retired"
                                              ELSE l.rows[w].state
  <2>1. ASSUME NEW r \in BaseRow, NEW s \in {"active", "retired"}
        PROVE  LET q == [r EXCEPT !.state = s]
               IN  q \in BaseRow /\ q.state = s /\ q.epoch = r.epoch /\ q.blocks = r.blocks
    BY DEF BaseRow
  <2>2. ASSUME NEW w \in Versions
        PROVE  /\ rs[w] \in BaseRow
               /\ rs[w].epoch = l.rows[w].epoch /\ rs[w].blocks = l.rows[w].blocks
               /\ rs[w].state = IF w = v THEN "active"
                                ELSE IF l.rows[w].state = "active" THEN "retired"
                                ELSE l.rows[w].state
    <3>1. l.rows[w] \in BaseRow
      BY <1>1
    <3>2. CASE w = v
      BY <2>1, <3>1, <3>2
    <3>3. CASE w # v /\ l.rows[w].state = "active"
      BY <2>1, <3>1, <3>3
    <3>4. CASE w # v /\ l.rows[w].state # "active"
      BY <3>1, <3>4
    <3>5. QED BY <3>2, <3>3, <3>4
  <2>3. rs = [w \in Versions |-> rs[w]]
    OBVIOUS
  <2> HIDE DEF rs
  <2>4. QED BY <2>2, <2>3
<1>4. bs \in [Bindings -> Subjects]
  BY <1>1, <1>2, PlacedIs
<1> HIDE DEF rs, bs
<1>5. /\ k.rows = rs /\ k.bound = bs /\ k.epochs = l.epochs /\ k.rules = l.rules
      /\ LedgerType(k)
  BY <1>1, <1>3, <1>4 DEF LedgerType
<1> HIDE DEF k
<1>6. OneEach(k)
  BY <1>2, <1>3, <1>5 DEF GoodBase, OneEach
<1>7. EpochsBounded(k) /\ RulesStandOn(k)
  BY <1>2, <1>3, <1>5 DEF GoodBase, EpochsBounded, RulesStandOn
<1>8. BoundApart(k)
  <2> SUFFICES ASSUME NEW a \in ActionBinding, NEW b \in ActionBinding,
                      Effect[a] # Effect[b], FirstBound[a] # FirstBound[b],
                      k.bound[a] = k.bound[b]
               PROVE  FALSE
    BY DEF BoundApart
  <2>1. a \in Bindings /\ b \in Bindings
    BY DEF Bindings
  <2>2. Placed(l, v, a) = Placed(l, v, b)
    BY <1>5, <2>1 DEF bs
  <2>3. Placed(l, v, a) = l.bound[a] /\ Placed(l, v, b) = l.bound[b]
    BY <1>2, <2>2 DEF Conflicts
  <2>4. QED BY <2>2, <2>3 DEF GoodBase, BoundApart
<1>9. GoodBase(k)
  BY <1>5, <1>6, <1>7, <1>8 DEF GoodBase
<1>10. Follows(l, k)
  BY <1>1, <1>3, <1>5 DEF Follows
<1>11. GoodBase(m) /\ Follows(k, m) /\ SameServing(k, m)
  BY <1>2, <1>9, PruneKeeps
<1>12. Advances(l, m)
  <2>1. m.rows[v].state = "active"
    BY <1>2, <1>3, <1>5, <1>11 DEF SameServing
  <2>2. \A w \in Versions : l.rows[w].state = "active" => v = w + 1
    BY <1>2 DEF GoodBase, OneEach
  <2>3. QED BY <1>2, <2>1, <2>2 DEF Advances
<1>13. QED BY <1>9, <1>10, <1>11, <1>12, FollowsOn

\* publish_generation_body
LEMMA PublishKeeps ==
  ASSUME NEW l, GoodBase(l), NEW i \in Install, NEW m \in PublishGenerationOn(l, i)
  PROVE  GoodBase(m) /\ Follows(l, m) /\ Advances(l, m)
<1>1. PICK k \in StageForCutoverOn(l, i) :
         m \in (IF Serves(k, i) THEN {k} ELSE CommitBaseOn(k, i.version))
  BY DEF PublishGenerationOn
<1>2. GoodBase(k) /\ Follows(l, k) /\ SameServing(l, k)
  BY CutoverKeeps
<1>3. CASE Serves(k, i)
  BY <1>1, <1>2, <1>3 DEF SameServing, Advances
<1>4. CASE ~ Serves(k, i)
  <2>1. GoodBase(m) /\ Follows(k, m) /\ Advances(k, m)
    BY <1>1, <1>2, <1>4, CommitKeeps
  <2>2. Advances(l, m)
    BY <1>2, <2>1 DEF SameServing, Advances
  <2>3. QED BY <1>2, <2>1, <2>2, FollowsOn
<1>5. QED BY <1>3, <1>4

\* record_migration_on: one more rule, of a document that is there.
LEMMA RuleKeeps ==
  ASSUME NEW l, GoodBase(l), NEW v \in Versions, NEW r \in Rule,
         v = 1 \/ l.rows[v].state # "none"
  PROVE  LET m == WithRules(l, v, l.rules[v] \cup {r})
         IN  GoodBase(m) /\ Follows(l, m) /\ SameServing(l, m)
<1> DEFINE set == l.rules[v] \cup {r}
           m == WithRules(l, v, set)
<1>1. LedgerType(l) /\ l.rules \in [Versions -> SUBSET Rule] /\ l.epochs \in Nat
  BY DEF GoodBase, LedgerType
<1>2. set \in SUBSET Rule
  BY <1>1
<1> HIDE DEF set
<1>3. /\ m.rows = l.rows /\ m.epochs = l.epochs /\ m.bound = l.bound /\ LedgerType(m)
      /\ m.rules = [l.rules EXCEPT ![v] = set]
  <2>1. [l.rules EXCEPT ![v] = set] \in [Versions -> SUBSET Rule]
    BY <1>1, <1>2
  <2>2. QED BY <1>1, <2>1 DEF WithRules, LedgerType
<1> HIDE DEF m
<1>4. \A w \in Versions : w # v => m.rules[w] = l.rules[w]
  BY <1>1, <1>3
<1>5. Follows(l, m) /\ SameServing(l, m)
  BY <1>1, <1>3 DEF Follows, SameServing
<1>6. OneEach(m) /\ EpochsBounded(m) /\ BoundApart(m)
  BY <1>3 DEF GoodBase, OneEach, EpochsBounded, BoundApart
<1>7. RulesStandOn(m)
  BY <1>3, <1>4 DEF GoodBase, RulesStandOn
<1>8. QED BY <1>3, <1>5, <1>6, <1>7 DEF m, set, GoodBase

\* A reader of a blocker set: what it has seen is the front of the set its first
\* page counted, and while the set's epoch is the cursor's, the set is still that.
PagerOK(l, g) ==
    \/ g = NoPager
    \/ /\ g \in [ base : Versions, epoch : Nat \ {0}, offset : Nat, first : SUBSET Addresses,
                  seen : SUBSET Addresses, done : BOOLEAN ]
       /\ g.epoch <= l.epochs
       /\ g.offset <= Cardinality(g.first)
       /\ g.seen = {a \in g.first : RankIn(g.first, a) < g.offset}
       /\ g.done => g.offset = Cardinality(g.first)
       /\ l.rows[g.base].epoch = g.epoch => l.rows[g.base].blocks = g.first

BaseInv == GoodBase(ledger) /\ PagerOK(ledger, pager)

LEMMA AddressSets ==
  ASSUME NEW S \in SUBSET Addresses
  PROVE  S \subseteq Int /\ IsFiniteSet(S)
<1>1. Addresses \subseteq Int /\ IsFiniteSet(Addresses)
  BY BaseLedgerAssumption DEF Addresses
<1>2. QED BY <1>1, FS_Subset

\* An edit of the ledger leaves a reader right: its set stands, or has an epoch
\* that is not the cursor's any more.
LEMMA PagerStands ==
  ASSUME NEW l, NEW m, GoodBase(l), GoodBase(m), Follows(l, m), NEW g, PagerOK(l, g)
  PROVE  PagerOK(m, g)
<1>1. CASE g = NoPager
  BY <1>1 DEF PagerOK
<1>2. CASE g # NoPager
  <2>1. /\ g.base \in Versions /\ g.epoch \in Nat \ {0} /\ g.epoch <= l.epochs
        /\ l.rows[g.base].epoch = g.epoch => l.rows[g.base].blocks = g.first
    BY <1>2 DEF PagerOK
  <2>2. l.epochs \in Nat /\ m.epochs \in Nat /\ l.epochs <= m.epochs
    BY DEF GoodBase, LedgerType, Follows
  <2>3. /\ m.rows[g.base].epoch \in Nat
        /\ \/ m.rows[g.base].epoch = 0
           \/ m.rows[g.base].epoch > l.epochs
           \/ m.rows[g.base].epoch = l.rows[g.base].epoch
              /\ m.rows[g.base].blocks = l.rows[g.base].blocks
    BY <2>1 DEF GoodBase, LedgerType, BaseRow, Follows
  <2>4. g.epoch <= m.epochs
    BY <2>1, <2>2
  <2>5. m.rows[g.base].epoch = g.epoch => m.rows[g.base].blocks = g.first
    BY <2>1, <2>2, <2>3
  <2>6. QED BY <1>2, <2>4, <2>5 DEF PagerOK
<1>3. QED BY <1>1, <1>2

\* The first page of a set.
LEMMA FirstPageKeeps ==
  ASSUME BaseInv, NEW v \in 1 .. MaxVersion, FirstPage(v)
  PROVE  BaseInv'
<1> DEFINE set == ledger.rows[v].blocks
           page == BlockerPage(set, 0)
           e == ledger.rows[v].epoch
<1>1. /\ v \in Versions /\ set \in SUBSET Addresses /\ e \in Nat \ {0} /\ e <= ledger.epochs
      /\ ledger' = ledger
  <2>1. v \in Versions /\ ledger.rows[v] \in BaseRow
    BY DEF Versions, BaseInv, GoodBase, LedgerType
  <2>2. set \in SUBSET Addresses /\ e \in Nat
    BY <2>1 DEF BaseRow
  <2>3. e # 0 /\ ledger' = ledger
    BY DEF FirstPage
  <2>4. e <= ledger.epochs
    BY <2>1 DEF BaseInv, GoodBase, EpochsBounded
  <2>5. QED BY <2>1, <2>2, <2>3, <2>4
<1>2. pager' = [base |-> v, epoch |-> e, offset |-> Cardinality(page),
                first |-> set, seen |-> page, done |-> Cardinality(set) <= PageSize]
  BY DEF FirstPage
<1>3. set \subseteq Int /\ IsFiniteSet(set) /\ Cardinality(set) \in Nat /\ PageSize \in Nat
  BY <1>1, AddressSets, FS_CardinalityType, BaseLedgerAssumption
<1> HIDE DEF set
<1>4. /\ 0 + Cardinality(page) \in Nat /\ 0 + Cardinality(page) <= Cardinality(set)
      /\ Cardinality(set) <= 0 + PageSize => 0 + Cardinality(page) = Cardinality(set)
      /\ {a \in set : RankIn(set, a) < 0} \cup page
           = {a \in set : RankIn(set, a) < 0 + Cardinality(page)}
  <2>1. 0 \in Nat /\ 0 <= Cardinality(set)
    BY <1>3
  <2>2. QED BY <1>3, <2>1, PageIs
<1>5. {a \in set : RankIn(set, a) < 0} = {}
  <2>1. \A a \in set : RankIn(set, a) \in 0 .. Cardinality(set) - 1
    BY <1>3, RanksRise
  <2>2. \A a \in set : ~ (RankIn(set, a) < 0)
    BY <1>3, <2>1
  <2>3. QED BY <2>2
<1>6. page \subseteq set
  BY DEF BlockerPage
<1> HIDE DEF page
<1>6a. IsFiniteSet(page) /\ Cardinality(page) \in Nat
  BY <1>3, <1>6, FS_Subset, FS_CardinalityType
<1>7. 0 + Cardinality(page) = Cardinality(page) /\ 0 + PageSize = PageSize
  BY <1>3, <1>6a
<1>8. /\ Cardinality(page) <= Cardinality(set)
      /\ page = {a \in set : RankIn(set, a) < Cardinality(page)}
      /\ Cardinality(set) <= PageSize => Cardinality(page) = Cardinality(set)
  BY <1>4, <1>5, <1>7
<1>9. /\ pager' \in [ base : Versions, epoch : Nat \ {0}, offset : Nat, first : SUBSET Addresses,
                      seen : SUBSET Addresses, done : BOOLEAN ]
      /\ pager'.base = v /\ pager'.epoch = e /\ pager'.offset = Cardinality(page)
      /\ pager'.first = set /\ pager'.seen = page
      /\ pager'.done = (Cardinality(set) <= PageSize)
  BY <1>1, <1>2, <1>6, <1>6a
<1>10. ledger'.rows[pager'.base].epoch = pager'.epoch => ledger'.rows[pager'.base].blocks = pager'.first
  BY <1>1, <1>9 DEF set
<1>11. PagerOK(ledger', pager')
  <2>1. pager'.epoch <= ledger'.epochs
    BY <1>1, <1>9
  <2>2. pager'.done => pager'.offset = Cardinality(pager'.first)
    BY <1>8, <1>9
  <2>3. QED BY <1>8, <1>9, <1>10, <2>1, <2>2 DEF PagerOK
<1>12. QED BY <1>1, <1>11 DEF BaseInv

\* A later page of the set, under the cursor's epoch.
LEMMA NextPageKeeps ==
  ASSUME BaseInv, NextPage
  PROVE  BaseInv'
<1> DEFINE set == ledger.rows[pager.base].blocks
           k == pager.offset
           page == BlockerPage(set, k)
<1>1. /\ pager.base # 0 /\ ledger.rows[pager.base].epoch = pager.epoch /\ ledger' = ledger
      /\ pager' = [pager EXCEPT !.offset = k + Cardinality(page),
                     !.seen = pager.seen \cup page,
                     !.done = k + Cardinality(page) >= Cardinality(set)]
  BY DEF NextPage
<1>2. pager # NoPager
  BY <1>1 DEF NoPager
<1>3. /\ pager \in [ base : Versions, epoch : Nat \ {0}, offset : Nat, first : SUBSET Addresses,
                     seen : SUBSET Addresses, done : BOOLEAN ]
      /\ pager.epoch <= ledger.epochs /\ k <= Cardinality(pager.first)
      /\ pager.seen = {a \in pager.first : RankIn(pager.first, a) < k}
      /\ set = pager.first
  BY <1>1, <1>2 DEF BaseInv, PagerOK
<1>4. /\ set \in SUBSET Addresses /\ k \in Nat /\ k <= Cardinality(set)
      /\ pager.seen = {a \in set : RankIn(set, a) < k}
  BY <1>3
<1>5. set \subseteq Int /\ IsFiniteSet(set) /\ Cardinality(set) \in Nat
  BY <1>4, AddressSets, FS_CardinalityType
<1> DEFINE n == k + Cardinality(page)
<1> HIDE DEF set, k
<1>6. /\ n \in Nat /\ n <= Cardinality(set)
      /\ {a \in set : RankIn(set, a) < k} \cup page = {a \in set : RankIn(set, a) < n}
  BY <1>4, <1>5, PageIs
<1>7. page \subseteq set
  BY DEF BlockerPage
<1> HIDE DEF page, n
<1>8. pager' = [pager EXCEPT !.offset = n, !.seen = pager.seen \cup page,
                             !.done = n >= Cardinality(set)]
  BY <1>1 DEF n, k, set, page
<1>9. /\ pager' \in [ base : Versions, epoch : Nat \ {0}, offset : Nat, first : SUBSET Addresses,
                      seen : SUBSET Addresses, done : BOOLEAN ]
      /\ pager'.base = pager.base /\ pager'.epoch = pager.epoch /\ pager'.offset = n
      /\ pager'.first = set /\ pager'.seen = pager.seen \cup page
      /\ pager'.done = (n >= Cardinality(set))
  <2> DEFINE seen == pager.seen \cup page
             d == n >= Cardinality(set)
  <2>1. seen \in SUBSET Addresses /\ d \in BOOLEAN
    BY <1>3, <1>4, <1>5, <1>6, <1>7
  <2>2. pager' = [pager EXCEPT !.offset = n, !.seen = seen, !.done = d]
    BY <1>8
  <2> HIDE DEF seen, d
  <2>3. /\ pager' \in [ base : Versions, epoch : Nat \ {0}, offset : Nat, first : SUBSET Addresses,
                        seen : SUBSET Addresses, done : BOOLEAN ]
        /\ pager'.base = pager.base /\ pager'.epoch = pager.epoch /\ pager'.offset = n
        /\ pager'.first = pager.first /\ pager'.seen = seen /\ pager'.done = d
    BY <1>3, <1>6, <2>1, <2>2
  <2>4. QED BY <1>3, <2>3 DEF seen, d
<1>10. pager'.seen = {a \in set : RankIn(set, a) < n}
  BY <1>4, <1>6, <1>9
<1>11. PagerOK(ledger', pager')
  <2>1. pager'.done => pager'.offset = Cardinality(pager'.first)
    BY <1>5, <1>6, <1>9
  <2>2. ledger'.rows[pager'.base].blocks = pager'.first
    BY <1>1, <1>9 DEF set
  <2>3. QED BY <1>1, <1>3, <1>6, <1>9, <1>10, <2>1, <2>2 DEF PagerOK
<1>12. QED BY <1>1, <1>11 DEF BaseInv

\* An empty ledger, and a reader that has read nothing.
LEMMA BaseInvInit == BaseInit => BaseInv
<1> SUFFICES ASSUME BaseInit PROVE BaseInv
  OBVIOUS
<1>1. /\ ledger = [rows |-> [v \in Versions |-> NoBase], epochs |-> 0,
                   rules |-> [v \in Versions |-> {}], bound |-> FirstBound]
      /\ pager = NoPager
  BY DEF BaseInit, Versions
<1>2. NoBase \in BaseRow /\ NoBase.state = "none" /\ NoBase.epoch = 0
  BY DEF NoBase, BaseRow
<1>3. LedgerType(ledger)
  <2>1. FirstBound \in [Bindings -> Subjects]
    <3>1. FirstBound = [b \in Bindings |-> FirstBound[b]]
      BY BaseLedgerAssumption DEF Bindings
    <3>2. \A b \in Bindings : FirstBound[b] \in Subjects
      BY DEF Subjects
    <3>3. QED BY <3>1, <3>2
  <2>2. QED BY <1>1, <1>2, <2>1 DEF LedgerType
<1>4. \A v \in Versions : ledger.rows[v] = NoBase /\ ledger.rules[v] = {}
  BY <1>1
<1>5. OneEach(ledger) /\ RulesStandOn(ledger)
  BY <1>2, <1>4 DEF OneEach, RulesStandOn
<1>6. EpochsBounded(ledger) /\ BoundApart(ledger)
  BY <1>1, <1>2, <1>4 DEF EpochsBounded, BoundApart
<1>7. QED BY <1>1, <1>3, <1>5, <1>6 DEF BaseInv, GoodBase, PagerOK

\* Every transaction, restart and page keeps the invariant, and whoever serves
\* is followed by itself or by the next version.
LEMMA BaseInvNext == BaseInv /\ [BaseNext]_baseVars => BaseInv' /\ Advances(ledger, ledger')
<1> SUFFICES ASSUME BaseInv, [BaseNext]_baseVars PROVE BaseInv' /\ Advances(ledger, ledger')
  OBVIOUS
<1>0. GoodBase(ledger) /\ PagerOK(ledger, pager)
  BY DEF BaseInv
<1>s. ASSUME SameServing(ledger, ledger') PROVE Advances(ledger, ledger')
  BY <1>s DEF SameServing, Advances
<1>e. ASSUME GoodBase(ledger'), Follows(ledger, ledger'), UNCHANGED pager PROVE BaseInv'
  <2>1. PagerOK(ledger', pager)
    BY <1>0, <1>e, PagerStands
  <2>2. QED BY <1>e, <2>1 DEF BaseInv
<1>k. ASSUME UNCHANGED ledger PROVE Advances(ledger, ledger')
  BY <1>k, <1>s DEF SameServing
<1>1. ASSUME NEW i \in Install, StageBase(i) PROVE BaseInv' /\ Advances(ledger, ledger')
  <2>1. CanStage(ledger, i) /\ ledger' = StageBaseOn(ledger, i) /\ UNCHANGED pager
    BY <1>1 DEF StageBase, Becomes
  <2>2. GoodBase(ledger') /\ Follows(ledger, ledger') /\ SameServing(ledger, ledger')
    BY <1>0, <2>1, StageKeeps
  <2>3. QED BY <1>e, <1>s, <2>1, <2>2
<1>2. ASSUME NEW i \in Install, StageForCutover(i) PROVE BaseInv' /\ Advances(ledger, ledger')
  <2>1. ledger' \in StageForCutoverOn(ledger, i) /\ UNCHANGED pager
    BY <1>2 DEF StageForCutover, Becomes
  <2>2. GoodBase(ledger') /\ Follows(ledger, ledger') /\ SameServing(ledger, ledger')
    BY <1>0, <2>1, CutoverKeeps
  <2>3. QED BY <1>e, <1>s, <2>1, <2>2
<1>3. ASSUME NEW i \in Install, PublishGeneration(i) PROVE BaseInv' /\ Advances(ledger, ledger')
  <2>1. ledger' \in PublishGenerationOn(ledger, i) /\ UNCHANGED pager
    BY <1>3 DEF PublishGeneration, Becomes
  <2>2. GoodBase(ledger') /\ Follows(ledger, ledger') /\ Advances(ledger, ledger')
    BY <1>0, <2>1, PublishKeeps
  <2>3. QED BY <1>e, <2>1, <2>2
<1>4. ASSUME NEW i \in Install, NEW r \in Rule, RecordReleaseRules(i, r)
      PROVE  BaseInv' /\ Advances(ledger, ledger')
  <2> DEFINE k == WithRules(ledger, i.version, ledger.rules[i.version] \cup {r})
  <2>1. ledger' = SealBlockers(k, i) /\ UNCHANGED pager
    BY <1>4 DEF RecordReleaseRules, Becomes
  <2>2. i.version \in Versions /\ ledger.rows[i.version].state # "none"
    BY <1>4 DEF RecordReleaseRules, In, Versions
  <2>3. GoodBase(k) /\ Follows(ledger, k) /\ SameServing(ledger, k)
    BY <1>0, <2>2, RuleKeeps
  <2> HIDE DEF k
  <2>4. GoodBase(ledger') /\ Follows(k, ledger') /\ SameServing(k, ledger')
    BY <2>1, <2>3, SealKeeps
  <2>5. Follows(ledger, ledger') /\ SameServing(ledger, ledger')
    BY <1>0, <2>3, <2>4, FollowsOn DEF SameServing
  <2>6. QED BY <1>e, <1>s, <2>1, <2>4, <2>5
<1>5. ASSUME NEW r \in Rule, RecordIdentityMigration(r) PROVE BaseInv' /\ Advances(ledger, ledger')
  <2> DEFINE v == ServedVersion(ledger)
  <2>1. ledger' = WithRules(ledger, v, ledger.rules[v] \cup {r}) /\ UNCHANGED pager
    BY <1>5 DEF RecordIdentityMigration
  <2>2. v \in Versions /\ (v = 1 \/ ledger.rows[v].state # "none")
    <3>1. CASE In(ledger, "active") = {}
      <4>1. v = 1
        BY <3>1 DEF ServedVersion
      <4>2. 1 \in Versions
        BY BaseLedgerAssumption DEF Versions
      <4>3. QED BY <4>1, <4>2
    <3>2. CASE In(ledger, "active") # {}
      <4>1. v = CHOOSE x \in In(ledger, "active") : TRUE
        BY <3>2 DEF ServedVersion
      <4> HIDE DEF v
      <4>2. v \in In(ledger, "active")
        BY <3>2, <4>1
      <4>3. QED BY <4>2 DEF In, Versions
    <3>3. QED BY <3>1, <3>2
  <2> HIDE DEF v
  <2>3. GoodBase(ledger') /\ Follows(ledger, ledger') /\ SameServing(ledger, ledger')
    BY <1>0, <2>1, <2>2, RuleKeeps
  <2>4. QED BY <1>e, <1>s, <2>1, <2>3
<1>6. ASSUME NEW v \in 1 .. MaxVersion, CommitBase(v) PROVE BaseInv' /\ Advances(ledger, ledger')
  <2>1. ledger' \in CommitBaseOn(ledger, v) /\ UNCHANGED pager
    BY <1>6 DEF CommitBase, Becomes
  <2>2. GoodBase(ledger') /\ Follows(ledger, ledger') /\ Advances(ledger, ledger')
    BY <1>0, <2>1, CommitKeeps
  <2>3. QED BY <1>e, <2>1, <2>2
<1>7. ASSUME NEW v \in 1 .. MaxVersion, AbandonBase(v) PROVE BaseInv' /\ Advances(ledger, ledger')
  <2>1. v \in In(ledger, "staged") /\ ledger' = AbandonBaseOn(ledger, v) /\ UNCHANGED pager
    BY <1>7 DEF AbandonBase
  <2>2. GoodBase(ledger') /\ Follows(ledger, ledger') /\ SameServing(ledger, ledger')
    BY <1>0, <2>1, AbandonKeeps
  <2>3. QED BY <1>e, <1>s, <2>1, <2>2
<1>8. ASSUME NEW v \in 1 .. MaxVersion, FirstPage(v) PROVE BaseInv' /\ Advances(ledger, ledger')
  <2>1. UNCHANGED ledger
    BY <1>8 DEF FirstPage
  <2>2. QED BY <1>8, <1>k, <2>1, FirstPageKeeps
<1>9. CASE NextPage
  <2>1. UNCHANGED ledger
    BY <1>9 DEF NextPage
  <2>2. QED BY <1>9, <1>k, <2>1, NextPageKeeps
<1>10. CASE PageConflict
  <2>1. UNCHANGED ledger /\ pager' = NoPager
    BY <1>10 DEF PageConflict
  <2>2. QED BY <1>0, <1>k, <2>1 DEF BaseInv, PagerOK
<1>11. CASE BaseRestart \/ UNCHANGED baseVars
  <2>1. UNCHANGED <<ledger, pager>>
    BY <1>11 DEF BaseRestart, baseVars
  <2>2. QED BY <1>0, <1>k, <2>1 DEF BaseInv
<1>12. QED
  BY <1>1, <1>2, <1>3, <1>4, <1>5, <1>6, <1>7, <1>8, <1>9, <1>10, <1>11 DEF BaseNext

\* At most one document serves, which is what it was or the next version, and at
\* most one is staged.
LEMMA ServingIs ==
  ASSUME NEW l, NEW m, GoodBase(l), GoodBase(m), Advances(l, m)
  PROVE  /\ \A v \in In(l, "active"), w \in In(m, "active") : w \in {v, v + 1}
         /\ In(l, "active") # {} => Cardinality(In(m, "active")) = 1
         /\ Cardinality(In(m, "staged")) <= 1
<1>1. \A v, w \in In(m, "active") : v = w
  BY DEF GoodBase, OneEach, In, Versions
<1>2. \A v, w \in In(m, "staged") : v = w
  BY DEF GoodBase, OneEach, In, Versions
<1>3. \A v \in In(l, "active") : \E w \in In(m, "active") : w \in {v, v + 1}
  BY DEF Advances, In, Versions
<1>4. In(l, "active") # {} => Cardinality(In(m, "active")) = 1
  <2> SUFFICES ASSUME NEW v \in In(l, "active") PROVE Cardinality(In(m, "active")) = 1
    OBVIOUS
  <2>1. PICK w \in In(m, "active") : TRUE
    BY <1>3
  <2>2. In(m, "active") = {w}
    BY <1>1, <2>1
  <2>3. QED BY <2>2, FS_Singleton
<1>5. Cardinality(In(m, "staged")) <= 1
  <2>1. CASE In(m, "staged") = {}
    BY <2>1, FS_EmptySet
  <2>2. ASSUME NEW w \in In(m, "staged") PROVE Cardinality(In(m, "staged")) = 1
    <3>1. In(m, "staged") = {w}
      BY <1>2, <2>2
    <3>2. QED BY <3>1, FS_Singleton
  <2>3. QED BY <2>1, <2>2
<1>6. QED BY <1>1, <1>3, <1>4, <1>5

\* Whatever is staged, abandoned, pruned or sealed again between two pages: a
\* reader sees one blocker set, no move makes a conflict, rules go with their
\* document, and the serving version only advances (seal_blockers_on,
\* rebind_learning_identities_on, prune_base_versions, commit_base_on).
THEOREM BaseSafe == BaseSpec => BaseMovesWhole
<1>1. BaseInv => PagesAreOneSet /\ NoConflictByMove /\ RulesHaveTheirBase
  <2> SUFFICES ASSUME BaseInv PROVE PagesAreOneSet /\ NoConflictByMove /\ RulesHaveTheirBase
    OBVIOUS
  <2>1. PagesAreOneSet
    <3> SUFFICES ASSUME pager.done PROVE pager.seen = pager.first
      BY DEF PagesAreOneSet
    <3>1. pager # NoPager
      BY DEF NoPager
    <3>2. /\ pager.first \in SUBSET Addresses
          /\ pager.offset = Cardinality(pager.first)
          /\ pager.seen = {a \in pager.first : RankIn(pager.first, a) < pager.offset}
      BY <3>1 DEF BaseInv, PagerOK
    <3>3. pager.first \subseteq Int /\ IsFiniteSet(pager.first)
      BY <3>2, AddressSets
    <3>4. \A a \in pager.first : RankIn(pager.first, a) < Cardinality(pager.first)
      <4>1. Cardinality(pager.first) \in Nat
        BY <3>3, FS_CardinalityType
      <4>2. QED BY <3>3, <4>1, RanksRise
    <3>5. QED BY <3>2, <3>4
  <2>2. NoConflictByMove
    BY DEF BaseInv, GoodBase, BoundApart, NoConflictByMove
  <2>3. RulesHaveTheirBase
    BY DEF BaseInv, GoodBase, RulesStandOn, RulesHaveTheirBase, Versions
  <2>4. QED BY <2>1, <2>2, <2>3
<1>2. BaseInv /\ BaseInv' /\ Advances(ledger, ledger') =>
        [/\ \A v \in In(ledger, "active"), w \in In(ledger', "active") : w \in {v, v + 1}
         /\ In(ledger, "active") # {} => Cardinality(In(ledger', "active")) = 1
         /\ Cardinality(In(ledger', "staged")) <= 1]_baseVars
  BY ServingIs DEF BaseInv
<1>3. QED BY <1>1, <1>2, BaseInvInit, BaseInvNext, PTL DEF BaseSpec, BaseMovesWhole, ServingAdvances
-----------------------------------------------------------------------------
(* The supervisor (Supervisor): the bounded window tells as much as the      *)
(* whole history, the cooldown and the grace are kept by what remains of     *)
(* them, and the order names each watched task once.                         *)

Observed == {o.task : o \in Observations}
Sample == [signature : Signatures, useful : BOOLEAN]
WatchRecord == [windows : [Class -> Seq(Sample)], cooldown : Nat, grace : Nat]

\* The i-th newest sample of a window.
FromBack(w, i) == w[Len(w) + 1 - i]

\* A window and the stalled samples since the last useful one: as far as the window
\* reaches they are its newest, then comes the useful one; it is full when it does not
\* reach them all.
WindowIs(w, j, size) ==
    /\ Len(w) <= size
    /\ \A i \in 1 .. Len(j) : i <= Len(w) => ~ FromBack(w, i).useful /\ FromBack(w, i).signature = j[i]
    /\ Len(j) < Len(w) => FromBack(w, Len(j) + 1).useful
    /\ Len(j) > Len(w) => Len(w) = size

\* What a task's watch and its history know of each other.  The cooldown is what is
\* left of the one due; waiting is excused up to the grace, and from then on stalled.
WatchStands(w, j, q, p) ==
    /\ w \in WatchRecord /\ j \in [Class -> Seq(Signatures)]
    /\ q \in [n : Nat, due : Nat] /\ p \in [class : Class, n : Nat]
    /\ \A c \in Class : WindowIs(w.windows[c], j[c], Threshold[c].window)
    /\ w.cooldown <= q.due /\ q.due <= q.n + w.cooldown
    /\ \/ p.n <= w.grace /\ p.n <= Threshold[p.class].no_progress
       \/ /\ w.grace >= Threshold[p.class].no_progress
          /\ p.n <= Threshold[p.class].no_progress + Len(j[p.class])
    /\ \/ p.n + w.cooldown <= q.due
       \/ w.cooldown = 0 /\ Len(j[p.class]) < Threshold[p.class].no_progress

\* The order of the watches.
OrderStands(q) ==
    /\ q \in Seq(Observed) /\ Len(q) <= WATCH_LIMIT
    /\ \A i, k \in DOMAIN q : q[i] = q[k] => i = k

SupervisorInv ==
    /\ latest \in Observations /\ fed \in Nat
    /\ OrderStands(order) /\ ToSet(order) = DOMAIN watches
    /\ DOMAIN judged = DOMAIN watches /\ DOMAIN quiet = DOMAIN watches
    /\ DOMAIN parked = DOMAIN watches
    /\ \A t \in DOMAIN watches : WatchStands(watches[t], judged[t], quiet[t], parked[t])
    /\ fed > 0 => /\ Len(order) > 0 /\ order[Len(order)] = latest.task
                  /\ parked[latest.task].class = latest.class
    /\ WindowLosesNothing

\* The longest prefix whose places are all in a set is one, and no other is longer.
LEMMA PrefixLengthIs ==
  ASSUME NEW s, Len(s) \in Nat, NEW P
  PROVE  /\ PrefixLength(s, P) \in 0 .. Len(s)
         /\ \A c \in Nat : PrefixLength(s, P) >= c <=> c <= Len(s) /\ 1 .. c \subseteq P
<1> DEFINE S == {n \in 0 .. Len(s) : 1 .. n \subseteq P}
           T == {n + 1 : n \in S}
           l == PrefixLength(s, P)
<1>1. 0 \in S
  OBVIOUS
<1>2. T \subseteq 1 .. Len(s) + 1 /\ T # {}
  BY <1>1
<1>3. PICK x \in T : \A y \in T : y <= x
  <2>1. Len(s) + 1 \in Nat
    OBVIOUS
  <2> HIDE DEF T
  <2>2. QED BY <1>2, <2>1, GreatestInInterval
<1>4. \E n \in S : \A m \in S : n >= m
  <2>1. PICK n \in S : x = n + 1
    OBVIOUS
  <2>2. ASSUME NEW m \in S PROVE n >= m
    <3>1. m + 1 \in T /\ m \in Nat /\ n \in Nat
      OBVIOUS
    <3> HIDE DEF S, T
    <3>2. m + 1 <= n + 1
      BY <3>1, <2>1, <1>3
    <3>3. QED BY <3>1, <3>2
  <2>3. QED BY <2>2
<1>5. l = Max(S)
  BY DEF PrefixLength
<1> HIDE DEF S, T, l
<1>6. l \in S /\ \A m \in S : l >= m
  BY <1>4, <1>5 DEF Max
<1>7. l \in 0 .. Len(s) /\ 1 .. l \subseteq P
  BY <1>6 DEF S
<1>8. ASSUME NEW c \in Nat PROVE l >= c <=> c <= Len(s) /\ 1 .. c \subseteq P
  <2>1. ASSUME l >= c PROVE c <= Len(s) /\ 1 .. c \subseteq P
    BY <1>7, <2>1
  <2>2. ASSUME c <= Len(s), 1 .. c \subseteq P PROVE l >= c
    <3>1. c \in S
      BY <2>2 DEF S
    <3>2. QED BY <3>1, <1>6
  <2>3. QED BY <2>1, <2>2
<1>9. QED BY <1>7, <1>8 DEF l

\* The run a window shows is the history up to where the window reaches.
LEMMA StalledRunIs ==
  ASSUME NEW w \in Seq(Sample), NEW j \in Seq(Signatures), NEW size \in Nat, WindowIs(w, j, size),
         NEW m, m = IF Len(j) <= Len(w) THEN Len(j) ELSE Len(w)
  PROVE  m \in Nat /\ StalledRun(w) = [i \in 1 .. m |-> j[i]]
<1> DEFINE b == Reverse(w)
           P == {i \in DOMAIN b : ~ b[i].useful}
           l == PrefixLength(b, P)
<1>1. Len(w) \in Nat /\ Len(j) \in Nat /\ m \in Nat /\ m <= Len(w) /\ m <= Len(j)
  OBVIOUS
<1>2. Len(b) = Len(w) /\ DOMAIN b = 1 .. Len(w) /\ \A i \in 1 .. Len(w) : b[i] = FromBack(w, i)
  <2>1. b = [i \in 1 .. Len(w) |-> w[(Len(w) - i) + 1]]
    BY DEF Reverse
  <2>2. \A i \in 1 .. Len(w) : (Len(w) - i) + 1 = Len(w) + 1 - i
    BY <1>1
  <2>3. Len(b) = Len(w)
    BY <2>1, <1>1
  <2>4. QED BY <2>1, <2>2, <2>3 DEF FromBack
<1> HIDE DEF b
<1>3. \A i \in 1 .. m : i \in 1 .. Len(j) /\ i <= Len(w) /\ i \in 1 .. Len(w)
  BY <1>1
<1>4. \A i \in 1 .. m : ~ b[i].useful /\ b[i].signature = j[i]
  BY <1>2, <1>3 DEF WindowIs
<1>5. m < Len(w) => b[m + 1].useful
  <2>1. SUFFICES ASSUME m < Len(w) PROVE b[m + 1].useful
    OBVIOUS
  <2>2. m = Len(j) /\ Len(j) < Len(w) /\ m + 1 \in 1 .. Len(w)
    BY <2>1, <1>1
  <2>3. QED BY <2>2, <1>2 DEF WindowIs
<1>6. l \in 0 .. Len(b) /\ \A c \in Nat : l >= c <=> c <= Len(b) /\ 1 .. c \subseteq P
  <2> HIDE DEF P
  <2>1. QED BY <1>1, <1>2, PrefixLengthIs
<1>7. l >= m
  <2>1. 1 .. m \subseteq P
    BY <1>2, <1>3, <1>4
  <2>2. QED BY <2>1, <1>1, <1>2, <1>6
<1>8. ~ (l >= m + 1)
  <2>1. SUFFICES ASSUME l >= m + 1 PROVE FALSE
    OBVIOUS
  <2> DEFINE e == m + 1
  <2>2. e \in Nat /\ e = m + 1 /\ e \in 1 .. e
    BY <1>1
  <2> HIDE DEF e, P, l
  <2>3. e <= Len(b) /\ 1 .. e \subseteq P
    BY <2>1, <2>2, <1>6 DEF e
  <2>a. e \in P
    BY <2>2, <2>3
  <2>4. ~ b[m + 1].useful
    BY <2>a, <2>2 DEF P
  <2>5. m < Len(w)
    <3>1. e <= Len(w)
      BY <2>3, <1>2
    <3>2. QED BY <3>1, <2>2, <1>1
  <2>6. QED BY <2>4, <2>5, <1>5
<1>9. l = m
  <2>1. l \in Nat
    <3> HIDE DEF l
    <3>1. l \in 0 .. Len(w)
      BY <1>2, <1>6
    <3>2. QED BY <3>1, <1>1
  <2> HIDE DEF l
  <2>2. QED BY <2>1, <1>1, <1>7, <1>8
<1>10. StalledRun(w) = [i \in 1 .. l |-> b[i].signature]
  BY DEF StalledRun, b
<1> HIDE DEF P, l
<1>11. QED BY <1>1, <1>4, <1>9, <1>10

\* Two runs that agree as far as the first reaches have the same prefixes of that length.
LEMMA PrefixAgrees ==
  ASSUME NEW r, NEW j, Len(r) \in Nat, Len(j) \in Nat, Len(r) <= Len(j),
         NEW P, NEW Q, \A i \in 1 .. Len(r) : i \in P <=> i \in Q,
         NEW cap \in Nat, cap <= Len(r)
  PROVE  PrefixLength(r, P) >= cap <=> PrefixLength(j, Q) >= cap
<1>1. PrefixLength(r, P) >= cap <=> cap <= Len(r) /\ 1 .. cap \subseteq P
  BY PrefixLengthIs
<1>2. PrefixLength(j, Q) >= cap <=> cap <= Len(j) /\ 1 .. cap \subseteq Q
  BY PrefixLengthIs
<1>3. \A i \in 1 .. cap : i \in 1 .. Len(r)
  OBVIOUS
<1>4. 1 .. cap \subseteq P <=> 1 .. cap \subseteq Q
  BY <1>3
<1>5. cap <= Len(j)
  OBVIOUS
<1>6. QED BY <1>1, <1>2, <1>4, <1>5

\* A run cut at the size of the window calls for the cause the whole run calls for,
\* as no cap exceeds the window (ClassThresholds::validate).
LEMMA DetectAgrees ==
  ASSUME NEW c \in Class, NEW j \in Seq(Signatures), NEW m \in Nat, m <= Len(j),
         m = Len(j) \/ m = Threshold[c].window, NEW r, r = [i \in 1 .. m |-> j[i]]
  PROVE  Detect(r, Threshold[c]) = Detect(j, Threshold[c])
<1> DEFINE t == Threshold[c]
<1>1. /\ t.window \in Nat /\ t.exact_repeat \in Nat /\ t.fuzzy_repeat \in Nat
      /\ t.ping_pong \in Nat /\ t.no_progress \in Nat
      /\ t.exact_repeat <= t.window /\ t.fuzzy_repeat <= t.window
      /\ t.ping_pong <= t.window /\ t.no_progress <= t.window /\ 2 <= t.ping_pong
  BY SupervisorAssumption DEF Validate
<1> HIDE DEF t
<1>2. CASE m = Len(j)
  <2>1. r = j
    BY <1>2
  <2>2. QED BY <2>1
<1>3. CASE m = t.window /\ m < Len(j)
  <2>1. Len(r) = m /\ DOMAIN r = 1 .. m /\ DOMAIN j = 1 .. Len(j) /\ Len(j) \in Nat
    OBVIOUS
  <2>2. \A i \in 1 .. m : r[i] = j[i]
    OBVIOUS
  <2>3. m >= 2 /\ 1 \in 1 .. m /\ 2 \in 1 .. m
    BY <1>1, <1>3
  <2>4. r # <<>> /\ j # <<>> /\ r[1] = j[1] /\ r[2] = j[2]
    <3>1. r[1] = j[1] /\ r[2] = j[2]
      BY <2>2, <2>3
    <3>2. Len(<<>>) = 0 /\ Len(r) # 0 /\ Len(j) # 0
      BY <2>1, <2>3, <1>3
    <3> HIDE DEF t
    <3>3. r # <<>> /\ j # <<>>
      BY ONLY <3>2
    <3>4. QED BY <3>1, <3>3
  <2>5. \A i \in 1 .. m : i \in DOMAIN r /\ i \in DOMAIN j
    BY <2>1, <1>3
  <2>6. Exact(r) >= t.exact_repeat <=> Exact(j) >= t.exact_repeat
    <3> DEFINE P == {i \in DOMAIN r : ExactMatch(r[i], r[1])}
               Q == {i \in DOMAIN j : ExactMatch(j[i], j[1])}
    <3>1. \A i \in 1 .. m : i \in P <=> i \in Q
      BY <2>2, <2>4, <2>5
    <3>2. Exact(r) = PrefixLength(r, P) /\ Exact(j) = PrefixLength(j, Q)
      BY DEF Exact
    <3> HIDE DEF P, Q
    <3>3. PrefixLength(r, P) >= t.exact_repeat <=> PrefixLength(j, Q) >= t.exact_repeat
      <4>1. t.exact_repeat \in Nat /\ t.exact_repeat <= Len(r) /\ Len(r) <= Len(j) /\ Len(r) \in Nat /\ Len(j) \in Nat
        BY <2>1, <1>1, <1>3
      <4>2. \A i \in 1 .. Len(r) : i \in P <=> i \in Q
        BY <2>1, <3>1
      <4>3. QED BY ONLY <4>1, <4>2, PrefixAgrees
    <3>4. QED BY <3>2, <3>3
  <2>7. Fuzzy(r) >= t.fuzzy_repeat <=> Fuzzy(j) >= t.fuzzy_repeat
    <3> DEFINE P == {i \in DOMAIN r : FuzzyMatch(r[i], r[1])}
               Q == {i \in DOMAIN j : FuzzyMatch(j[i], j[1])}
    <3>1. \A i \in 1 .. m : i \in P <=> i \in Q
      BY <2>2, <2>4, <2>5
    <3>2. Fuzzy(r) = PrefixLength(r, P) /\ Fuzzy(j) = PrefixLength(j, Q)
      BY DEF Fuzzy
    <3> HIDE DEF P, Q
    <3>3. PrefixLength(r, P) >= t.fuzzy_repeat <=> PrefixLength(j, Q) >= t.fuzzy_repeat
      <4>1. t.fuzzy_repeat \in Nat /\ t.fuzzy_repeat <= Len(r) /\ Len(r) <= Len(j) /\ Len(r) \in Nat /\ Len(j) \in Nat
        BY <2>1, <1>1, <1>3
      <4>2. \A i \in 1 .. Len(r) : i \in P <=> i \in Q
        BY <2>1, <3>1
      <4>3. QED BY ONLY <4>1, <4>2, PrefixAgrees
    <3>4. QED BY <3>2, <3>3
  <2>8. TrailingAlternations(r) >= t.ping_pong <=> TrailingAlternations(j) >= t.ping_pong
    <3> DEFINE P == {i \in DOMAIN r : r[i] = r[Alternate(i)]}
               Q == {i \in DOMAIN j : j[i] = j[Alternate(i)]}
    <3>1. \A i : Alternate(i) \in {1, 2}
      BY DEF Alternate
    <3>2. \A i : r[Alternate(i)] = j[Alternate(i)]
      BY <3>1, <2>4
    <3>3. \A i \in 1 .. m : i \in P <=> i \in Q
      BY <2>2, <2>5, <3>2
    <3>4. /\ TrailingAlternations(r) = IF r[1] = r[2] THEN 0 ELSE PrefixLength(r, P)
          /\ TrailingAlternations(j) = IF r[1] = r[2] THEN 0 ELSE PrefixLength(j, Q)
      BY <2>1, <2>3, <2>4, <1>3 DEF TrailingAlternations
    <3> HIDE DEF P, Q
    <3>5. PrefixLength(r, P) >= t.ping_pong <=> PrefixLength(j, Q) >= t.ping_pong
      <4>1. t.ping_pong \in Nat /\ t.ping_pong <= Len(r) /\ Len(r) <= Len(j) /\ Len(r) \in Nat /\ Len(j) \in Nat
        BY <2>1, <1>1, <1>3
      <4>2. \A i \in 1 .. Len(r) : i \in P <=> i \in Q
        BY <2>1, <3>3
      <4>3. QED BY ONLY <4>1, <4>2, PrefixAgrees
    <3>6. QED BY <3>4, <3>5
  <2>9. Len(r) >= t.no_progress /\ Len(j) >= t.no_progress
    BY <2>1, <1>1, <1>3
  <2>10. Detect(r, t) = Detect(j, t)
    BY <2>4, <2>6, <2>7, <2>8, <2>9 DEF Detect
  <2>11. QED BY <2>10 DEF t
<1>4. QED BY <1>2, <1>3 DEF t


\* A sample pushed at the limit drops the oldest, which the window need not show.
LEMMA PushKeeps ==
  ASSUME NEW w \in Seq(Sample), NEW j \in Seq(Signatures), NEW size \in Nat, size >= 1,
         WindowIs(w, j, size), NEW x \in Sample,
         NEW k, x.useful => k = <<>>, ~ x.useful => k = <<x.signature>> \o j
  PROVE  /\ Push(w, x, size) \in Seq(Sample) /\ k \in Seq(Signatures)
         /\ x.useful => Len(k) = 0
         /\ ~ x.useful => Len(k) = Len(j) + 1
         /\ WindowIs(Push(w, x, size), k, size)
<1> DEFINE a == Append(w, x)
           p == Push(w, x, size)
<1>1. Len(w) \in Nat /\ Len(j) \in Nat /\ Len(w) <= size /\ x.signature \in Signatures /\ x.useful \in BOOLEAN
  BY DEF WindowIs, Sample
<1>2. /\ a \in Seq(Sample) /\ Len(a) = Len(w) + 1 /\ a[Len(w) + 1] = x
      /\ \A i \in 1 .. Len(w) : a[i] = w[i]
  OBVIOUS
<1> HIDE DEF a
<1>3. FromBack(a, 1) = x /\ \A i \in 1 .. Len(w) : FromBack(a, i + 1) = FromBack(w, i)
  <2>1. Len(a) + 1 - 1 = Len(w) + 1
    BY <1>1, <1>2
  <2>2. \A i \in 1 .. Len(w) : Len(a) + 1 - (i + 1) = Len(w) + 1 - i /\ Len(w) + 1 - i \in 1 .. Len(w)
    BY <1>1, <1>2
  <2>3. QED BY <2>1, <2>2, <1>2 DEF FromBack
<1>4. p = IF Len(a) > size THEN Tail(a) ELSE a
  BY DEF Push, a
<1> HIDE DEF p
<1>5. /\ p \in Seq(Sample) /\ Len(p) >= 1 /\ Len(p) <= size
      /\ Len(p) = Len(w) + 1 \/ (Len(p) = Len(w) /\ Len(w) = size)
      /\ \A i \in 1 .. Len(p) : FromBack(p, i) = FromBack(a, i)
  <2>1. CASE Len(a) > size
    <3>1. a # <<>> /\ p = Tail(a) /\ Len(w) = size
      BY <1>1, <1>2, <1>4, <2>1
    <3>2. p \in Seq(Sample) /\ Len(p) = Len(w) /\ \A i \in 1 .. Len(w) : p[i] = a[i + 1]
      BY <3>1, <1>1, <1>2
    <3>3. \A i \in 1 .. Len(w) : /\ Len(p) + 1 - i \in 1 .. Len(w)
                                 /\ Len(a) + 1 - i = Len(p) + 1 - i + 1
      BY <3>2, <1>1, <1>2
    <3>4. \A i \in 1 .. Len(w) : FromBack(p, i) = FromBack(a, i)
      BY <3>2, <3>3 DEF FromBack
    <3>5. QED BY <3>1, <3>2, <3>4, <1>1
  <2>2. CASE ~ (Len(a) > size)
    BY <1>1, <1>2, <1>4, <2>2
  <2>3. QED BY <2>1, <2>2
<1>6. FromBack(p, 1) = x /\ \A i \in 1 .. Len(w) : i + 1 <= Len(p) => FromBack(p, i + 1) = FromBack(w, i)
  <2>1. 1 \in 1 .. Len(p) /\ \A i \in 1 .. Len(w) : i + 1 <= Len(p) => i + 1 \in 1 .. Len(p)
    BY <1>1, <1>5
  <2>2. QED BY <2>1, <1>3, <1>5
<1>7. CASE x.useful
  <2>1. k = <<>> /\ Len(k) = 0 /\ k \in Seq(Signatures)
    BY <1>7
  <2>2. QED BY <2>1, <1>5, <1>6, <1>7 DEF WindowIs, p
<1>8. CASE ~ x.useful
  <2>1. k = <<x.signature>> \o j
    BY <1>8
  <2>2. /\ k \in Seq(Signatures) /\ Len(k) = Len(j) + 1 /\ k[1] = x.signature
        /\ \A i \in 1 .. Len(j) : k[i + 1] = j[i]
    BY <2>1, <1>1
  <2>3. ASSUME NEW i \in 1 .. Len(k), i <= Len(p)
        PROVE  ~ FromBack(p, i).useful /\ FromBack(p, i).signature = k[i]
    <3>1. CASE i = 1
      BY <3>1, <2>2, <1>6, <1>8
    <3>2. CASE i # 1
      <4>1. i - 1 \in 1 .. Len(j) /\ i - 1 \in 1 .. Len(w) /\ i = (i - 1) + 1 /\ i - 1 <= Len(w)
        BY <3>2, <2>2, <2>3, <1>1, <1>5
      <4>2. FromBack(p, i) = FromBack(w, i - 1) /\ k[i] = j[i - 1]
        BY <4>1, <2>2, <2>3, <1>6
      <4>3. QED BY <4>1, <4>2 DEF WindowIs
    <3>3. QED BY <3>1, <3>2
  <2>4. ASSUME Len(k) < Len(p) PROVE FromBack(p, Len(k) + 1).useful
    <3>1. Len(j) < Len(w) /\ Len(j) + 1 \in 1 .. Len(w) /\ Len(j) + 1 + 1 <= Len(p) /\ Len(k) + 1 = Len(j) + 1 + 1
      BY <2>2, <2>4, <1>1, <1>5
    <3>2. FromBack(p, Len(k) + 1) = FromBack(w, Len(j) + 1)
      BY <3>1, <1>6
    <3>3. QED BY <3>1, <3>2 DEF WindowIs
  <2>5. ASSUME Len(k) > Len(p) PROVE Len(p) = size
    BY <2>2, <2>5, <1>1, <1>5 DEF WindowIs
  <2>6. WindowIs(p, k, size)
    BY <2>3, <2>4, <2>5, <1>5 DEF WindowIs
  <2>7. QED BY <2>2, <2>6, <1>5, <1>8 DEF p
<1>9. QED BY <1>1, <1>7, <1>8

\* What a ruling is: the grace is spent one at a time, up to the cap.
LEMMA VerdictIs ==
  ASSUME NEW o \in Observations, NEW w, w.grace \in Nat
  PROVE  /\ Useful(o, w).useful \in BOOLEAN /\ Useful(o, w).grace \in Nat
         /\ o.waiting => \/ /\ ~ Useful(o, w).useful /\ Useful(o, w).grace = w.grace
                            /\ w.grace >= Threshold[o.class].no_progress
                         \/ /\ Useful(o, w).useful /\ Useful(o, w).grace = w.grace + 1
                            /\ w.grace < Threshold[o.class].no_progress
<1>1. o.progress \in BOOLEAN /\ o.waiting \in BOOLEAN /\ o.class \in Class
      /\ Threshold[o.class].no_progress \in Nat
  BY SupervisorAssumption
<1>2. CASE ~ o.waiting
  BY <1>1, <1>2 DEF Useful
<1>3. CASE o.waiting /\ w.grace >= Threshold[o.class].no_progress
  BY <1>1, <1>3 DEF Useful
<1>4. CASE o.waiting /\ ~ (w.grace >= Threshold[o.class].no_progress)
  BY <1>1, <1>4 DEF Useful
<1>5. QED BY <1>2, <1>3, <1>4

\* The watch and the histories of a task after an observation, as Observe writes them.
NextWatch(o, w, window, cause, ruling) ==
    [windows  |-> [w.windows EXCEPT ![o.class] = window],
     cooldown |-> IF w.cooldown > 0 THEN w.cooldown - 1
                  ELSE IF cause # "none" THEN Threshold[o.class].cooldown ELSE 0,
     grace    |-> ruling.grace]
NextStalled(o, j, ruling) ==
    [j EXCEPT ![o.class] = IF ruling.useful THEN <<>> ELSE <<o.signature>> \o j[o.class]]
NextQuiet(o, q, cause) ==
    IF cause # "none" THEN [n |-> 0, due |-> Threshold[o.class].cooldown]
    ELSE [n |-> q.n + 1, due |-> q.due]
NextParked(o, p, cause) ==
    [class |-> o.class, n |-> IF ~ o.waiting \/ cause # "none" THEN 0 ELSE p.n + 1]

\* One observation of a task keeps its watch and its history together: a cause is fired
\* only when the cooldown due is over, and it is the one the whole history calls for.
LEMMA ObservedStands ==
  ASSUME NEW o \in Observations, NEW w, NEW j, NEW q, NEW p, WatchStands(w, j, q, p), p.class = o.class,
         NEW ruling, ruling = Useful(o, w),
         NEW x, x = [signature |-> o.signature, useful |-> ruling.useful],
         NEW window, window = Push(w.windows[o.class], x, Threshold[o.class].window),
         NEW cause, cause = Fires(w, window, Threshold[o.class]),
         NEW v, v = NextWatch(o, w, window, cause, ruling), NEW k, k = NextStalled(o, j, ruling),
         NEW r, r = NextQuiet(o, q, cause), NEW u, u = NextParked(o, p, cause)
  PROVE  /\ WatchStands(v, k, r, u)
         /\ ~ (w.cooldown > 0) => cause = Detect(k[o.class], Threshold[o.class])
         /\ cause # "none" => q.n >= q.due
         /\ o.waiting => u.n < 2 * Threshold[o.class].no_progress \/ u.n <= r.due
         /\ ~ o.waiting => u.n = 0 /\ r.due \in Nat
<1> DEFINE c == o.class
           t == Threshold[c]
           np == t.no_progress
<1>1. /\ c \in Class /\ o.progress \in BOOLEAN /\ o.waiting \in BOOLEAN
      /\ t.window \in Nat /\ t.window >= 1 /\ np \in Nat /\ t.cooldown \in Nat
      /\ o.signature \in Signatures
  BY SupervisorAssumption DEF Validate, Signatures
<1>2. /\ w.windows \in [Class -> Seq(Sample)] /\ w.cooldown \in Nat /\ w.grace \in Nat
      /\ j \in [Class -> Seq(Signatures)] /\ q.n \in Nat /\ q.due \in Nat /\ p.n \in Nat
      /\ \A d \in Class : WindowIs(w.windows[d], j[d], Threshold[d].window)
      /\ w.cooldown <= q.due /\ q.due <= q.n + w.cooldown
      /\ (p.n <= w.grace /\ p.n <= np) \/ (w.grace >= np /\ p.n <= np + Len(j[c]))
      /\ p.n + w.cooldown <= q.due \/ (w.cooldown = 0 /\ Len(j[c]) < np)
  BY DEF WatchStands, WatchRecord
<1>3. /\ ruling.useful \in BOOLEAN /\ ruling.grace \in Nat
      /\ o.waiting => \/ ~ ruling.useful /\ ruling.grace = w.grace /\ w.grace >= np
                      \/ ruling.useful /\ ruling.grace = w.grace + 1 /\ w.grace < np
  BY <1>2, VerdictIs
<1>4. x \in Sample /\ x.useful = ruling.useful /\ x.signature = o.signature
  BY <1>1, <1>3 DEF Sample
<1>5. /\ k[c] = IF x.useful THEN <<>> ELSE <<x.signature>> \o j[c]
      /\ \A d \in Class : d # c => k[d] = j[d]
      /\ k = [d \in Class |-> k[d]]
  BY <1>1, <1>2, <1>4 DEF NextStalled
<1>6. /\ window \in Seq(Sample) /\ k[c] \in Seq(Signatures) /\ Len(j[c]) \in Nat
      /\ Len(k[c]) = (IF x.useful THEN 0 ELSE Len(j[c]) + 1)
      /\ WindowIs(window, k[c], t.window)
  <2>1. w.windows[c] \in Seq(Sample) /\ j[c] \in Seq(Signatures) /\ WindowIs(w.windows[c], j[c], t.window)
    BY <1>1, <1>2
  <2> DEFINE kc == k[c]
  <2>2. kc = IF x.useful THEN <<>> ELSE <<x.signature>> \o j[c]
    BY <1>5
  <2>3. window = Push(w.windows[c], x, t.window)
    OBVIOUS
  <2>a. t.window \in Nat /\ t.window >= 1
    BY <1>1
  <2> DEFINE wc == w.windows[c]
             jc == j[c]
             size == t.window
  <2>b. /\ wc \in Seq(Sample) /\ jc \in Seq(Signatures) /\ WindowIs(wc, jc, size)
        /\ size \in Nat /\ size >= 1 /\ x \in Sample
        /\ x.useful => kc = <<>>
        /\ ~ x.useful => kc = <<x.signature>> \o jc
        /\ window = Push(wc, x, size)
    BY <2>1, <2>2, <2>3, <2>a, <1>4
  <2> HIDE DEF kc, wc, jc, size
  <2>4. /\ Push(wc, x, size) \in Seq(Sample) /\ kc \in Seq(Signatures)
        /\ x.useful => Len(kc) = 0
        /\ ~ x.useful => Len(kc) = Len(jc) + 1
        /\ WindowIs(Push(wc, x, size), kc, size)
    BY ONLY <2>b, PushKeeps
  <2>5. Len(jc) \in Nat
    BY <2>b
  <2>6. QED BY <2>b, <2>4, <2>5 DEF kc, jc, size
<1> HIDE DEF t, np
<1>7. np = t.no_progress /\ t = Threshold[c] /\ c = o.class
  BY DEF np, t
<1>8. /\ cause = IF w.cooldown > 0 THEN "none" ELSE Detect(StalledRun(window), t)
  BY <1>7 DEF Fires
<1>9. ~ (w.cooldown > 0) => cause = Detect(k[c], t)
  <2>1. SUFFICES ASSUME ~ (w.cooldown > 0) PROVE cause = Detect(k[c], t)
    OBVIOUS
  <2> DEFINE kc == k[c]
             m == IF Len(kc) <= Len(window) THEN Len(kc) ELSE Len(window)
             run == StalledRun(window)
  <2>2. kc \in Seq(Signatures) /\ WindowIs(window, kc, t.window)
    BY <1>6
  <2> HIDE DEF kc
  <2>3. m \in Nat /\ m <= Len(kc) /\ (m = Len(kc) \/ m = t.window)
    BY <2>2, <1>6 DEF WindowIs
  <2> HIDE DEF m
  <2>4. run = [i \in 1 .. m |-> kc[i]]
    <3>1. window \in Seq(Sample) /\ t.window \in Nat
      BY <1>1, <1>6
    <3>2. m = IF Len(kc) <= Len(window) THEN Len(kc) ELSE Len(window)
      BY DEF m
    <3>3. StalledRun(window) = [i \in 1 .. m |-> kc[i]]
      BY ONLY <2>2, <3>1, <3>2, StalledRunIs
    <3>4. QED BY <3>3 DEF run
  <2> HIDE DEF run
  <2>5. Detect(run, t) = Detect(kc, t)
    BY <2>2, <2>3, <2>4, <1>1, DetectAgrees DEF t
  <2>6. QED BY <2>1, <2>5, <1>8 DEF kc, run
<1>10. cause # "none" => ~ (w.cooldown > 0)
  BY <1>8
<1>11. cause = "none" /\ ~ (w.cooldown > 0) => Len(k[c]) = 0 \/ Len(k[c]) < np
  <2>1. SUFFICES ASSUME cause = "none", ~ (w.cooldown > 0), Len(k[c]) # 0, ~ (Len(k[c]) < np) PROVE FALSE
    OBVIOUS
  <2>2. Detect(k[c], t) = "none" /\ k[c] # <<>> /\ Len(k[c]) >= t.no_progress
    BY <2>1, <1>1, <1>6, <1>7, <1>9
  <2>3. QED BY <2>2 DEF Detect
<1>12. /\ v.windows = [w.windows EXCEPT ![c] = window] /\ v.grace = ruling.grace
       /\ v.cooldown = (IF w.cooldown > 0 THEN w.cooldown - 1 ELSE IF cause # "none" THEN t.cooldown ELSE 0)
       /\ v.cooldown \in Nat
  BY <1>1, <1>2, <1>7 DEF NextWatch
<1>13. v \in WatchRecord
  <2>1. v.windows \in [Class -> Seq(Sample)]
    BY <1>2, <1>6, <1>12
  <2>2. v = [windows |-> v.windows, cooldown |-> v.cooldown, grace |-> v.grace]
    BY DEF NextWatch
  <2>3. QED BY <2>1, <2>2, <1>3, <1>12 DEF WatchRecord
<1>14. k \in [Class -> Seq(Signatures)]
  <2>1. \A d \in Class : k[d] \in Seq(Signatures)
    BY <1>2, <1>5, <1>6
  <2>2. QED BY <2>1, <1>5
<1>15. \A d \in Class : WindowIs(v.windows[d], k[d], Threshold[d].window)
  <2>1. \A d \in Class : d # c => v.windows[d] = w.windows[d]
    BY <1>2, <1>12
  <2>2. v.windows[c] = window
    BY <1>1, <1>2, <1>12
  <2>3. QED BY <2>1, <2>2, <1>2, <1>5, <1>6, <1>7
<1>16. /\ r \in [n : Nat, due : Nat]
       /\ cause # "none" => r.n = 0 /\ r.due = t.cooldown
       /\ cause = "none" => r.n = q.n + 1 /\ r.due = q.due
  BY <1>1, <1>2, <1>7 DEF NextQuiet
<1>17. /\ u \in [class : Class, n : Nat] /\ u.class = c
       /\ ~ o.waiting \/ cause # "none" => u.n = 0
       /\ o.waiting /\ cause = "none" => u.n = p.n + 1
  BY <1>1, <1>2 DEF NextParked
<1>18. v.cooldown <= r.due /\ r.due <= r.n + v.cooldown /\ r.n \in Nat /\ r.due \in Nat
  BY <1>1, <1>2, <1>10, <1>12, <1>16
<1>19. (u.n <= v.grace /\ u.n <= np) \/ (v.grace >= np /\ u.n <= np + Len(k[c]))
  <2>1. CASE u.n = 0
    BY <2>1, <1>1, <1>3, <1>12
  <2>2. CASE o.waiting /\ cause = "none"
    <3>1. u.n = p.n + 1 /\ v.grace = ruling.grace /\ p.n \in Nat /\ w.grace \in Nat /\ np \in Nat
      BY <2>2, <1>1, <1>2, <1>12, <1>17
    <3>2. CASE ruling.useful
      <4>1. ruling.grace = w.grace + 1 /\ w.grace < np
        BY <2>2, <3>2, <1>3
      <4>2. p.n <= w.grace /\ p.n <= np
        BY <3>1, <4>1, <1>2
      <4>3. u.n <= v.grace /\ u.n <= np
        BY <3>1, <4>1, <4>2
      <4>4. QED BY <4>3
    <3>3. CASE ~ ruling.useful
      <4>1. ruling.grace = w.grace /\ w.grace >= np
        BY <2>2, <3>3, <1>3
      <4>2. Len(k[c]) = Len(j[c]) + 1 /\ Len(j[c]) \in Nat
        BY <3>3, <1>4, <1>6
      <4>3. p.n <= np + Len(j[c])
        BY <3>1, <4>2, <1>2
      <4>4. u.n <= np + Len(k[c])
        BY <3>1, <4>2, <4>3
      <4>5. QED BY <3>1, <4>1, <4>4
    <3>4. QED BY <3>2, <3>3, <1>3
  <2>3. QED BY <2>1, <2>2, <1>1, <1>17
<1>20. u.n + v.cooldown <= r.due \/ (v.cooldown = 0 /\ Len(k[c]) < np)
  <2>1. CASE u.n = 0
    BY <2>1, <1>12, <1>18
  <2>2. CASE o.waiting /\ cause = "none" /\ w.cooldown > 0
    BY <2>2, <1>1, <1>2, <1>12, <1>16, <1>17
  <2>3. CASE o.waiting /\ cause = "none" /\ ~ (w.cooldown > 0)
    <3>1. v.cooldown = 0
      BY <2>3, <1>2, <1>12
    <3>2. Len(k[c]) < np
      BY <2>3, <1>1, <1>2, <1>3, <1>4, <1>6, <1>11
    <3>3. QED BY <3>1, <3>2
  <2>4. QED BY <2>1, <2>2, <2>3, <1>1, <1>17
<1>21. WatchStands(v, k, r, u)
  BY <1>13, <1>14, <1>15, <1>16, <1>17, <1>18, <1>19, <1>20, <1>7 DEF WatchStands
<1>22. cause # "none" => q.n >= q.due
  BY <1>2, <1>10
<1>23. u.n < 2 * np \/ u.n <= r.due
  <2>1. u.n \in Nat /\ Len(k[c]) \in Nat /\ v.cooldown \in Nat
    BY <1>6, <1>12, <1>17
  <2>2. QED BY <2>1, <1>1, <1>18, <1>19, <1>20
<1>24. QED BY <1>9, <1>7, <1>17, <1>18, <1>21, <1>22, <1>23


\* A sequence that names each element once has as many elements as places.
LEMMA OnceEach ==
  ASSUME NEW S, NEW q \in Seq(S), \A i, k \in DOMAIN q : q[i] = q[k] => i = k
  PROVE  IsFiniteSet(ToSet(q)) /\ Cardinality(ToSet(q)) = Len(q)
<1> DEFINE n == Len(q)
           T == ToSet(q)
<1>1. n \in Nat /\ DOMAIN q = 1 .. n /\ q = [i \in 1 .. n |-> q[i]]
  OBVIOUS
<1> HIDE DEF n
<1>2. T = {q[i] : i \in 1 .. n}
  BY <1>1 DEF ToSet
<1> HIDE DEF T
<1>3. q \in [1 .. n -> T]
  BY <1>1, <1>2
<1>4. q \in Surjection(1 .. n, T) /\ q \in Injection(1 .. n, T)
  BY <1>1, <1>2, <1>3 DEF Injection, IsInjective, Surjection
<1>5. IsFiniteSet(1 .. n) /\ Cardinality(1 .. n) = n
  <2>1. 1 \in Int /\ n \in Int
    BY <1>1
  <2>2. /\ IsFiniteSet(1 .. n)
        /\ Cardinality(1 .. n) = IF 1 > n THEN 0 ELSE n - 1 + 1
    BY <2>1, FS_Interval
  <2>3. (IF 1 > n THEN 0 ELSE n - 1 + 1) = n
    BY <1>1
  <2>4. QED BY <2>2, <2>3
<1>6. IsFiniteSet(T) /\ (Cardinality(T) = Cardinality(1 .. n) <=> q \in Injection(1 .. n, T))
  BY <1>4, <1>5, FS_Surjection
<1>7. QED BY <1>4, <1>5, <1>6 DEF n, T

\* A piece of a sequence.
LEMMA PieceIs ==
  ASSUME NEW S, NEW q \in Seq(S), NEW a \in Nat, NEW b \in Nat, a <= b, b <= Len(q)
  PROVE  /\ SubSeq(q, a + 1, b) \in Seq(S) /\ Len(SubSeq(q, a + 1, b)) = b - a
         /\ \A i \in 1 .. b - a : SubSeq(q, a + 1, b)[i] = q[a + i]
<1> DEFINE m == a + 1
<1>1. m \in Int /\ b \in Int /\ \A i \in m .. b : q[i] \in S
  OBVIOUS
<1>2. m = a + 1 /\ b - m + 1 = b - a /\ (IF m <= b THEN b - m + 1 ELSE 0) = b - a
  OBVIOUS
<1> HIDE DEF m
<1>3. /\ SubSeq(q, m, b) \in Seq(S) /\ Len(SubSeq(q, m, b)) = IF m <= b THEN b - m + 1 ELSE 0
      /\ \A i \in 1 .. b - m + 1 : SubSeq(q, m, b)[i] = q[m + i - 1]
  BY <1>1, SubSeqProperties
<1>4. \A i \in 1 .. b - a : m + i - 1 = a + i
  BY <1>2
<1>5. QED BY <1>2, <1>3, <1>4

\* What the order is once t is observed: t last, each watched task once, and within the
\* limit; all but t were watched.
LEMMA KeptOrderIs ==
  ASSUME OrderStands(order), ToSet(order) = DOMAIN watches, NEW t \in Observed
  PROVE  /\ OrderStands(KeptOrder(t)) /\ Len(KeptOrder(t)) > 0
         /\ KeptOrder(t)[Len(KeptOrder(t))] = t
         /\ t \in ToSet(KeptOrder(t)) /\ ToSet(KeptOrder(t)) \subseteq DOMAIN watches \cup {t}
<1> DEFINE n == Len(order)
           D == DOMAIN watches
<1>1. /\ order \in Seq(Observed) /\ n \in Nat /\ n <= WATCH_LIMIT /\ DOMAIN order = 1 .. n
      /\ \A i, k \in 1 .. n : order[i] = order[k] => i = k
      /\ D = {order[i] : i \in 1 .. n}
      /\ WATCH_LIMIT \in Nat /\ WATCH_LIMIT >= 1
  <2>1. order \in Seq(Observed) /\ n <= WATCH_LIMIT
    BY DEF OrderStands
  <2>2. n \in Nat /\ DOMAIN order = 1 .. n
    BY <2>1
  <2>3. \A i, k \in 1 .. n : order[i] = order[k] => i = k
    BY <2>2 DEF OrderStands
  <2>4. D = {order[i] : i \in 1 .. n}
    BY <2>2 DEF ToSet
  <2>5. WATCH_LIMIT \in Nat /\ WATCH_LIMIT >= 1
    BY SupervisorAssumption
  <2>6. QED BY <2>1, <2>2, <2>3, <2>4, <2>5
\* It is enough to show what stays in front of t.
<1>2. ASSUME NEW q \in Seq(Observed), KeptOrder(t) = Append(q, t), Len(q) + 1 <= WATCH_LIMIT,
             \A i, k \in 1 .. Len(q) : q[i] = q[k] => i = k,
             \A i \in 1 .. Len(q) : q[i] \in D /\ q[i] # t
      PROVE  /\ OrderStands(KeptOrder(t)) /\ Len(KeptOrder(t)) > 0
             /\ KeptOrder(t)[Len(KeptOrder(t))] = t
             /\ t \in ToSet(KeptOrder(t)) /\ ToSet(KeptOrder(t)) \subseteq D \cup {t}
  <2> DEFINE a == Append(q, t)
  <2>1. /\ Len(q) \in Nat /\ a \in Seq(Observed) /\ Len(a) = Len(q) + 1 /\ DOMAIN a = 1 .. Len(q) + 1
        /\ a[Len(q) + 1] = t /\ \A i \in 1 .. Len(q) : a[i] = q[i]
    OBVIOUS
  <2> HIDE DEF a
  <2>2. \A i \in DOMAIN a : i = Len(q) + 1 \/ i \in 1 .. Len(q)
    BY <2>1
  <2>3. \A i, k \in DOMAIN a : a[i] = a[k] => i = k
    BY <2>1, <2>2, <1>2
  <2>4. \A i \in DOMAIN a : a[i] \in D \cup {t}
    BY <2>1, <2>2, <1>2
  <2>5. Len(q) + 1 \in DOMAIN a
    BY <2>1
  <2>6. t \in ToSet(a) /\ ToSet(a) \subseteq D \cup {t}
    BY <2>1, <2>4, <2>5 DEF ToSet
  <2>7. OrderStands(a)
    BY <2>1, <2>3, <1>2 DEF OrderStands
  <2>8. KeptOrder(t) = a
    BY <1>2 DEF a
  <2> HIDE DEF D
  <2>9. QED BY <2>1, <2>6, <2>7, <2>8
<1>3. CASE t \in D
  <2> DEFINE k == CHOOSE i \in DOMAIN order : order[i] = t
             q == RemoveAt(order, k)
  <2>1. k \in 1 .. n /\ order[k] = t
    <3>1. \E i \in DOMAIN order : order[i] = t
      BY <1>1, <1>3
    <3>2. QED BY <3>1, <1>1, Zenon
  <2>2. KeptOrder(t) = Append(q, t)
    BY <1>3 DEF KeptOrder
  <2>3. q = SubSeq(order, 1, k - 1) \o SubSeq(order, k + 1, n)
    BY DEF RemoveAt
  <2> HIDE DEF k, q
  <2>4. /\ q \in Seq(Observed) /\ Len(q) = n - 1
        /\ \A i \in 1 .. n - 1 : q[i] = IF i < k THEN order[i] ELSE order[i + 1]
    <3> DEFINE a == SubSeq(order, 1, k - 1)
               b == SubSeq(order, k + 1, n)
    <3>1. /\ a \in Seq(Observed) /\ Len(a) = k - 1 /\ \A i \in 1 .. k - 1 : a[i] = order[i]
      BY <1>1, <2>1
    <3>2. /\ b \in Seq(Observed) /\ Len(b) = n - k /\ \A i \in 1 .. n - k : b[i] = order[k + i]
      <4>1. k \in Nat /\ n \in Nat /\ k <= n /\ n <= Len(order) /\ order \in Seq(Observed)
        BY <1>1, <2>1
      <4> HIDE DEF n
      <4>2. /\ SubSeq(order, k + 1, n) \in Seq(Observed) /\ Len(SubSeq(order, k + 1, n)) = n - k
            /\ \A i \in 1 .. n - k : SubSeq(order, k + 1, n)[i] = order[k + i]
        BY ONLY <4>1, PieceIs
      <4>3. QED BY <4>2 DEF b
    <3> HIDE DEF a, b
    <3>3. q = a \o b
      BY <2>3 DEF a, b
    <3>4. /\ q \in Seq(Observed) /\ Len(q) = n - 1
          /\ \A i \in 1 .. n - 1 : q[i] = IF i <= Len(a) THEN a[i] ELSE b[i - Len(a)]
      <4>1. Len(a) + Len(b) = n - 1 /\ Len(a) \in Nat /\ Len(b) \in Nat
        BY <3>1, <3>2, <1>1, <2>1
      <4>2. a \o b \in Seq(Observed) /\ Len(a \o b) = Len(a) + Len(b)
        BY <3>1, <3>2
      <4>3. \A i \in 1 .. Len(a) + Len(b) : (a \o b)[i] = IF i <= Len(a) THEN a[i] ELSE b[i - Len(a)]
        BY <3>1, <3>2, ConcatProperties
      <4>4. QED BY <3>3, <4>1, <4>2, <4>3
    <3>5. ASSUME NEW i \in 1 .. n - 1 PROVE q[i] = IF i < k THEN order[i] ELSE order[i + 1]
      <4>1. CASE i < k
        <5>1. i \in 1 .. k - 1 /\ i <= Len(a)
          BY <4>1, <3>1, <2>1, <1>1
        <5>2. QED BY <5>1, <4>1, <3>1, <3>4
      <4>2. CASE ~ (i < k)
        <5>1. i - Len(a) \in 1 .. n - k /\ ~ (i <= Len(a)) /\ k + (i - Len(a)) = i + 1
          BY <4>2, <3>1, <2>1, <1>1
        <5>2. q[i] = b[i - Len(a)] /\ b[i - Len(a)] = order[i + 1]
          BY <5>1, <3>2, <3>4
        <5>3. QED BY <5>2, <4>2
      <4>3. QED BY <4>1, <4>2
    <3>6. QED BY <3>4, <3>5
  <2> DEFINE At(i) == IF i < k THEN i ELSE i + 1
  <2>5. \A i \in 1 .. n - 1 : At(i) \in 1 .. n /\ At(i) # k /\ q[i] = order[At(i)]
    BY <2>1, <2>4, <1>1
  <2>6. \A i, l \in 1 .. n - 1 : At(i) = At(l) => i = l
    BY <2>1, <1>1
  <2> HIDE DEF At
  <2>7. \A i, l \in 1 .. Len(q) : q[i] = q[l] => i = l
    BY <2>4, <2>5, <2>6, <1>1
  <2>8. \A i \in 1 .. Len(q) : q[i] \in D /\ q[i] # t
    BY <2>1, <2>4, <2>5, <1>1
  <2>9. Len(q) + 1 <= WATCH_LIMIT
    BY <2>4, <1>1
  <2>a. q \in Seq(Observed)
    BY <2>4
  <2> HIDE DEF D
  <2>10. QED BY ONLY <1>2, <2>2, <2>a, <2>7, <2>8, <2>9 DEF D
<1>4. CASE t \notin D
  <2> DEFINE s == IF n < WATCH_LIMIT THEN 0 ELSE n - WATCH_LIMIT + 1
             q == SubSeq(order, s + 1, n)
  <2>1. s \in Nat /\ s <= n /\ n - s + 1 <= WATCH_LIMIT
    BY <1>1
  <2>2. KeptOrder(t) = Append(q, t)
    BY <1>4 DEF KeptOrder
  <2> HIDE DEF s
  <2>3. q \in Seq(Observed) /\ Len(q) = n - s /\ \A i \in 1 .. n - s : q[i] = order[s + i]
    <3>1. s \in Nat /\ n \in Nat /\ s <= n /\ n <= Len(order)
      BY <2>1, <1>1
    <3>2. order \in Seq(Observed)
      BY <1>1
    <3> HIDE DEF n
    <3>3. /\ SubSeq(order, s + 1, n) \in Seq(Observed) /\ Len(SubSeq(order, s + 1, n)) = n - s
          /\ \A i \in 1 .. n - s : SubSeq(order, s + 1, n)[i] = order[s + i]
      BY ONLY <3>1, <3>2, PieceIs
    <3>4. QED BY <3>3
  <2> HIDE DEF q
  <2>4. \A i \in 1 .. n - s : s + i \in 1 .. n
    BY <2>1, <1>1
  <2>5. \A i, l \in 1 .. Len(q) : q[i] = q[l] => i = l
    <3>1. ASSUME NEW i \in 1 .. n - s, NEW l \in 1 .. n - s, q[i] = q[l] PROVE i = l
      <4>1. s + i = s + l
        BY <3>1, <2>3, <2>4, <1>1
      <4>2. QED BY <4>1, <2>1, <1>1
    <3>2. QED BY <3>1, <2>3
  <2>6. \A i \in 1 .. Len(q) : q[i] \in D /\ q[i] # t
    BY <2>3, <2>4, <1>1, <1>4
  <2>7. Len(q) + 1 <= WATCH_LIMIT
    BY <2>1, <2>3
  <2>a. q \in Seq(Observed)
    BY <2>3
  <2> HIDE DEF D
  <2>8. QED BY ONLY <1>2, <2>2, <2>a, <2>5, <2>6, <2>7 DEF D
<1>5. QED BY <1>3, <1>4

\* A task without a watch is as good as a fresh watch and no history.
LEMMA FreshStands ==
  ASSUME NEW c \in Class
  PROVE  WatchStands(NewWatch, [d \in Class |-> <<>>], [n |-> 0, due |-> 0], [class |-> c, n |-> 0])
<1> DEFINE w == NewWatch
           j == [d \in Class |-> <<>>]
<1>1. w.windows = j /\ w.cooldown = 0 /\ w.grace = 0
  BY DEF NewWatch
<1>2. <<>> \in Seq(Sample) /\ <<>> \in Seq(Signatures) /\ Len(<<>>) = 0
  OBVIOUS
<1>3. j \in [Class -> Seq(Sample)] /\ j \in [Class -> Seq(Signatures)] /\ \A d \in Class : j[d] = <<>>
  BY <1>2
<1>4. w \in WatchRecord
  BY <1>3 DEF NewWatch, WatchRecord
<1>5. \A d \in Class : Threshold[d].window \in Nat /\ Threshold[d].no_progress \in Nat
  BY SupervisorAssumption
<1> HIDE DEF w, j
<1>6. \A d \in Class : WindowIs(w.windows[d], j[d], Threshold[d].window)
  BY <1>1, <1>2, <1>3, <1>5 DEF WindowIs
<1>7. WatchStands(w, j, [n |-> 0, due |-> 0], [class |-> c, n |-> 0])
  BY <1>1, <1>3, <1>4, <1>5, <1>6 DEF WatchStands
<1>8. QED BY <1>7 DEF w, j

\* A count of another class may be dropped.
LEMMA DroppedCount ==
  ASSUME NEW w, NEW j, NEW q, NEW p, WatchStands(w, j, q, p), NEW c \in Class
  PROVE  WatchStands(w, j, q, [class |-> c, n |-> 0])
<1>1. /\ w.cooldown \in Nat /\ w.grace \in Nat /\ w.cooldown <= q.due /\ Threshold[c].no_progress \in Nat
      /\ q.due \in Nat
  BY SupervisorAssumption DEF WatchStands, WatchRecord
<1>2. QED BY <1>1 DEF WatchStands

\* An observation keeps the invariant, and fires after the cooldown only.
LEMMA ObserveKeeps ==
  ASSUME SupervisorInv, NEW o \in Observations, Observe(o)
  PROVE  /\ SupervisorInv' /\ WaitingIsReported'
         /\ reaction' # "none" /\ latest'.task \in DOMAIN quiet =>
               quiet[latest'.task].n >= quiet[latest'.task].due
<1> DEFINE t == o.task
           c == o.class
           th == Threshold[c]
           w == WatchOf(t)
           ruling == Useful(o, w)
           x == [signature |-> o.signature, useful |-> ruling.useful]
           window == Push(w.windows[c], x, th.window)
           cause == Fires(w, window, th)
           v == [windows  |-> [w.windows EXCEPT ![c] = window],
                 cooldown |-> IF w.cooldown > 0 THEN w.cooldown - 1
                              ELSE IF cause # "none" THEN th.cooldown ELSE 0,
                 grace    |-> ruling.grace]
           kept == ToSet(KeptOrder(t))
           j == IF t \in DOMAIN judged THEN judged[t] ELSE [d \in Class |-> <<>>]
           k == [j EXCEPT ![c] = IF ruling.useful THEN <<>> ELSE <<o.signature>> \o j[c]]
           q == IF t \in DOMAIN quiet THEN quiet[t] ELSE [n |-> 0, due |-> 0]
           r == IF cause # "none" THEN [n |-> 0, due |-> th.cooldown] ELSE [n |-> q.n + 1, due |-> q.due]
           same == t \in DOMAIN parked /\ parked[t].class = c
           p == IF same THEN parked[t] ELSE [class |-> c, n |-> 0]
           u == [class |-> c, n |-> IF ~ o.waiting \/ cause # "none" THEN 0 ELSE p.n + 1]
<1>1. /\ fed < MaxObservations /\ fed' = fed + 1 /\ order' = KeptOrder(t)
      /\ watches' = [y \in kept |-> IF y = t THEN v ELSE watches[y]]
      /\ reaction' = cause /\ latest' = o /\ cooling' = (w.cooldown > 0)
      /\ judged' = [y \in kept |-> IF y # t THEN judged[y] ELSE k]
      /\ quiet' = [y \in kept |-> IF y # t THEN quiet[y] ELSE r]
  BY DEF Observe
<1>2. parked' = [y \in kept |-> IF y # t THEN parked[y] ELSE u]
  <2>1. parked' = [y \in kept |-> IF y # t THEN parked[y]
                     ELSE [class |-> c, n |-> IF ~ o.waiting \/ cause # "none" THEN 0
                                              ELSE IF same THEN parked[t].n + 1 ELSE 1]]
    BY DEF Observe
  <2>2. (IF same THEN parked[t].n + 1 ELSE 1) = p.n + 1
    OBVIOUS
  <2> HIDE DEF same, p, cause
  <2>3. QED BY <2>1, <2>2
<1>3. t \in Observed /\ c \in Class
  BY SupervisorAssumption DEF Observed
<1>4. /\ OrderStands(KeptOrder(t)) /\ Len(KeptOrder(t)) > 0 /\ KeptOrder(t)[Len(KeptOrder(t))] = t
      /\ t \in kept /\ kept \subseteq DOMAIN watches \cup {t}
  BY <1>3, KeptOrderIs DEF SupervisorInv
<1>5. WatchStands(w, j, q, p)
  <2>1. CASE t \in DOMAIN watches
    <3>1. WatchStands(watches[t], judged[t], quiet[t], parked[t])
      BY <2>1 DEF SupervisorInv
    <3>2. w = watches[t] /\ j = judged[t] /\ q = quiet[t] /\ t \in DOMAIN parked
      BY <2>1 DEF SupervisorInv, WatchOf
    <3>3. CASE same
      BY <3>1, <3>2, <3>3
    <3>4. CASE ~ same
      <4>1. p = [class |-> c, n |-> 0]
        BY <3>4
      <4> HIDE DEF p
      <4>2. QED BY <3>1, <3>2, <4>1, <1>3, DroppedCount
    <3>5. QED BY <3>3, <3>4
  <2>2. CASE t \notin DOMAIN watches
    <3>1. /\ w = NewWatch /\ j = [d \in Class |-> <<>>] /\ q = [n |-> 0, due |-> 0]
          /\ p = [class |-> c, n |-> 0]
      BY <2>2 DEF SupervisorInv, WatchOf
    <3> HIDE DEF w, j, q, p
    <3>2. QED BY <3>1, <1>3, FreshStands
  <2>3. QED BY <2>1, <2>2
<1>6. p.class = c
  OBVIOUS
<1>7. /\ WatchStands(v, k, r, u)
      /\ ~ (w.cooldown > 0) => cause = Detect(k[c], th)
      /\ cause # "none" => q.n >= q.due
      /\ o.waiting => u.n < 2 * th.no_progress \/ u.n <= r.due
      /\ ~ o.waiting => u.n = 0 /\ r.due \in Nat
  <2>1. /\ ruling = Useful(o, w) /\ x = [signature |-> o.signature, useful |-> ruling.useful]
        /\ window = Push(w.windows[o.class], x, Threshold[o.class].window)
        /\ cause = Fires(w, window, Threshold[o.class])
    OBVIOUS
  <2>2. v = NextWatch(o, w, window, cause, ruling)
    BY DEF NextWatch
  <2>3. k = NextStalled(o, j, ruling) /\ r = NextQuiet(o, q, cause) /\ u = NextParked(o, p, cause)
    BY DEF NextStalled, NextQuiet, NextParked
  <2>4. th = Threshold[o.class] /\ c = o.class
    OBVIOUS
  <2> HIDE DEF w, ruling, x, window, cause, v, j, k, q, r, p, u, th, c
  <2>5. p.class = o.class
    BY <1>6, <2>4
  <2>6. QED BY ONLY <1>5, <2>1, <2>2, <2>3, <2>4, <2>5, ObservedStands
<1>8. k[c] = k[o.class] /\ th = Threshold[o.class]
  OBVIOUS
<1> HIDE DEF w, ruling, x, window, cause, v, j, k, r, p, u, kept, same
<1>9. order' = KeptOrder(t) /\ kept = ToSet(KeptOrder(t)) /\ DOMAIN watches' = kept
      /\ DOMAIN judged' = kept /\ DOMAIN quiet' = kept /\ DOMAIN parked' = kept
  BY <1>1, <1>2 DEF kept
<1>10. /\ watches'[t] = v /\ judged'[t] = k /\ quiet'[t] = r /\ parked'[t] = u
  BY <1>1, <1>2, <1>4
<1>11. ASSUME NEW y \in kept PROVE WatchStands(watches'[y], judged'[y], quiet'[y], parked'[y])
  <2>1. CASE y = t
    BY <2>1, <1>7, <1>10
  <2>2. CASE y # t
    <3>1. y \in DOMAIN watches
      BY <2>2, <1>4
    <3>2. /\ watches'[y] = watches[y] /\ judged'[y] = judged[y] /\ quiet'[y] = quiet[y] /\ parked'[y] = parked[y]
      BY <2>2, <1>1, <1>2
    <3>3. QED BY <3>1, <3>2 DEF SupervisorInv
  <2>3. QED BY <2>1, <2>2
<1>12. u.class = c /\ parked'[t].class = c
  BY <1>10 DEF u
<1>13. WindowLosesNothing'
  <2>1. ~ cooling' => reaction' = Detect(judged'[t][c], Threshold[c])
    BY <1>1, <1>7, <1>10
  <2>2. latest'.task = t /\ latest'.class = c
    BY <1>1
  <2>3. QED BY <2>1, <2>2 DEF WindowLosesNothing
<1>14. SupervisorInv'
  <2>1. latest' \in Observations /\ fed' \in Nat
    BY <1>1 DEF SupervisorInv
  <2>2. OrderStands(order') /\ ToSet(order') = DOMAIN watches'
    BY <1>4, <1>9
  <2>3. /\ DOMAIN judged' = DOMAIN watches' /\ DOMAIN quiet' = DOMAIN watches'
        /\ DOMAIN parked' = DOMAIN watches'
    BY <1>9
  <2>4. \A y \in DOMAIN watches' : WatchStands(watches'[y], judged'[y], quiet'[y], parked'[y])
    BY <1>9, <1>11
  <2>5. Len(order') > 0 /\ order'[Len(order')] = latest'.task /\ parked'[latest'.task].class = latest'.class
    BY <1>1, <1>4, <1>12
  <2>6. QED BY <2>1, <2>2, <2>3, <2>4, <2>5, <1>13 DEF SupervisorInv
<1>15. WaitingIsReported'
  <2>1. u.n < 2 * th.no_progress \/ u.n <= r.due
    BY <1>3, <1>7, SupervisorAssumption
  <2>2. latest'.task = t /\ latest'.class = c
    BY <1>1
  <2>3. parked'[t].n = u.n /\ quiet'[t].due = r.due
    BY <1>10
  <2>4. QED BY <2>1, <2>2, <2>3 DEF WaitingIsReported
<1>16. ASSUME reaction' # "none", latest'.task \in DOMAIN quiet
       PROVE  quiet[latest'.task].n >= quiet[latest'.task].due
  <2>1. latest'.task = t /\ q = quiet[t] /\ cause # "none"
    BY <1>1, <1>16
  <2>2. QED BY <2>1, <1>7
<1>17. QED BY <1>14, <1>15, <1>16

\* No task is watched at first.
LEMMA SupervisorInvInit == SupervisorInit => SupervisorInv /\ WaitingIsReported
<1> SUFFICES ASSUME SupervisorInit PROVE SupervisorInv /\ WaitingIsReported
  OBVIOUS
<1>1. /\ watches = <<>> /\ order = <<>> /\ fed = 0 /\ judged = <<>> /\ quiet = <<>> /\ parked = <<>>
      /\ latest \in Observations
  BY DEF SupervisorInit
<1>2. DOMAIN <<>> = {} /\ <<>> \in Seq(Observed) /\ Len(<<>>) = 0
  OBVIOUS
<1>3. WATCH_LIMIT \in Nat
  BY SupervisorAssumption
<1>4. OrderStands(<<>>) /\ ToSet(<<>>) = {}
  BY <1>2, <1>3 DEF OrderStands, ToSet
<1>5. QED BY <1>1, <1>2, <1>4 DEF SupervisorInv, WindowLosesNothing, WaitingIsReported

\* Loops are caught, for any classes, thresholds that validate, tasks and observations
\* (Supervisor::observe): the bounded window fires what the whole history calls for, a
\* cooldown is kept, the watches are bounded and a task that only waits is reported.
THEOREM LoopsSafe == SupervisorSpec => LoopsAreCaught
<1> DEFINE Cooled == reaction' # "none" /\ latest'.task \in DOMAIN quiet =>
                       quiet[latest'.task].n >= quiet[latest'.task].due
           J == SupervisorInv /\ WaitingIsReported
<1>1. SupervisorInit => J
  BY SupervisorInvInit
<1>2. J /\ [SupervisorNext]_supervisorVars => J'
  <2> SUFFICES ASSUME SupervisorInv, WaitingIsReported, [SupervisorNext]_supervisorVars PROVE J'
    OBVIOUS
  <2>1. CASE \E o \in Observations : Observe(o)
    BY <2>1, ObserveKeeps
  <2>2. CASE UNCHANGED supervisorVars
    BY <2>2 DEF supervisorVars, SupervisorInv, WaitingIsReported, WindowLosesNothing, OrderStands,
                WatchStands, WindowIs, FromBack
  <2>3. QED BY <2>1, <2>2 DEF SupervisorNext, SupervisorDone
<1>3. J /\ [SupervisorNext]_supervisorVars => [Cooled]_supervisorVars
  <2> SUFFICES ASSUME SupervisorInv, SupervisorNext, ~ UNCHANGED supervisorVars PROVE Cooled
    OBVIOUS
  <2>1. PICK o \in Observations : Observe(o)
    BY DEF SupervisorNext, SupervisorDone
  <2>2. QED BY <2>1, ObserveKeeps
<1>4. J => WindowLosesNothing /\ WatchesBounded /\ WaitingIsReported
  <2> SUFFICES ASSUME SupervisorInv PROVE WindowLosesNothing /\ WatchesBounded
    OBVIOUS
  <2>1. Cardinality(ToSet(order)) = Len(order)
    BY OnceEach DEF SupervisorInv, OrderStands
  <2>2. QED BY <2>1 DEF SupervisorInv, OrderStands, WatchesBounded
<1>5. SupervisorSpec => [](WindowLosesNothing /\ WatchesBounded /\ WaitingIsReported)
  <2> HIDE DEF J
  <2>1. QED BY <1>1, <1>2, <1>4, PTL DEF SupervisorSpec
<1>6. SupervisorSpec => [][Cooled]_supervisorVars
  <2> HIDE DEF J, Cooled
  <2>1. QED BY <1>1, <1>2, <1>3, PTL DEF SupervisorSpec
<1>7. QED BY <1>5, <1>6 DEF LoopsAreCaught, CooldownHolds

-----------------------------------------------------------------------------
(***************************************************************************)
(* The census of threads.                                                  *)
(***************************************************************************)
\* What the progress of a census may be.
Progress == [at : {"start", "names", "entry", "count", "cohort", "refused", "protected"},
             sweep : Int, seen : SUBSET Nat, pinned : SUBSET Nat, count : Int,
             reread : SUBSET Nat, retired : BOOLEAN, reading : Nat]

\* Where the census stands, beside the process it is of.
CensusTypeOK ==
    /\ born \in Nat /\ living \subseteq 1..born /\ traced \subseteq living
    /\ census \in Progress /\ census.pinned \subseteq 1..born /\ census.reread \subseteq census.pinned
    /\ census.at \in {"start", "names", "entry", "count"} => census.reread = {}

\* Nobody attaches once the census has begun.
Undumpable == census.at # "start" => ~ dumpable

\* What the threads counted (counted) and those of them that were traced then (caught) say of
\* a cohort: a pinned thread that was read again was counted and was not caught, one that
\* lives was counted, and a trace that is there now comes from one that was caught.
CohortOf(counted, caught) ==
    /\ counted \subseteq 1..born /\ Cardinality(counted) = census.count /\ caught \subseteq counted
    /\ census.pinned \ census.reread \subseteq counted \ caught
    /\ living \cap census.pinned \subseteq counted
    /\ living \cap caught \subseteq traced
    /\ caught = {} => traced = {}
CohortKnows ==
    census.at = "cohort" => \E counted, caught \in SUBSET (1..born) : CohortOf(counted, caught)

CensusInv == CensusTypeOK /\ Undumpable /\ CohortKnows /\ ProtectedIsUntraced

\* Nothing is read at first.
LEMMA CensusInvInit == CensusInit => CensusInv
BY DEF CensusInit, CensusInv, CensusTypeOK, Progress, Undumpable, CohortKnows, ProtectedIsUntraced

\* A birth keeps the census: the newborn is not one it knows, and is traced only by its
\* creator's tracer.
LEMMA BirthKeeps == ASSUME CensusInv, NEW creator, Birth(creator) PROVE CensusInv'
<1>1. /\ born \in Nat /\ living \subseteq 1..born /\ traced \subseteq living /\ creator \in living
      /\ born' = born + 1 /\ living' = living \cup {born + 1} /\ UNCHANGED <<dumpable, census>>
      /\ traced' = IF creator \in traced THEN traced \cup {born + 1} ELSE traced
      /\ census.pinned \subseteq 1..born
  BY DEF CensusInv, CensusTypeOK, Birth
<1>2. 1..born \subseteq 1..born' /\ born + 1 \in 1..born' /\ born + 1 \notin 1..born
  BY <1>1
<1>3. CensusTypeOK'
  BY <1>1, <1>2 DEF CensusInv, CensusTypeOK
<1>4. traced = {} => traced' = {}
  BY <1>1
<1>5. CohortKnows'
  <2> SUFFICES ASSUME census.at = "cohort"
               PROVE  \E counted, caught \in SUBSET (1..born') : CohortOf(counted, caught)'
    BY <1>1 DEF CohortKnows
  <2>1. PICK counted \in SUBSET (1..born), caught \in SUBSET (1..born) : CohortOf(counted, caught)
    BY DEF CensusInv, CohortKnows
  <2>2. CohortOf(counted, caught)'
    BY <1>1, <1>2, <1>4, <2>1 DEF CohortOf
  <2>3. QED BY <1>2, <2>1, <2>2
<1>6. QED BY <1>1, <1>3, <1>4, <1>5 DEF CensusInv, Undumpable, ProtectedIsUntraced

\* A death keeps it.
LEMMA DeathKeeps == ASSUME CensusInv, NEW tid, Death(tid) PROVE CensusInv'
<1>1. /\ living' = living \ {tid} /\ traced' = traced \ {tid} /\ UNCHANGED <<born, dumpable, census>>
      /\ traced \subseteq living
  BY DEF CensusInv, CensusTypeOK, Death
<1>2. CensusTypeOK'
  BY <1>1 DEF CensusInv, CensusTypeOK
<1>3. CohortKnows'
  <2> SUFFICES ASSUME census.at = "cohort"
               PROVE  \E counted, caught \in SUBSET (1..born) : CohortOf(counted, caught)'
    BY <1>1 DEF CohortKnows
  <2>1. PICK counted \in SUBSET (1..born), caught \in SUBSET (1..born) : CohortOf(counted, caught)
    BY DEF CensusInv, CohortKnows
  <2>2. CohortOf(counted, caught)'
    BY <1>1, <2>1 DEF CohortOf
  <2>3. QED BY <2>1, <2>2
<1>4. QED BY <1>1, <1>2, <1>3 DEF CensusInv, Undumpable, ProtectedIsUntraced

\* A step that leaves the process and neither enters nor keeps the cohort keeps it, when the
\* census stays a census of threads that were born.
LEMMA CensusMoves ==
    ASSUME CensusInv, UNCHANGED <<living, traced, born>>, dumpable' => census'.at = "start" /\ dumpable,
           census' \in Progress, census'.pinned \subseteq 1..born, census'.reread \subseteq census'.pinned,
           census'.at \in {"start", "names", "entry", "count"} => census'.reread = {},
           CohortKnows', census'.at = "protected" => traced = {}
    PROVE  CensusInv'
BY DEF CensusInv, CensusTypeOK, Undumpable, ProtectedIsUntraced

\* Reading a pinned thread again shows that it was counted and not caught, or that it died.
LEMMA CohortReadKeeps == ASSUME CensusInv, NEW tid, CohortRead(tid) PROVE CensusInv'
<1>1. /\ census \in Progress /\ census.pinned \subseteq 1..born /\ census.reread \subseteq census.pinned
      /\ census.at = "cohort" /\ tid \in census.reread /\ UNCHANGED <<living, traced, born, dumpable>>
      /\ ~ dumpable
  BY DEF CensusInv, CensusTypeOK, CohortRead, ProcessVars, Undumpable
<1>2. CASE tid \in traced
  <2>1. census' = [census EXCEPT !.at = "refused"]
    BY <1>2 DEF CohortRead, Refuse
  <2>2. /\ census' \in Progress /\ census'.at = "refused" /\ census'.pinned = census.pinned
        /\ census'.reread = census.reread
    BY <1>1, <2>1 DEF Progress
  <2>3. QED BY <1>1, <2>2, CensusMoves DEF CohortKnows
<1>3. CASE tid \notin traced
  <2> DEFINE left == IF tid \in living THEN census.pinned ELSE census.pinned \ {tid}
             died == census.retired \/ tid \notin living
  <2>1. census' = [census EXCEPT !.reread = census.reread \ {tid}, !.pinned = left, !.retired = died]
    BY <1>3 DEF CohortRead
  <2>2. left \subseteq census.pinned /\ census.reread \ {tid} \subseteq left /\ died \in BOOLEAN
    BY <1>1 DEF Progress
  <2>3. /\ census' \in Progress /\ census'.at = "cohort" /\ census'.count = census.count
        /\ census'.pinned = left /\ census'.reread = census.reread \ {tid}
    <3> HIDE DEF left, died
    <3>1. left \in SUBSET Nat /\ census.reread \ {tid} \in SUBSET Nat
      BY <1>1, <2>2 DEF Progress
    <3>2. QED BY <1>1, <2>1, <2>2, <3>1 DEF Progress
  <2>4. PICK counted \in SUBSET (1..born), caught \in SUBSET (1..born) : CohortOf(counted, caught)
    BY <1>1 DEF CensusInv, CohortKnows
  <2>5. tid \in living => tid \in counted \ caught
    BY <1>1, <1>3, <2>4 DEF CohortOf
  <2>6. left \ (census.reread \ {tid}) \subseteq counted \ caught
    BY <1>1, <2>4, <2>5 DEF CohortOf
  <2>7. CohortOf(counted, caught)'
    BY <1>1, <2>2, <2>3, <2>4, <2>6 DEF CohortOf
  <2>8. CohortKnows'
    BY <1>1, <2>4, <2>7 DEF CohortKnows
  <2>9. QED BY <1>1, <2>2, <2>3, <2>8, CensusMoves
<1>4. QED BY <1>2, <1>3

\* The count is of the threads that live, and those of them that are traced are caught.
LEMMA ReadCountKeeps == ASSUME CensusInv, ReadCount PROVE CensusInv'
<1>1. /\ census \in Progress /\ census.pinned \subseteq 1..born /\ living \subseteq 1..born /\ traced \subseteq living
      /\ census.reread \subseteq census.pinned /\ UNCHANGED <<living, traced, born, dumpable>> /\ ~ dumpable
      /\ born \in Nat
  BY DEF CensusInv, CensusTypeOK, ReadCount, ProcessVars, Undumpable
<1>2. CASE 1 \in traced
  <2>1. census' = [census EXCEPT !.at = "refused"]
    BY <1>2 DEF ReadCount, Refuse
  <2>2. /\ census' \in Progress /\ census'.at = "refused" /\ census'.pinned = census.pinned
        /\ census'.reread = census.reread
    BY <1>1, <2>1 DEF Progress
  <2>3. QED BY <1>1, <2>2, CensusMoves DEF CohortKnows
<1>3. CASE 1 \notin traced
  <2> DEFINE n == Cardinality(living)
  <2>1. census' = [census EXCEPT !.at = "cohort", !.count = n, !.reread = census.pinned, !.retired = FALSE]
    BY <1>3 DEF ReadCount
  <2>2. n \in Int
    <3>1. 1 \in Int /\ born \in Int
      BY <1>1
    <3>2. IsFiniteSet(1..born)
      BY ONLY <3>1, FS_Interval
    <3>3. IsFiniteSet(living)
      BY <1>1, <3>2, FS_Subset
    <3>4. n \in Nat
      BY ONLY <3>3, FS_CardinalityType
    <3>5. QED BY ONLY <3>4
  <2> HIDE DEF n
  <2>3. /\ census' \in Progress /\ census'.at = "cohort" /\ census'.count = n
        /\ census'.pinned = census.pinned /\ census'.reread = census.pinned
    BY <1>1, <2>1, <2>2 DEF Progress
  <2>4. CohortOf(living, traced)'
    BY <1>1, <2>3 DEF CohortOf, n
  <2>5. CohortKnows'
    BY <1>1, <2>4 DEF CohortKnows
  <2>6. QED BY <1>1, <2>3, <2>5, CensusMoves
<1>4. QED BY <1>2, <1>3

\* As many pinned threads as were counted are the ones counted: none was caught.
LEMMA CompareKeeps == ASSUME CensusInv, Compare PROVE CensusInv'
<1>1. /\ census \in Progress /\ census.pinned \subseteq 1..born /\ census.reread = {}
      /\ census.at = "cohort" /\ UNCHANGED <<living, traced, born, dumpable>> /\ ~ dumpable /\ born \in Nat
  BY DEF CensusInv, CensusTypeOK, Compare, ProcessVars, Undumpable
<1>2. CASE census.count = Cardinality(census.pinned)
  <2>1. PICK counted \in SUBSET (1..born), caught \in SUBSET (1..born) : CohortOf(counted, caught)
    BY <1>1 DEF CensusInv, CohortKnows
  <2>2. /\ census.pinned \subseteq counted \ caught /\ Cardinality(counted) = Cardinality(census.pinned)
        /\ caught \subseteq counted /\ (caught = {} => traced = {})
    BY <1>1, <1>2, <2>1 DEF CohortOf
  <2>3. IsFiniteSet(counted)
    <3>1. 1 \in Int /\ born \in Int
      BY <1>1
    <3>2. IsFiniteSet(1..born)
      BY ONLY <3>1, FS_Interval
    <3>3. QED BY <3>2, FS_Subset
  <2>4. census.pinned = counted
    BY <2>2, <2>3, FS_Subset
  <2>5. traced = {}
    BY <2>2, <2>4
  <2>6. \/ census' = [census EXCEPT !.at = "count"]
        \/ census' = [census EXCEPT !.at = "protected"]
    BY <1>2 DEF Compare
  <2>7. /\ census' \in Progress /\ census'.at \in {"count", "protected"} /\ census'.pinned = census.pinned
        /\ census'.reread = {}
    BY <1>1, <2>6 DEF Progress
  <2>8. QED BY <1>1, <2>5, <2>7, CensusMoves DEF CohortKnows
<1>3. CASE census.count # Cardinality(census.pinned)
  <2>1. \/ census' = [census EXCEPT !.at = "count"]
        \/ census' = [census EXCEPT !.at = "refused"]
        \/ census' = [census EXCEPT !.at = "names", !.sweep = census.sweep + 1, !.seen = {}]
    BY <1>3 DEF Compare, Refuse
  <2> DEFINE next == census.sweep + 1
  <2>2. next \in Int
    BY <1>1 DEF Progress
  <2> HIDE DEF next
  <2>3. /\ census' \in Progress /\ census'.at \in {"count", "refused", "names"}
        /\ census'.pinned = census.pinned /\ census'.reread = {}
    <3>1. CASE census' = [census EXCEPT !.at = "names", !.sweep = next, !.seen = {}]
      BY <1>1, <2>2, <3>1 DEF Progress
    <3>2. CASE census' \in {[census EXCEPT !.at = "count"], [census EXCEPT !.at = "refused"]}
      BY <1>1, <3>2 DEF Progress
    <3>3. QED BY <2>1, <3>1, <3>2 DEF next
  <2>4. QED BY <1>1, <2>3, CensusMoves DEF CohortKnows
<1>4. QED BY <1>2, <1>3

\* Before the count: the protection, the names and their entries.
LEMMA SweepKeeps ==
    ASSUME CensusInv,
           \/ Protect \/ Interrupted \/ TaskEntry
           \/ \E tid \in 1..MaxThreads : TaskName(tid)
    PROVE  CensusInv'
<1>1. /\ census \in Progress /\ census.pinned \subseteq 1..born /\ census.reread \subseteq census.pinned
      /\ living \subseteq 1..born /\ born \in Nat
      /\ census.at # "start" => ~ dumpable
      /\ census.at \in {"start", "names", "entry", "count"} => census.reread = {}
  BY DEF CensusInv, CensusTypeOK, Undumpable
<1>2. UNCHANGED <<living, traced, born>>
  BY DEF Protect, Interrupted, TaskEntry, TaskName, ProcessVars
<1>3. CASE Protect
  <2>1. census' = [census EXCEPT !.at = "names", !.sweep = 1] /\ ~ dumpable' /\ census.reread = {}
    BY <1>1, <1>3 DEF Protect
  <2>2. /\ census' \in Progress /\ census'.at = "names" /\ census'.pinned = census.pinned
        /\ census'.reread = census.reread
    <3> DEFINE first == 1
    <3>1. first \in Int /\ census' = [census EXCEPT !.at = "names", !.sweep = first]
      BY <2>1
    <3> HIDE DEF first
    <3>2. QED BY <1>1, <2>1, <3>1 DEF Progress
  <2>3. QED BY <1>1, <1>2, <2>1, <2>2, CensusMoves DEF CohortKnows
<1>4. CASE Interrupted
  <2>1. census' = [census EXCEPT !.at = "refused"] /\ ~ dumpable'
    BY <1>1, <1>4 DEF Interrupted, Refuse, ProcessVars
  <2>2. /\ census' \in Progress /\ census'.at = "refused" /\ census'.pinned = census.pinned
        /\ census'.reread = census.reread
    BY <1>1, <2>1 DEF Progress
  <2>3. QED BY <1>1, <1>2, <2>1, <2>2, CensusMoves DEF CohortKnows
<1>5. ASSUME NEW tid \in 1..MaxThreads, TaskName(tid) PROVE CensusInv'
  <2>1. /\ census' = [census EXCEPT !.at = "entry", !.seen = census.seen \cup {tid}, !.reading = tid]
        /\ ~ dumpable' /\ tid \in Nat /\ census.reread = {}
    <3>1. /\ census' = [census EXCEPT !.at = "entry", !.seen = census.seen \cup {tid}, !.reading = tid]
          /\ UNCHANGED dumpable /\ census.at = "names" /\ tid \in living
      BY <1>5 DEF TaskName, ProcessVars
    <3>2. tid \in 1..born
      BY <1>1, <3>1
    <3>3. tid \in Nat
      BY ONLY <1>1, <3>2
    <3>4. QED BY <1>1, <3>1, <3>3
  <2>2. /\ census' \in Progress /\ census'.at = "entry" /\ census'.pinned = census.pinned
        /\ census'.reread = census.reread
    <3>1. census.seen \cup {tid} \in SUBSET Nat
      BY <1>1, <2>1 DEF Progress
    <3>2. QED BY <1>1, <2>1, <3>1 DEF Progress
  <2>3. QED BY <1>1, <1>2, <2>1, <2>2, CensusMoves DEF CohortKnows
<1>6. CASE TaskEntry
  <2> DEFINE tid == census.reading
  <2>1. ~ dumpable'
    BY <1>1, <1>6 DEF TaskEntry, ProcessVars
  <2>2. PICK p \in {census.pinned, census.pinned \ {tid}, census.pinned \cup {tid}} :
           /\ p \subseteq 1..born
           /\ census' \in {[census EXCEPT !.at = "names", !.pinned = p],
                           [census EXCEPT !.at = "refused"]}
    BY <1>1, <1>6 DEF TaskEntry, Refuse
  <2>3. p \in SUBSET Nat /\ census.reread = {}
    BY <1>1, <1>6, <2>2 DEF TaskEntry
  <2> HIDE DEF tid
  <2>4. /\ census' \in Progress /\ census'.at \in {"names", "refused"} /\ census'.pinned \subseteq 1..born
        /\ census'.reread = {}
    BY <1>1, <2>2, <2>3 DEF Progress
  <2>5. QED BY <1>1, <1>2, <2>1, <2>4, CensusMoves DEF CohortKnows
<1>7. QED BY <1>3, <1>4, <1>5, <1>6

\* Every step of the process and of the census keeps the invariant.
LEMMA CensusInvNext == CensusInv /\ [CensusNext]_censusVars => CensusInv'
<1> SUFFICES ASSUME CensusInv, [CensusNext]_censusVars PROVE CensusInv'
  OBVIOUS
<1>1. ASSUME NEW tid \in 1..MaxThreads, Attach(tid) PROVE CensusInv'
  <2>1. /\ dumpable /\ census.at = "start" /\ traced' = traced \cup {tid} /\ tid \in living
        /\ UNCHANGED <<living, born, dumpable, census>>
    BY <1>1 DEF Attach, CensusInv, Undumpable
  <2>2. QED BY <2>1 DEF CensusInv, CensusTypeOK, Undumpable, CohortKnows, ProtectedIsUntraced
<1>2. CASE UNCHANGED censusVars
  BY <1>2 DEF censusVars, CensusInv, CensusTypeOK, Undumpable, CohortKnows, CohortOf, ProtectedIsUntraced
<1>3. QED BY <1>1, <1>2, BirthKeeps, DeathKeeps, CohortReadKeeps, ReadCountKeeps, CompareKeeps, SweepKeeps
          DEF CensusNext

\* A census that succeeds proves that no thread is traced, now or later, whatever threads are
\* born and die while it reads, in any number of sweeps (ensure_parent_observing).
THEOREM CensusSafe == CensusSpec => []ProtectedIsUntraced
<1>1. CensusInv => ProtectedIsUntraced
  BY DEF CensusInv
<1>2. QED BY <1>1, CensusInvInit, CensusInvNext, PTL DEF CensusSpec

-----------------------------------------------------------------------------
(***************************************************************************)
(* The start of the helper.                                                *)
(***************************************************************************)
HelperFields == {"pc", "index", "budget", "profile", "hard", "inherited", "todo", "fds", "nnp", "caps",
                 "ruled", "fenced", "dir", "cwd", "empty", "mounted", "exit"}
LaunchSteps == {"launch", "program"}
SetupSteps == {"open_rw", "list_rw", "fchdir", "mount", "drop", "verify"}
FenceSteps == {"confined", "scope", "restrict", "data"}
OpenSteps == {"list_rw", "fchdir", "mount"}

HelperTypeOK ==
    /\ DOMAIN helper = HelperFields
    /\ args.mode \in HelperModes /\ args.tokens \in Seq(ArgTokens)
    /\ DOMAIN paths = {"at", "full"} /\ paths.at \in {1, 2, Link}
    /\ helper.pc # "over" => helper.exit = "none"
    /\ helper.pc \in LaunchSteps => args.mode = "launch"
    /\ helper.pc = "check-setup" \/ helper.pc \in SetupSteps => args.mode = "check-setup"
    /\ helper.pc \in FenceSteps => args.mode = "confined"

\* The tokens behind the index are in the helper's options; a launch past them stands at "--".
OptionsRead ==
    /\ helper.index \in Nat \ {0} /\ helper.index <= Len(args.tokens) + 1
    /\ helper.profile \in {"Worker", "Check"} /\ helper.budget \in {0} \cup Budgets
    /\ helper.profile = "Check" => helper.budget = 0
    /\ \A i \in 1..(helper.index - 1) :
         /\ args.tokens[i].flag = "budget" =>
              helper.budget = args.tokens[i].value /\ helper.budget # 0 /\ helper.profile = "Worker"
         /\ args.tokens[i].flag = "profile" => helper.profile = "Check"
    /\ args.mode = "launch" /\ helper.pc \notin {"options", "over"} =>
         helper.index <= Len(args.tokens) /\ args.tokens[helper.index].flag = "--"

\* The limits that are set are those of the profile, none above what was inherited.
Bound(r) == IF helper.profile = "Worker" THEN WORKER[r] ELSE CHECK[r]
LimitsSet ==
    /\ helper.hard \in [Resource -> Nat] /\ helper.inherited \in [Resource -> Nat]
    /\ helper.todo \subseteq Resource
    /\ \A r \in Resource : helper.hard[r] <= helper.inherited[r]
    /\ \A r \in Resource \ helper.todo : helper.hard[r] <= Bound(r)
    /\ helper.pc = "options" => helper.todo = Resource
    /\ helper.pc \notin {"options", "limits", "over"} => helper.todo = {}
    /\ helper.pc = "program" /\ helper.budget # 0 => helper.hard["as"] <= helper.budget

\* Only the setup holds a descriptor of its own, between its opening and its close.
DescriptorsKept ==
    /\ helper.pc \in {"options", "limits", "sweep"} => helper.fds = Stdio \cup StrayFds
    /\ helper.pc \in OpenSteps => helper.fds = Stdio \cup {3}
    /\ helper.pc \in LaunchSteps \cup FenceSteps \cup (SetupSteps \ OpenSteps) \cup {"check-setup"} =>
         helper.fds = Stdio
    /\ helper.exit = "ok" => helper.fds = Stdio

\* What the setup and the fence have done when they come to each step.
SetupStands ==
    /\ helper.pc \in SetupSteps => ~ host.initialNs
    /\ helper.pc \in {"list_rw", "fchdir"} => helper.dir # NoDir
    /\ helper.pc = "fchdir" => helper.dir \in helper.empty
    /\ helper.pc = "mount" => helper.cwd # NoDir /\ helper.cwd \in helper.empty
    /\ helper.pc \in {"drop", "verify"} => helper.mounted # NoDir
    /\ helper.pc \in {"scope", "restrict", "data"} => helper.nnp
    /\ helper.pc = "data" => helper.fenced

HelperInv ==
    /\ HelperTypeOK /\ OptionsRead /\ LimitsSet /\ DescriptorsKept /\ SetupStands
    /\ MountOnValidated /\ SuccessIsWhole

\* No option is read at first.
LEMMA HelperInvInit == HelperInit => HelperInv
<1> SUFFICES ASSUME HelperInit PROVE HelperInv
  OBVIOUS
<1>1. PICK mode \in HelperModes, n \in 0..MaxArgs : \E tokens \in [1..n -> ArgTokens] :
         args = [mode |-> mode, tokens |-> tokens]
  BY DEF HelperInit
<1>2. PICK tokens \in [1..n -> ArgTokens] : args = [mode |-> mode, tokens |-> tokens]
  BY <1>1
<1>3. n \in Nat
  BY HelperAssumption
<1>4. tokens \in Seq(ArgTokens)
  BY <1>3, SeqDef
<1>5. PICK ceiling \in [Resource -> Ceilings] :
         helper = [pc |-> "options", index |-> 1, budget |-> 0, profile |-> "Worker",
                   hard |-> ceiling, inherited |-> ceiling, todo |-> Resource,
                   fds |-> Stdio \cup StrayFds, nnp |-> FALSE, caps |-> TRUE,
                   ruled |-> NoDir, fenced |-> FALSE, dir |-> NoDir, cwd |-> NoDir,
                   empty |-> {}, mounted |-> NoDir, exit |-> "none"]
  BY DEF HelperInit
<1>6. ceiling \in [Resource -> Nat]
  BY HelperAssumption
<1>7. DOMAIN paths = {"at", "full"} /\ paths.at = 1
  BY DEF HelperInit
<1>8. HelperTypeOK
  BY <1>2, <1>4, <1>5, <1>7 DEF HelperTypeOK, HelperFields, LaunchSteps, SetupSteps, FenceSteps
<1>9. OptionsRead
  <2>1. Len(args.tokens) \in Nat
    BY <1>2, <1>4
  <2>2. QED BY <1>5, <2>1 DEF OptionsRead
<1>10. LimitsSet
  BY <1>5, <1>6 DEF LimitsSet
<1>11. DescriptorsKept /\ SetupStands /\ MountOnValidated /\ SuccessIsWhole
  BY <1>5 DEF DescriptorsKept, SetupStands, MountOnValidated, SuccessIsWhole, LaunchSteps, SetupSteps,
     FenceSteps, OpenSteps, NoDir
<1>12. QED BY <1>8, <1>9, <1>10, <1>11 DEF HelperInv

\* A step that refuses keeps what the helper has set.
LEMMA ExitKeeps ==
    ASSUME HelperInv, NEW code, code # "ok", UNCHANGED <<host, args, paths>>,
           DOMAIN helper' = HelperFields, helper'.pc = "over", helper'.exit = code,
           helper'.index = helper.index, helper'.budget = helper.budget, helper'.profile = helper.profile,
           helper'.hard = helper.hard, helper'.inherited = helper.inherited, helper'.todo = helper.todo,
           helper'.mounted # NoDir => helper'.mounted \in helper'.empty
    PROVE  HelperInv'
<1>1. HelperTypeOK'
  BY DEF HelperInv, HelperTypeOK, LaunchSteps, SetupSteps, FenceSteps
<1>2. OptionsRead'
  BY DEF HelperInv, OptionsRead
<1>3. LimitsSet'
  BY DEF HelperInv, LimitsSet, Bound
<1>4. DescriptorsKept' /\ SetupStands' /\ MountOnValidated' /\ SuccessIsWhole'
  BY DEF DescriptorsKept, SetupStands, MountOnValidated, SuccessIsWhole, LaunchSteps, SetupSteps,
     FenceSteps, OpenSteps
<1>5. QED BY <1>1, <1>2, <1>3, <1>4 DEF HelperInv

\* A refusal alone.
LEMMA ExitsKeeps ==
    ASSUME HelperInv, NEW code, code # "ok", Exits(code), UNCHANGED <<host, args, paths>>
    PROVE  HelperInv'
<1>1. /\ DOMAIN helper' = HelperFields /\ helper'.pc = "over" /\ helper'.exit = code
      /\ helper'.index = helper.index /\ helper'.budget = helper.budget /\ helper'.profile = helper.profile
      /\ helper'.hard = helper.hard /\ helper'.inherited = helper.inherited /\ helper'.todo = helper.todo
      /\ helper'.mounted = helper.mounted /\ helper'.empty = helper.empty
  BY DEF Exits, HelperInv, HelperTypeOK, HelperFields
<1>2. helper'.mounted # NoDir => helper'.mounted \in helper'.empty
  BY <1>1 DEF HelperInv, MountOnValidated
<1>3. QED BY ONLY HelperInv, code # "ok", UNCHANGED <<host, args, paths>>, <1>1, <1>2, ExitKeeps

\* A step past the sweep, of a mode that launches nothing, leaves the options and the limits.
LEMMA LaterKeeps ==
    ASSUME HelperInv, UNCHANGED <<host, args, paths>>, DOMAIN helper' = HelperFields,
           \/ /\ helper.pc \in SetupSteps \cup {"check-setup"} /\ helper'.pc \in SetupSteps \cup {"over"}
           \/ helper.pc \in FenceSteps /\ helper'.pc \in FenceSteps \cup {"over"},
           helper'.pc # "over" => helper'.exit = helper.exit,
           helper'.index = helper.index, helper'.budget = helper.budget, helper'.profile = helper.profile,
           helper'.hard = helper.hard, helper'.inherited = helper.inherited, helper'.todo = helper.todo
    PROVE  HelperTypeOK' /\ OptionsRead' /\ LimitsSet'
<1>1. HelperTypeOK'
  BY DEF HelperInv, HelperTypeOK, LaunchSteps, SetupSteps, FenceSteps
<1>2. args.mode # "launch"
  BY DEF HelperInv, HelperTypeOK, SetupSteps, FenceSteps
<1>3. OptionsRead'
  BY <1>2 DEF HelperInv, OptionsRead
<1>4. LimitsSet'
  <2>1. helper.todo = {} /\ helper'.pc \notin {"options", "limits", "program"}
    BY DEF HelperInv, LimitsSet, SetupSteps, FenceSteps
  <2>2. QED BY <2>1 DEF HelperInv, LimitsSet, Bound
<1>5. QED BY <1>1, <1>3, <1>4

\* The setup of a check: the namespace, the root found empty, and the mount on it.
LEMMA SetupKeeps ==
    ASSUME HelperInv,
           RefuseInitial \/ OpenRw \/ ListRw \/ Fchdir \/ Mount \/ DropPrivileges \/ VerifyDropped
    PROVE  HelperInv'
<1>1. UNCHANGED <<host, args, paths>>
  BY DEF RefuseInitial, OpenRw, ListRw, Fchdir, Mount, DropPrivileges, VerifyDropped, Still
<1>2. /\ DOMAIN helper = HelperFields /\ paths.at \in {1, 2, Link}
      /\ helper.pc # "over" => helper.exit = "none"
      /\ helper.pc \in SetupSteps => args.mode = "check-setup"
  BY DEF HelperInv, HelperTypeOK
<1>3. \A code : code # "ok" /\ Exits(code) => HelperInv'
  BY <1>1, ExitsKeeps
<1> DEFINE Same == /\ DOMAIN helper' = HelperFields /\ helper'.index = helper.index
                   /\ helper'.budget = helper.budget /\ helper'.profile = helper.profile
                   /\ helper'.hard = helper.hard /\ helper'.inherited = helper.inherited
                   /\ helper'.todo = helper.todo
           Rest == DescriptorsKept /\ SetupStands /\ MountOnValidated /\ SuccessIsWhole
<1>4. /\ helper.mounted # NoDir => helper.mounted \in helper.empty
      /\ Rest
  BY DEF HelperInv, MountOnValidated
<1>5. ASSUME Same, Rest', helper'.pc # "over" => helper'.exit = helper.exit,
             helper.pc \in SetupSteps \cup {"check-setup"}, helper'.pc \in SetupSteps \cup {"over"}
      PROVE  HelperInv'
  BY <1>1, <1>5, LaterKeeps DEF HelperInv
<1>6. CASE RefuseInitial
  <2>1. helper.pc = "check-setup"
    BY <1>6 DEF RefuseInitial
  <2>2. CASE host.initialNs
    BY <1>3, <1>6, <2>2 DEF RefuseInitial
  <2>3. CASE ~ host.initialNs
    <3>1. helper' = [helper EXCEPT !.pc = "open_rw"]
      BY <1>6, <2>3 DEF RefuseInitial, Goes
    <3>2. /\ Same /\ helper'.pc = "open_rw" /\ helper'.fds = helper.fds /\ helper'.exit = helper.exit
          /\ helper'.mounted = helper.mounted /\ helper'.empty = helper.empty
      BY <1>2, <3>1 DEF HelperFields
    <3>3. Rest'
      BY <1>1, <1>2, <1>4, <2>1, <2>3, <3>2
         DEF DescriptorsKept, SetupStands, MountOnValidated, SuccessIsWhole, LaunchSteps, SetupSteps,
             FenceSteps, OpenSteps
    <3>4. QED BY <1>5, <2>1, <3>2, <3>3 DEF SetupSteps
  <2>4. QED BY <2>2, <2>3
<1>7. CASE OpenRw
  <2>1. helper.pc = "open_rw"
    BY <1>7 DEF OpenRw
  <2>2. CASE paths.at = Link
    BY <1>3, <1>7, <2>2 DEF OpenRw
  <2>3. CASE paths.at # Link
    <3>1. helper' = [helper EXCEPT !.dir = paths.at, !.fds = helper.fds \cup {3}, !.pc = "list_rw"]
      BY <1>7, <2>3 DEF OpenRw
    <3>2. /\ Same /\ helper'.pc = "list_rw" /\ helper'.fds = helper.fds \cup {3} /\ helper'.exit = helper.exit
          /\ helper'.mounted = helper.mounted /\ helper'.empty = helper.empty /\ helper'.dir = paths.at
      BY <1>2, <3>1 DEF HelperFields
    <3>3. Rest'
      BY <1>1, <1>2, <1>4, <2>1, <2>3, <3>2
         DEF DescriptorsKept, SetupStands, MountOnValidated, SuccessIsWhole, LaunchSteps, SetupSteps,
             FenceSteps, OpenSteps, NoDir
    <3>4. QED BY <1>5, <2>1, <3>2, <3>3 DEF SetupSteps
  <2>4. QED BY <2>2, <2>3
<1>8. CASE ListRw
  <2>1. helper.pc = "list_rw"
    BY <1>8 DEF ListRw
  <2>2. CASE Listed \in paths.full
    <3>1. helper' = [helper EXCEPT !.fds = helper.fds \ {3}, !.pc = "over", !.exit = "sandbox"]
      BY <1>8, <2>2 DEF ListRw
    <3>2. /\ Same /\ helper'.pc = "over" /\ helper'.exit = "sandbox"
          /\ helper'.mounted = helper.mounted /\ helper'.empty = helper.empty
      BY <1>2, <3>1 DEF HelperFields
    <3>3. Rest'
      BY <1>4, <3>2
         DEF DescriptorsKept, SetupStands, MountOnValidated, SuccessIsWhole, LaunchSteps, SetupSteps,
             FenceSteps, OpenSteps
    <3>4. QED BY <1>5, <2>1, <3>2, <3>3 DEF SetupSteps
  <2>3. CASE Listed \notin paths.full
    <3>1. helper' = [helper EXCEPT !.empty = helper.empty \cup {helper.dir}, !.pc = "fchdir"]
      BY <1>8, <2>3 DEF ListRw, Listed
    <3>2. /\ Same /\ helper'.pc = "fchdir" /\ helper'.fds = helper.fds /\ helper'.exit = helper.exit
          /\ helper'.mounted = helper.mounted /\ helper'.empty = helper.empty \cup {helper.dir}
          /\ helper'.dir = helper.dir
      BY <1>2, <3>1 DEF HelperFields
    <3>3. Rest'
      BY <1>1, <1>2, <1>4, <2>1, <3>2
         DEF DescriptorsKept, SetupStands, MountOnValidated, SuccessIsWhole, LaunchSteps, SetupSteps,
             FenceSteps, OpenSteps
    <3>4. QED BY <1>5, <2>1, <3>2, <3>3 DEF SetupSteps
  <2>4. QED BY <2>2, <2>3
<1>9. CASE Fchdir
  <2>1. helper.pc = "fchdir"
    BY <1>9 DEF Fchdir
  <2>2. CASE helper' = [helper EXCEPT !.fds = helper.fds \ {3}, !.pc = "over", !.exit = "sandbox"]
    <3>1. /\ Same /\ helper'.pc = "over" /\ helper'.exit = "sandbox"
          /\ helper'.mounted = helper.mounted /\ helper'.empty = helper.empty
      BY <1>2, <2>2 DEF HelperFields
    <3>2. Rest'
      BY <1>4, <3>1
         DEF DescriptorsKept, SetupStands, MountOnValidated, SuccessIsWhole, LaunchSteps, SetupSteps,
             FenceSteps, OpenSteps
    <3>3. QED BY <1>5, <2>1, <3>1, <3>2 DEF SetupSteps
  <2>3. CASE helper' = [helper EXCEPT !.cwd = helper.dir, !.pc = "mount"]
    <3>1. /\ Same /\ helper'.pc = "mount" /\ helper'.fds = helper.fds /\ helper'.exit = helper.exit
          /\ helper'.mounted = helper.mounted /\ helper'.empty = helper.empty /\ helper'.cwd = helper.dir
      BY <1>2, <2>3 DEF HelperFields
    <3>2. Rest'
      BY <1>1, <1>2, <1>4, <2>1, <3>1
         DEF DescriptorsKept, SetupStands, MountOnValidated, SuccessIsWhole, LaunchSteps, SetupSteps,
             FenceSteps, OpenSteps
    <3>3. QED BY <1>5, <2>1, <3>1, <3>2 DEF SetupSteps
  <2>4. QED BY <1>9, <2>2, <2>3 DEF Fchdir
<1>10. CASE Mount
  <2>1. helper.pc = "mount" /\ helper.cwd # NoDir /\ helper.cwd \in helper.empty
        /\ helper.fds = Stdio \cup {3} /\ helper.exit = "none"
    BY <1>2, <1>4, <1>10 DEF Mount, SetupStands, DescriptorsKept, OpenSteps
  <2>2. PICK mounts \in BOOLEAN, closes \in BOOLEAN :
           helper' = [helper EXCEPT
               !.mounted = IF mounts THEN helper.cwd ELSE helper.mounted,
               !.fds = IF closes THEN helper.fds \ {3} ELSE helper.fds,
               !.pc = IF mounts /\ closes THEN "drop" ELSE "over",
               !.exit = IF mounts /\ closes THEN helper.exit ELSE "sandbox"]
    BY <1>10 DEF Mount, MountTarget
  <2>3. /\ Same /\ helper'.empty = helper.empty
        /\ helper'.mounted = (IF mounts THEN helper.cwd ELSE helper.mounted)
        /\ helper'.fds = (IF closes THEN helper.fds \ {3} ELSE helper.fds)
        /\ helper'.pc = (IF mounts /\ closes THEN "drop" ELSE "over")
        /\ helper'.exit = (IF mounts /\ closes THEN helper.exit ELSE "sandbox")
    BY <1>2, <2>2 DEF HelperFields
  <2>4. (Stdio \cup {3}) \ {3} = Stdio
    BY DEF Stdio
  <2>5. Rest'
    <3>1. CASE mounts /\ closes
      BY <1>1, <1>2, <1>4, <2>1, <2>3, <2>4, <3>1
         DEF DescriptorsKept, SetupStands, MountOnValidated, SuccessIsWhole, LaunchSteps, SetupSteps,
             FenceSteps, OpenSteps
    <3>2. CASE ~ (mounts /\ closes)
      BY <1>1, <1>4, <2>1, <2>3, <3>2
         DEF DescriptorsKept, SetupStands, MountOnValidated, SuccessIsWhole, LaunchSteps, SetupSteps,
             FenceSteps, OpenSteps
    <3>3. QED BY <3>1, <3>2
  <2>6. QED BY <1>5, <2>1, <2>3, <2>5 DEF SetupSteps
<1>11. CASE DropPrivileges
  <2>1. helper.pc = "drop"
    BY <1>11 DEF DropPrivileges
  <2>2. CASE Exits("sandbox")
    BY <1>3, <2>2
  <2>3. CASE helper' = [helper EXCEPT !.nnp = TRUE, !.caps = (host.capset = "silent"), !.pc = "verify"]
    <3>1. /\ Same /\ helper'.pc = "verify" /\ helper'.fds = helper.fds /\ helper'.exit = helper.exit
          /\ helper'.mounted = helper.mounted /\ helper'.empty = helper.empty
      BY <1>2, <2>3 DEF HelperFields
    <3>2. Rest'
      BY <1>1, <1>2, <1>4, <2>1, <3>1
         DEF DescriptorsKept, SetupStands, MountOnValidated, SuccessIsWhole, LaunchSteps, SetupSteps,
             FenceSteps, OpenSteps
    <3>3. QED BY <1>5, <2>1, <3>1, <3>2 DEF SetupSteps
  <2>4. QED BY <1>11, <2>2, <2>3 DEF DropPrivileges
<1>12. CASE VerifyDropped
  <2>1. helper.pc = "verify"
    BY <1>12 DEF VerifyDropped
  <2>2. CASE ~ verify_dropped_privileges
    BY <1>3, <1>12, <2>2 DEF VerifyDropped
  <2>3. CASE verify_dropped_privileges
    <3>1. helper' = [helper EXCEPT !.pc = "over", !.exit = "ok"]
      BY <1>12, <2>3 DEF VerifyDropped, Exits
    <3>2. /\ Same /\ helper'.pc = "over" /\ helper'.fds = helper.fds /\ helper'.exit = "ok"
          /\ helper'.mounted = helper.mounted /\ helper'.empty = helper.empty
          /\ helper'.caps = helper.caps /\ helper'.nnp = helper.nnp
      BY <1>2, <3>1 DEF HelperFields
    <3>3. helper.fds = Stdio /\ helper.mounted # NoDir /\ ~ host.initialNs /\ args.mode = "check-setup"
      BY <1>2, <1>4, <2>1 DEF DescriptorsKept, SetupStands, SetupSteps, OpenSteps
    <3>4. Rest'
      BY <1>1, <1>4, <2>3, <3>2, <3>3
         DEF DescriptorsKept, SetupStands, MountOnValidated, SuccessIsWhole, LaunchSteps, SetupSteps,
             FenceSteps, OpenSteps, verify_dropped_privileges
    <3>5. QED BY <1>5, <2>1, <3>2, <3>4 DEF SetupSteps
  <2>4. QED BY <2>2, <2>3
<1>13. QED BY <1>6, <1>7, <1>8, <1>9, <1>10, <1>11, <1>12

\* The fence of confined data: the ruleset, the scope, the restriction, then the data.
LEMMA FenceKeeps ==
    ASSUME HelperInv, LandlockRuleset \/ LandlockScope \/ LandlockRestrict \/ DataDone
    PROVE  HelperInv'
<1>1. UNCHANGED <<host, args, paths>>
  BY DEF LandlockRuleset, LandlockScope, LandlockRestrict, DataDone, Still
<1>2. /\ DOMAIN helper = HelperFields
      /\ helper.pc # "over" => helper.exit = "none"
      /\ helper.pc \in FenceSteps => args.mode = "confined"
  BY DEF HelperInv, HelperTypeOK
<1>3. \A code : code # "ok" /\ Exits(code) => HelperInv'
  BY <1>1, ExitsKeeps
<1> DEFINE Same == /\ DOMAIN helper' = HelperFields /\ helper'.index = helper.index
                   /\ helper'.budget = helper.budget /\ helper'.profile = helper.profile
                   /\ helper'.hard = helper.hard /\ helper'.inherited = helper.inherited
                   /\ helper'.todo = helper.todo
                   /\ helper'.mounted = helper.mounted /\ helper'.empty = helper.empty
                   /\ helper'.fds = helper.fds
           Rest == DescriptorsKept /\ SetupStands /\ MountOnValidated /\ SuccessIsWhole
<1>4. Rest
  BY DEF HelperInv
<1>5. ASSUME Same, Rest', helper'.pc # "over" => helper'.exit = helper.exit,
             helper.pc \in FenceSteps, helper'.pc \in FenceSteps \cup {"over"}
      PROVE  HelperInv'
  BY <1>1, <1>5, LaterKeeps DEF HelperInv
<1>6. CASE LandlockRuleset
  <2>1. helper.pc = "confined"
    BY <1>6 DEF LandlockRuleset
  <2>2. CASE ~ host.landlock
    BY <1>3, <1>6, <2>2 DEF LandlockRuleset
  <2>3. CASE host.landlock
    <3>1. helper' = [helper EXCEPT !.nnp = TRUE, !.pc = "scope"]
      BY <1>6, <2>3 DEF LandlockRuleset
    <3>2. Same /\ helper'.pc = "scope" /\ helper'.exit = helper.exit /\ helper'.nnp
      BY <1>2, <3>1 DEF HelperFields
    <3>3. Rest'
      BY <1>1, <1>2, <1>4, <2>1, <3>2
         DEF DescriptorsKept, SetupStands, MountOnValidated, SuccessIsWhole, LaunchSteps, SetupSteps,
             FenceSteps, OpenSteps
    <3>4. QED BY <1>5, <2>1, <3>2, <3>3 DEF FenceSteps
  <2>4. QED BY <2>2, <2>3
<1>7. CASE LandlockScope
  <2>1. helper.pc = "scope"
    BY <1>7 DEF LandlockScope
  <2>2. \/ helper' = [helper EXCEPT !.pc = "over", !.exit = "sandbox"]
        \/ helper' = [helper EXCEPT !.ruled = paths.at, !.pc = "restrict"]
        \/ helper' = [helper EXCEPT !.pc = "restrict"]
    BY <1>7 DEF LandlockScope, ScopeOpens, Goes
  <2>3. CASE helper' = [helper EXCEPT !.pc = "over", !.exit = "sandbox"]
    BY <1>3, <2>3 DEF Exits
  <2>4. CASE \/ helper' = [helper EXCEPT !.ruled = paths.at, !.pc = "restrict"]
             \/ helper' = [helper EXCEPT !.pc = "restrict"]
    <3>1. Same /\ helper'.pc = "restrict" /\ helper'.exit = helper.exit /\ helper'.nnp = helper.nnp
      BY <1>2, <2>4 DEF HelperFields
    <3>2. Rest'
      BY <1>1, <1>2, <1>4, <2>1, <3>1
         DEF DescriptorsKept, SetupStands, MountOnValidated, SuccessIsWhole, LaunchSteps, SetupSteps,
             FenceSteps, OpenSteps
    <3>3. QED BY <1>5, <2>1, <3>1, <3>2 DEF FenceSteps
  <2>5. QED BY <2>2, <2>3, <2>4
<1>8. CASE LandlockRestrict
  <2>1. helper.pc = "restrict"
    BY <1>8 DEF LandlockRestrict
  <2>2. CASE Exits("sandbox")
    BY <1>3, <2>2
  <2>3. CASE helper' = [helper EXCEPT !.fenced = TRUE, !.pc = "data"]
    <3>1. Same /\ helper'.pc = "data" /\ helper'.exit = helper.exit /\ helper'.nnp = helper.nnp /\ helper'.fenced
      BY <1>2, <2>3 DEF HelperFields
    <3>2. Rest'
      BY <1>1, <1>2, <1>4, <2>1, <3>1
         DEF DescriptorsKept, SetupStands, MountOnValidated, SuccessIsWhole, LaunchSteps, SetupSteps,
             FenceSteps, OpenSteps
    <3>3. QED BY <1>5, <2>1, <3>1, <3>2 DEF FenceSteps
  <2>4. QED BY <1>8, <2>2, <2>3 DEF LandlockRestrict
<1>9. CASE DataDone
  <2>1. helper.pc = "data" /\ helper' = [helper EXCEPT !.pc = "over", !.exit = "ok"]
    BY <1>9 DEF DataDone, Exits
  <2>2. /\ Same /\ helper'.pc = "over" /\ helper'.exit = "ok" /\ helper'.nnp = helper.nnp
        /\ helper'.fenced = helper.fenced
    BY <1>2, <2>1 DEF HelperFields
  <2>3. helper.fds = Stdio /\ helper.nnp /\ helper.fenced /\ args.mode = "confined"
    BY <1>2, <1>4, <2>1 DEF DescriptorsKept, SetupStands, FenceSteps
  <2>4. Rest'
    BY <1>1, <1>4, <2>2, <2>3
       DEF DescriptorsKept, SetupStands, MountOnValidated, SuccessIsWhole, LaunchSteps, SetupSteps,
           FenceSteps, OpenSteps
  <2>5. QED BY <1>5, <2>1, <2>2, <2>4 DEF FenceSteps
<1>10. QED BY <1>6, <1>7, <1>8, <1>9

\* A step before the sweep, or of a launch, sets neither a descriptor nor what comes later.
LEMMA EarlyKeeps ==
    ASSUME HelperInv, UNCHANGED <<host, args, paths>>, DOMAIN helper' = HelperFields,
           helper'.fds = helper.fds, helper'.exit = helper.exit, helper'.mounted = helper.mounted,
           helper'.empty = helper.empty,
           \/ helper.pc \in {"options", "limits"} /\ helper'.pc \in {"options", "limits", "sweep"}
           \/ helper.pc = "launch" /\ helper'.pc = "program"
    PROVE  HelperTypeOK' /\ DescriptorsKept' /\ SetupStands' /\ MountOnValidated' /\ SuccessIsWhole'
<1>1. HelperTypeOK'
  BY DEF HelperInv, HelperTypeOK, LaunchSteps, SetupSteps, FenceSteps
<1>2. helper.exit = "none"
  BY DEF HelperInv, HelperTypeOK
<1>3. DescriptorsKept'
  BY <1>2 DEF HelperInv, DescriptorsKept, LaunchSteps, SetupSteps, FenceSteps, OpenSteps
<1>4. SetupStands' /\ MountOnValidated' /\ SuccessIsWhole'
  BY <1>2 DEF HelperInv, SetupStands, MountOnValidated, SuccessIsWhole, SetupSteps
<1>5. QED BY <1>1, <1>3, <1>4

\* A token of a launch is read into its options, or refuses (launch_options).
LEMMA OptionKeeps ==
    ASSUME HelperInv, LaunchOption \/ LaunchOptionsEnd \/ OtherMode PROVE HelperInv'
<1>1. UNCHANGED <<host, args, paths>> /\ helper.pc = "options"
  BY DEF LaunchOption, LaunchOptionsEnd, OtherMode, Still
<1>2. DOMAIN helper = HelperFields /\ args.tokens \in Seq(ArgTokens)
  BY DEF HelperInv, HelperTypeOK
<1>3. \A code : code # "ok" /\ Exits(code) => HelperInv'
  BY <1>1, ExitsKeeps
<1>4. OptionsRead /\ LimitsSet
  BY DEF HelperInv
<1>5. Len(args.tokens) \in Nat
  BY <1>2
<1> DEFINE Same == /\ DOMAIN helper' = HelperFields /\ helper'.hard = helper.hard
                   /\ helper'.inherited = helper.inherited /\ helper'.todo = helper.todo
                   /\ helper'.fds = helper.fds /\ helper'.exit = helper.exit
                   /\ helper'.mounted = helper.mounted /\ helper'.empty = helper.empty
<1>6. ASSUME Same, helper'.pc \in {"options", "limits"}, OptionsRead' PROVE HelperInv'
  <2>1. LimitsSet'
    BY <1>1, <1>4, <1>6 DEF LimitsSet
  <2>2. QED BY <1>1, <1>6, <2>1, EarlyKeeps DEF HelperInv
<1>7. CASE Goes("limits") /\ (args.mode # "launch" \/
             (helper.index <= Len(args.tokens) /\ args.tokens[helper.index].flag = "--"))
  <2>1. /\ Same /\ helper'.pc = "limits" /\ helper'.index = helper.index
        /\ helper'.budget = helper.budget /\ helper'.profile = helper.profile
    BY <1>2, <1>7 DEF Goes, HelperFields
  <2>2. OptionsRead'
    BY <1>1, <1>4, <1>7, <2>1 DEF OptionsRead
  <2>3. QED BY <1>6, <2>1, <2>2
<1> DEFINE token == args.tokens[helper.index]
<1>8. CASE /\ helper.index <= Len(args.tokens) /\ token.flag = "budget" /\ budget_flag(token)
           /\ helper' = [helper EXCEPT !.budget = token.value, !.index = helper.index + 1]
  <2>1. /\ helper.budget = 0 /\ helper.profile = "Worker" /\ token.value \in Budgets
        /\ token.value # 0
    BY <1>4, <1>8, HelperAssumption DEF budget_flag, OptionsRead
  <2> HIDE DEF token
  <2>2. /\ Same /\ helper'.pc = "options" /\ helper'.index = helper.index + 1
        /\ helper'.budget = token.value /\ helper'.profile = helper.profile
    BY <1>1, <1>2, <1>8 DEF HelperFields
  <2>3. helper.index \in Nat \ {0} /\ 1..(helper'.index - 1) = 1..(helper.index - 1) \cup {helper.index}
    BY <1>4, <2>2 DEF OptionsRead
  <2>4. \A i \in 1..(helper'.index - 1) :
          /\ args.tokens[i].flag = "budget" =>
               helper'.budget = args.tokens[i].value /\ helper'.budget # 0 /\ helper'.profile = "Worker"
          /\ args.tokens[i].flag = "profile" => helper'.profile = "Check"
    <3> SUFFICES ASSUME NEW i \in 1..(helper'.index - 1)
                 PROVE  /\ args.tokens[i].flag = "budget" =>
                             /\ helper'.budget = args.tokens[i].value /\ helper'.budget # 0
                             /\ helper'.profile = "Worker"
                        /\ args.tokens[i].flag = "profile" => helper'.profile = "Check"
      OBVIOUS
    <3>1. CASE i = helper.index
      <4>1. args.tokens[i] = token
        BY <3>1 DEF token
      <4>2. QED BY <1>8, <2>1, <2>2, <4>1
    <3>2. CASE i \in 1..(helper.index - 1)
      BY <1>4, <2>1, <2>2, <3>2 DEF OptionsRead
    <3>3. QED BY <2>3, <3>1, <3>2
  <2>5. helper'.index \in Nat \ {0} /\ helper'.index <= Len(args.tokens) + 1
    BY <1>5, <1>8, <2>2, <2>3
  <2>6. OptionsRead'
    BY <1>1, <2>1, <2>2, <2>4, <2>5 DEF OptionsRead
  <2>7. QED BY <1>6, <2>2, <2>6
<1>9. CASE /\ helper.index <= Len(args.tokens) /\ token.flag = "profile" /\ profile_flag
           /\ helper' = [helper EXCEPT !.profile = "Check", !.index = helper.index + 1]
  <2>1. helper.budget = 0 /\ helper.profile = "Worker"
    BY <1>4, <1>9 DEF profile_flag, OptionsRead
  <2> HIDE DEF token
  <2>2. /\ Same /\ helper'.pc = "options" /\ helper'.index = helper.index + 1
        /\ helper'.budget = helper.budget /\ helper'.profile = "Check"
    BY <1>1, <1>2, <1>9 DEF HelperFields
  <2>3. helper.index \in Nat \ {0} /\ 1..(helper'.index - 1) = 1..(helper.index - 1) \cup {helper.index}
    BY <1>4, <2>2 DEF OptionsRead
  <2>4. \A i \in 1..(helper'.index - 1) : args.tokens[i].flag # "budget"
    <3> SUFFICES ASSUME NEW i \in 1..(helper'.index - 1) PROVE args.tokens[i].flag # "budget"
      OBVIOUS
    <3>1. CASE i = helper.index
      <4>1. args.tokens[i] = token
        BY <3>1 DEF token
      <4>2. QED BY <1>9, <4>1
    <3>2. CASE i \in 1..(helper.index - 1)
      BY <1>4, <2>1, <3>2 DEF OptionsRead
    <3>3. QED BY <2>3, <3>1, <3>2
  <2>5. helper'.index \in Nat \ {0} /\ helper'.index <= Len(args.tokens) + 1
    BY <1>5, <1>9, <2>2, <2>3
  <2>6. OptionsRead'
    BY <1>1, <2>1, <2>2, <2>4, <2>5 DEF OptionsRead
  <2>7. QED BY <1>6, <2>2, <2>6
<1>10. CASE LaunchOption
  <2>1. \/ Exits("protocol")
        \/ Goes("limits") /\ helper.index <= Len(args.tokens) /\ token.flag = "--"
        \/ /\ helper.index <= Len(args.tokens) /\ token.flag = "budget" /\ budget_flag(token)
           /\ helper' = [helper EXCEPT !.budget = token.value, !.index = helper.index + 1]
        \/ /\ helper.index <= Len(args.tokens) /\ token.flag = "profile" /\ profile_flag
           /\ helper' = [helper EXCEPT !.profile = "Check", !.index = helper.index + 1]
    BY <1>10 DEF LaunchOption
  <2>2. QED BY <1>3, <1>7, <1>8, <1>9, <2>1
<1>11. CASE LaunchOptionsEnd
  BY <1>3, <1>11 DEF LaunchOptionsEnd
<1>12. CASE OtherMode
  BY <1>7, <1>12 DEF OtherMode
<1>13. QED BY <1>10, <1>11, <1>12

\* A limit that is set is the profile's or below, and below what the helper was given
\* (apply_rlimits, set_rlimit_capped).
LEMMA LimitKeeps ==
    ASSUME HelperInv, ApplyLimit \/ MeasureFails \/ LimitsApplied PROVE HelperInv'
<1>1. UNCHANGED <<host, args, paths>> /\ helper.pc = "limits"
  BY DEF ApplyLimit, MeasureFails, LimitsApplied, Still
<1>2. DOMAIN helper = HelperFields
  BY DEF HelperInv, HelperTypeOK
<1>3. OptionsRead /\ LimitsSet
  BY DEF HelperInv
<1> DEFINE Same == /\ DOMAIN helper' = HelperFields /\ helper'.index = helper.index
                   /\ helper'.budget = helper.budget /\ helper'.profile = helper.profile
                   /\ helper'.inherited = helper.inherited
                   /\ helper'.fds = helper.fds /\ helper'.exit = helper.exit
                   /\ helper'.mounted = helper.mounted /\ helper'.empty = helper.empty
<1>4. ASSUME Same, helper'.pc \in {"limits", "sweep"}, LimitsSet' PROVE HelperInv'
  <2>1. OptionsRead'
    BY <1>1, <1>3, <1>4 DEF OptionsRead
  <2>2. QED BY <1>1, <1>4, <2>1, EarlyKeeps DEF HelperInv
<1>5. CASE ApplyLimit
  <2>1. PICK r \in helper.todo : helper' = set_rlimit(helper, r, LimitValue(r))
    BY <1>5 DEF ApplyLimit
  <2> DEFINE value == LimitValue(r)
  <2>2. r \in Resource /\ helper.hard[r] \in Nat /\ value \in Nat /\ value <= Bound(r)
    <3>1. r \in Resource /\ helper.hard[r] \in Nat /\ WORKER[r] \in Nat /\ CHECK[r] \in Nat
      BY <1>3, <2>1, HelperAssumption DEF LimitsSet
    <3>2. QED BY <3>1 DEF LimitValue, Least, Bound
  <2> HIDE DEF value
  <2>3. CASE value > helper.hard[r]
    <3>1. helper' = [helper EXCEPT !.pc = "over", !.exit = "sandbox"]
      BY <2>1, <2>3 DEF set_rlimit, value
    <3>2. QED BY <1>1, <3>1, ExitsKeeps DEF Exits
  <2>4. CASE ~ (value > helper.hard[r])
    <3> DEFINE h == [helper.hard EXCEPT ![r] = value]
    <3>1. helper' = [helper EXCEPT !.hard = h, !.todo = helper.todo \ {r}]
      BY <2>1, <2>4 DEF set_rlimit, value
    <3>2. /\ h \in [Resource -> Nat] /\ h[r] = value
          /\ \A s \in Resource \ {r} : h[s] = helper.hard[s]
      BY <1>3, <2>2 DEF LimitsSet
    <3> HIDE DEF h
    <3>3. /\ Same /\ helper'.pc = "limits" /\ helper'.hard = h /\ helper'.todo = helper.todo \ {r}
      BY <1>1, <1>2, <3>1 DEF HelperFields
    <3>4. \A s \in Resource : h[s] <= helper.inherited[s]
      <4> SUFFICES ASSUME NEW s \in Resource PROVE h[s] <= helper.inherited[s]
        OBVIOUS
      <4>1. helper.hard[s] \in Nat /\ helper.inherited[s] \in Nat /\ helper.hard[s] <= helper.inherited[s]
        BY <1>3 DEF LimitsSet
      <4>2. CASE s = r
        BY <2>2, <2>4, <3>2, <4>1, <4>2
      <4>3. CASE s # r
        BY <3>2, <4>1, <4>3
      <4>4. QED BY <4>2, <4>3
    <3>5. \A s \in Resource \ (helper.todo \ {r}) : h[s] <= Bound(s)
      <4> SUFFICES ASSUME NEW s \in Resource \ (helper.todo \ {r}) PROVE h[s] <= Bound(s)
        OBVIOUS
      <4>1. CASE s = r
        BY <2>2, <3>2, <4>1
      <4>2. CASE s # r
        BY <1>3, <3>2, <4>2 DEF LimitsSet
      <4>3. QED BY <4>1, <4>2
    <3>6. \A s \in Resource : Bound(s)' = Bound(s)
      BY <3>3 DEF Bound
    <3>7. LimitsSet'
      BY <1>3, <3>2, <3>3, <3>4, <3>5, <3>6 DEF LimitsSet
    <3>8. QED BY <1>4, <3>3, <3>7
  <2>5. QED BY <2>3, <2>4
<1>6. CASE MeasureFails
  BY <1>1, <1>6, ExitsKeeps DEF MeasureFails
<1>7. CASE LimitsApplied
  <2>1. helper.todo = {} /\ helper' = [helper EXCEPT !.pc = "sweep"]
    BY <1>7 DEF LimitsApplied, Goes
  <2>2. Same /\ helper'.pc = "sweep" /\ helper'.hard = helper.hard /\ helper'.todo = helper.todo
    BY <1>2, <2>1 DEF HelperFields
  <2>3. LimitsSet'
    BY <1>3, <2>1, <2>2 DEF LimitsSet, Bound
  <2>4. QED BY <1>4, <2>2, <2>3
<1>8. QED BY <1>5, <1>6, <1>7

\* The sweep closes every descriptor but the standard ones, or refuses (close_stray_fds).
LEMMA SweepFdsKeeps == ASSUME HelperInv, Sweep PROVE HelperInv'
<1>1. UNCHANGED <<host, args, paths>> /\ helper.pc = "sweep"
  BY DEF Sweep, Still
<1>2. DOMAIN helper = HelperFields /\ args.mode \in HelperModes /\ helper.exit = "none"
  BY <1>1 DEF HelperInv, HelperTypeOK
<1>3. helper.fds = Stdio \cup StrayFds
  BY <1>1 DEF HelperInv, DescriptorsKept
<1>4. \/ helper' = [helper EXCEPT !.fds = Stdio, !.pc = args.mode]
      \/ helper' = [helper EXCEPT !.fds = helper.fds \ StrayFds, !.pc = args.mode]
      \/ Exits("sandbox")
  BY DEF Sweep, walk_fd_dir
<1>5. helper.fds \ StrayFds = Stdio
  BY <1>3 DEF Stdio, StrayFds
<1>6. CASE helper' = [helper EXCEPT !.fds = Stdio, !.pc = args.mode]
  <2>1. /\ DOMAIN helper' = HelperFields /\ helper'.index = helper.index
        /\ helper'.budget = helper.budget /\ helper'.profile = helper.profile
        /\ helper'.hard = helper.hard /\ helper'.inherited = helper.inherited
        /\ helper'.todo = helper.todo /\ helper'.fds = Stdio /\ helper'.exit = "none"
        /\ helper'.mounted = helper.mounted /\ helper'.empty = helper.empty
        /\ helper'.pc = args.mode /\ args.mode \in {"launch", "check-setup", "confined"}
    BY <1>2, <1>6 DEF HelperFields, HelperModes
  <2>2. HelperTypeOK'
    BY <1>1, <2>1 DEF HelperInv, HelperTypeOK, LaunchSteps, SetupSteps, FenceSteps
  <2>3. OptionsRead'
    BY <1>1, <2>1 DEF HelperInv, OptionsRead
  <2>4. LimitsSet'
    BY <1>1, <2>1 DEF HelperInv, LimitsSet, Bound
  <2>5. DescriptorsKept' /\ SetupStands' /\ MountOnValidated' /\ SuccessIsWhole'
    BY <2>1 DEF HelperInv, DescriptorsKept, SetupStands, MountOnValidated, SuccessIsWhole, LaunchSteps,
       SetupSteps, FenceSteps, OpenSteps
  <2>6. QED BY <2>2, <2>3, <2>4, <2>5 DEF HelperInv
<1>7. QED BY <1>1, <1>4, <1>5, <1>6, ExitsKeeps

\* A program starts with its budget set over the worker's limits (cmd_launch).
LEMMA LaunchKeeps == ASSUME HelperInv, CmdLaunch PROVE HelperInv'
<1>1. UNCHANGED <<host, args, paths>> /\ helper.pc = "launch"
  BY DEF CmdLaunch, Still
<1>2. DOMAIN helper = HelperFields /\ helper.exit = "none"
  BY <1>1 DEF HelperInv, HelperTypeOK
<1>3. OptionsRead /\ LimitsSet /\ helper.todo = {}
  BY <1>1 DEF HelperInv, LimitsSet
<1>4. helper.budget \in Nat /\ "as" \in Resource /\ helper.hard["as"] \in Nat
  <2>1. "as" \in Resource /\ Budgets \subseteq 1..WORKER["as"]
    BY HelperAssumption
  <2>2. helper.budget \in {0} \cup Budgets
    BY <1>3 DEF OptionsRead
  <2>3. helper.budget \in Nat
    <3>1. \A w \in Nat : 1..w \subseteq Nat
      OBVIOUS
    <3>2. WORKER["as"] \in Nat
      BY HelperAssumption
    <3>3. Budgets \subseteq Nat
      BY <2>1, <3>1, <3>2
    <3>4. CASE helper.budget = 0
      BY <3>4
    <3>5. CASE helper.budget \in Budgets
      BY ONLY <3>3, <3>5
    <3>6. QED BY <2>2, <3>4, <3>5
  <2>4. helper.hard["as"] \in Nat
    BY <1>3, <2>1 DEF LimitsSet
  <2>5. QED BY <2>1, <2>3, <2>4
<1> DEFINE h == IF helper.budget = 0 THEN helper.hard ELSE [helper.hard EXCEPT !["as"] = helper.budget]
           t == IF helper.budget = 0 THEN helper.todo ELSE helper.todo \ {"as"}
<1>5. \/ helper' = [helper EXCEPT !.pc = "over", !.exit = "sandbox"]
      \/ /\ helper.budget = 0 \/ helper.budget <= helper.hard["as"]
         /\ \E b \in {helper, [helper EXCEPT !.hard = h, !.todo = t]} :
               /\ b = helper => h = helper.hard /\ t = helper.todo
               /\ helper' \in {[b EXCEPT !.pc = "program"], [b EXCEPT !.pc = "over", !.exit = "launch"]}
  <2>1. CASE helper.budget = 0
    BY <1>1, <2>1 DEF CmdLaunch, Budgeted
  <2>2. CASE helper.budget # 0 /\ helper.budget > helper.hard["as"]
    <3>1. Budgeted = [helper EXCEPT !.pc = "over", !.exit = "sandbox"]
      BY <2>2 DEF Budgeted, set_rlimit
    <3>2. Budgeted.pc = "over"
      BY <1>2, <3>1 DEF HelperFields
    <3>3. QED BY <3>1, <3>2 DEF CmdLaunch
  <2>3. CASE helper.budget # 0 /\ ~ (helper.budget > helper.hard["as"])
    <3>1. Budgeted = [helper EXCEPT !.hard = h, !.todo = t]
      BY <2>3 DEF Budgeted, set_rlimit
    <3>2. Budgeted.pc = "launch"
      BY <1>1, <1>2, <3>1 DEF HelperFields
    <3>3. Budgeted # helper \/ (h = helper.hard /\ t = helper.todo)
      BY <1>2, <3>1 DEF HelperFields
    <3>4. helper.budget <= helper.hard["as"]
      BY <1>4, <2>3
    <3> HIDE DEF h, t
    <3>5. helper' \in {[Budgeted EXCEPT !.pc = "program"], [Budgeted EXCEPT !.pc = "over", !.exit = "launch"]}
      BY <3>2 DEF CmdLaunch
    <3>6. QED BY <3>1, <3>3, <3>4, <3>5
  <2>4. QED BY <2>1, <2>2, <2>3
<1>6. /\ h \in [Resource -> Nat] /\ t = {}
      /\ helper.budget # 0 => h["as"] = helper.budget
      /\ \A r \in Resource : r # "as" \/ helper.budget = 0 => h[r] = helper.hard[r]
  BY <1>3, <1>4 DEF LimitsSet
<1> HIDE DEF h, t
<1>7. CASE helper' = [helper EXCEPT !.pc = "over", !.exit = "sandbox"]
  BY <1>1, <1>7, ExitsKeeps DEF Exits
<1>8. CASE helper' # [helper EXCEPT !.pc = "over", !.exit = "sandbox"]
  <2>1. helper.budget = 0 \/ helper.budget <= helper.hard["as"]
    BY <1>5, <1>8
  <2>2. PICK b \in {helper, [helper EXCEPT !.hard = h, !.todo = t]} :
           /\ b = helper => h = helper.hard /\ t = helper.todo
           /\ helper' \in {[b EXCEPT !.pc = "program"], [b EXCEPT !.pc = "over", !.exit = "launch"]}
    BY <1>5, <1>8
  <2>3. /\ DOMAIN b = HelperFields /\ b.hard = h /\ b.todo = t /\ b.index = helper.index
        /\ b.budget = helper.budget /\ b.profile = helper.profile /\ b.inherited = helper.inherited
        /\ b.fds = helper.fds /\ b.exit = helper.exit /\ b.mounted = helper.mounted /\ b.empty = helper.empty
    <3>1. CASE b = helper
      BY <1>2, <2>2, <3>1
    <3>2. CASE b = [helper EXCEPT !.hard = h, !.todo = t]
      BY <1>2, <3>2 DEF HelperFields
    <3>3. QED BY <2>2, <3>1, <3>2
  <2> DEFINE Set == /\ DOMAIN helper' = HelperFields /\ helper'.hard = h /\ helper'.todo = {}
                    /\ helper'.index = helper.index /\ helper'.budget = helper.budget
                    /\ helper'.profile = helper.profile /\ helper'.inherited = helper.inherited
                    /\ helper'.fds = helper.fds /\ helper'.mounted = helper.mounted
                    /\ helper'.empty = helper.empty
  <2>4. /\ Set
        /\ \/ helper'.pc = "program" /\ helper'.exit = helper.exit
           \/ helper'.pc = "over" /\ helper'.exit = "launch"
    BY <1>6, <2>2, <2>3 DEF HelperFields
  <2>5. \A r \in Resource : h[r] <= helper.hard[r]
    <3> SUFFICES ASSUME NEW r \in Resource PROVE h[r] <= helper.hard[r]
      OBVIOUS
    <3>1. helper.hard[r] \in Nat
      BY <1>3 DEF LimitsSet
    <3>2. QED BY <1>4, <1>6, <2>1, <3>1
  <2>6. LimitsSet'
    <3>1. \A r \in Resource : h[r] <= helper.inherited[r] /\ h[r] <= Bound(r)
      <4> SUFFICES ASSUME NEW r \in Resource PROVE h[r] <= helper.inherited[r] /\ h[r] <= Bound(r)
        OBVIOUS
      <4>1. /\ helper.hard[r] \in Nat /\ helper.inherited[r] \in Nat /\ h[r] \in Nat
            /\ helper.hard[r] <= helper.inherited[r] /\ helper.hard[r] <= Bound(r)
        BY <1>3, <1>6 DEF LimitsSet
      <4>2. Bound(r) \in Nat
        BY HelperAssumption DEF Bound
      <4>3. QED BY <2>5, <4>1, <4>2
    <3>2. \A r \in Resource : Bound(r)' = Bound(r)
      BY <2>4 DEF Bound
    <3>3. helper.budget # 0 => h["as"] <= helper.budget
      BY <1>4, <1>6
    <3>4. QED BY <1>3, <1>6, <2>4, <3>1, <3>2, <3>3 DEF LimitsSet
  <2>7. OptionsRead'
    BY <1>1, <1>3, <2>4 DEF OptionsRead
  <2>8. CASE helper'.pc = "program" /\ helper'.exit = helper.exit
    BY <1>1, <2>4, <2>6, <2>7, <2>8, EarlyKeeps DEF HelperInv
  <2>9. CASE helper'.pc = "over" /\ helper'.exit = "launch"
    <3>1. HelperTypeOK'
      BY <1>1, <2>4, <2>9 DEF HelperInv, HelperTypeOK, LaunchSteps, SetupSteps, FenceSteps
    <3>2. DescriptorsKept' /\ SetupStands' /\ MountOnValidated' /\ SuccessIsWhole'
      BY <2>4, <2>9 DEF HelperInv, DescriptorsKept, SetupStands, MountOnValidated, SuccessIsWhole, LaunchSteps,
         SetupSteps, FenceSteps, OpenSteps
    <3>3. QED BY <2>6, <2>7, <3>1, <3>2 DEF HelperInv
  <2>10. QED BY <2>4, <2>8, <2>9
<1>9. QED BY <1>7, <1>8

\* Every step of the helper, and of the process that moves its paths, keeps the invariant.
LEMMA HelperInvNext == HelperInv /\ [HelperNext]_helperVars => HelperInv'
<1> SUFFICES ASSUME HelperInv, [HelperNext]_helperVars PROVE HelperInv'
  OBVIOUS
<1>1. CASE PathMoves
  <2>1. /\ UNCHANGED <<host, args, helper>>
        /\ DOMAIN paths' = {"at", "full"} /\ paths'.at \in {1, 2, Link}
    <3>1. DOMAIN paths = {"at", "full"} /\ paths.at \in {1, 2, Link}
      BY DEF HelperInv, HelperTypeOK
    <3>2. CASE \E q \in {1, 2, Link} : paths' = [paths EXCEPT !.at = q]
      BY <1>1, <3>1, <3>2 DEF PathMoves
    <3>3. CASE \E d \in {1, 2} : paths' = [paths EXCEPT !.full = paths.full \cup {d}]
      BY <1>1, <3>1, <3>3 DEF PathMoves
    <3>4. QED BY <1>1, <3>2, <3>3 DEF PathMoves
  <2>2. QED BY <2>1 DEF HelperInv, HelperTypeOK, OptionsRead, LimitsSet, Bound, DescriptorsKept, SetupStands,
            MountOnValidated, SuccessIsWhole
<1>2. CASE UNCHANGED helperVars
  BY <1>2 DEF helperVars, HelperInv, HelperTypeOK, OptionsRead, LimitsSet, Bound, DescriptorsKept, SetupStands,
     MountOnValidated, SuccessIsWhole
<1>3. QED BY <1>1, <1>2, OptionKeeps, LimitKeeps, SweepFdsKeeps, LaunchKeeps, SetupKeeps, FenceKeeps
          DEF HelperNext

\* The invariant says what a program starts under.
LEMMA HelperHolds == HelperInv => NothingInherited /\ LimitsHold /\ MountOnValidated /\ SuccessIsWhole
<1> SUFFICES ASSUME HelperInv PROVE NothingInherited /\ LimitsHold /\ MountOnValidated /\ SuccessIsWhole
  OBVIOUS
<1>1. NothingInherited
  BY DEF HelperInv, DescriptorsKept, NothingInherited, LaunchSteps, FenceSteps
<1>2. ASSUME helper.pc = "program"
      PROVE  /\ \A r \in Resource :
                  /\ helper.hard[r] <= helper.inherited[r]
                  /\ helper.hard[r] <= IF helper.profile = "Worker" THEN WORKER[r] ELSE CHECK[r]
             /\ \A i \in DOMAIN args.tokens :
                  (\A j \in 1..i : args.tokens[j].flag # "--") =>
                    /\ args.tokens[i].flag = "budget" =>
                         helper.hard["as"] <= args.tokens[i].value /\ helper.profile = "Worker"
                    /\ args.tokens[i].flag = "profile" => helper.profile = "Check"
  <2>1. /\ helper.todo = {} /\ args.mode = "launch"
        /\ helper.index <= Len(args.tokens) /\ args.tokens[helper.index].flag = "--"
        /\ helper.index \in Nat \ {0} /\ args.tokens \in Seq(ArgTokens)
    BY <1>2 DEF HelperInv, HelperTypeOK, LimitsSet, OptionsRead, LaunchSteps
  <2>2. \A r \in Resource :
           /\ helper.hard[r] <= helper.inherited[r]
           /\ helper.hard[r] <= IF helper.profile = "Worker" THEN WORKER[r] ELSE CHECK[r]
    BY <2>1 DEF HelperInv, LimitsSet, Bound
  <2>3. ASSUME NEW i \in DOMAIN args.tokens, \A j \in 1..i : args.tokens[j].flag # "--"
        PROVE  /\ args.tokens[i].flag = "budget" =>
                    helper.hard["as"] <= args.tokens[i].value /\ helper.profile = "Worker"
               /\ args.tokens[i].flag = "profile" => helper.profile = "Check"
    <3>1. i \in Nat \ {0}
      BY <2>1
    <3>2. i \in 1..(helper.index - 1)
      BY ONLY <2>1, <2>3, <3>1
    <3>3. QED BY <1>2, <3>2 DEF HelperInv, OptionsRead, LimitsSet
  <2>4. QED BY <2>2, <2>3
<1>3. QED BY <1>1, <1>2 DEF LimitsHold, HelperInv

\* A program starts, and data moves, with no descriptor of the parent and under the limits
\* asked for; a root is mounted on the directory found empty, and success means the whole,
\* for any tokens, resources, limits and moves of the paths (main of the sandbox helper).
THEOREM HelperSafe ==
    HelperSpec => [](NothingInherited /\ LimitsHold /\ MountOnValidated /\ SuccessIsWhole)
BY HelperInvInit, HelperInvNext, HelperHolds, PTL DEF HelperSpec

=============================================================================
