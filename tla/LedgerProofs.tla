----------------------------- MODULE LedgerProofs ---------------------------
(***************************************************************************)
(* Proofs about Ledger, for every set of scopes, every number of attempts, *)
(* direct reservations, overlapping sends and crashes.  What the budget    *)
(* counters mean is stated on a table of scopes and a table of             *)
(* reservations, so that each transaction's edit is proved once.           *)
(* Then proofs about Economy, for every number of sends and rows, every    *)
(* usage a provider reports and every cohort of rows, and about            *)
(* BoundedWork, for every chain of scopes; and about Evidence, for every   *)
(* set of obligations and checks.                                          *)
(***************************************************************************)
EXTENDS Ledger, BoundedWork, Economy, Evidence, ProofLemmas

\* The counters of every scope: within the limit, and exactly what the
\* reservations add up to.
Money(bud, rv) ==
    \A s \in Scope :
        /\ bud[s].spent + bud[s].reserved <= bud[s].limit
        /\ bud[s].reserved = SumTo(Held(rv, s), MaxId)
        /\ bud[s].spent = SumTo(Spent(rv, s), MaxId)

Tables(bud, rv) ==
    /\ bud \in [Scope -> BudgetRow]
    /\ rv \in [Id -> ReservationRow]

\* The bounds of the model are numbers.
LEMMA MaxIdNat == MaxId \in Nat /\ MaxAttempts \in Nat /\ Attempt \subseteq Id
  BY LedgerAssumption DEF MaxId, Attempt, Id

\* What a charged row spent.
LEMMA DeltaNat ==
  ASSUME NEW r \in ReservationRow
  PROVE  Delta(r) \in Nat
  BY DEF Delta, ReservationRow, OrNull, Null

\* The terms of the two sums are naturals.
LEMMA TermsNat ==
  ASSUME NEW rv \in [Id -> ReservationRow], NEW s
  PROVE  \A i \in 1 .. MaxId : Held(rv, s)[i] \in Nat /\ Spent(rv, s)[i] \in Nat
<1> SUFFICES ASSUME NEW i \in Id PROVE Held(rv, s)[i] \in Nat /\ Spent(rv, s)[i] \in Nat
  BY DEF Id
<1>1. rv[i] \in ReservationRow
  OBVIOUS
<1>2. rv[i].bound \in Nat /\ Delta(rv[i]) \in Nat
  BY <1>1, DeltaNat DEF ReservationRow
<1>3. QED BY <1>2 DEF Held, Spent

\* An unopened scope and a freshly opened one: nothing reserved or spent there.
LEMMA OpenedKeeps ==
  ASSUME NEW bud, NEW rv, Tables(bud, rv), Money(bud, rv),
         NEW sc \in Scope, bud[sc].spent = 0, bud[sc].reserved = 0, NEW l \in Nat,
         NEW bud2,
         bud2 = [bud EXCEPT ![sc] = [open |-> TRUE, limit |-> l, spent |-> 0, reserved |-> 0]]
  PROVE  Tables(bud2, rv) /\ Money(bud2, rv)
<1>1. bud2 \in [Scope -> BudgetRow]
  BY DEF Tables, BudgetRow
<1>2. ASSUME NEW s \in Scope
      PROVE  /\ bud2[s].spent = bud[s].spent /\ bud2[s].reserved = bud[s].reserved
             /\ bud2[s].spent + bud2[s].reserved <= bud2[s].limit
  <2>1. CASE s = sc
    BY <2>1 DEF Tables
  <2>2. CASE s # sc
    BY <2>2 DEF Tables, Money
  <2>3. QED BY <2>1, <2>2
<1>3. QED BY <1>1, <1>2 DEF Tables, Money

\* A reservation made: the bound is held at each of its scopes, where it fits.
ReservedEdit(bud, rv, id, S, b, bud2, rv2) ==
    /\ Tables(bud, rv) /\ Money(bud, rv)
    /\ id \in Id /\ rv[id].state = "none" /\ S \in SUBSET Scope /\ b \in Nat
    /\ \A s \in S : bud[s].spent + bud[s].reserved + b <= bud[s].limit
    /\ rv2 = [rv EXCEPT ![id] =
                [state |-> "reserved", scopes |-> S, bound |-> b, charged |-> Null]]
    /\ bud2 = [s \in Scope |-> IF s \in S THEN Moved(bud[s], 0, b) ELSE bud[s]]

\* A reservation made keeps the counters exact and within the limit.
LEMMA ReservedKeeps ==
  ASSUME NEW bud, NEW rv, NEW id, NEW S, NEW b, NEW bud2, NEW rv2,
         ReservedEdit(bud, rv, id, S, b, bud2, rv2)
  PROVE  Tables(bud2, rv2) /\ Money(bud2, rv2)
<1> USE DEF ReservedEdit
<1> DEFINE new == [state |-> "reserved", scopes |-> S, bound |-> b, charged |-> Null]
<1>0. new \in ReservationRow
  BY DEF ReservationRow, OrNull
<1>1. rv2 \in [Id -> ReservationRow] /\ rv \in [Id -> ReservationRow] /\ rv2[id] = new
      /\ \A i \in Id : i # id => rv2[i] = rv[i]
  BY <1>0 DEF Tables
<1>2. ASSUME NEW s \in Scope
      PROVE  /\ bud2[s] \in BudgetRow
             /\ bud2[s].spent = bud[s].spent /\ bud2[s].limit = bud[s].limit
             /\ bud2[s].reserved = bud[s].reserved + (IF s \in S THEN b ELSE 0)
             /\ bud[s] \in BudgetRow
  BY DEF Tables, BudgetRow, Moved
<1>3. bud2 \in [Scope -> BudgetRow]
  BY <1>2
<1> HIDE DEF new
<1>4. ASSUME NEW s \in Scope
      PROVE  /\ SumTo(Held(rv2, s), MaxId) = SumTo(Held(rv, s), MaxId) + (IF s \in S THEN b ELSE 0)
             /\ SumTo(Spent(rv2, s), MaxId) = SumTo(Spent(rv, s), MaxId)
             /\ SumTo(Held(rv, s), MaxId) \in Nat
  <2>0. /\ new.state = "reserved" /\ new.scopes = S /\ new.bound = b
    BY DEF new
  <2>1. /\ Held(rv, s)[id] = 0 /\ Held(rv2, s)[id] = (IF s \in S THEN b ELSE 0)
        /\ Spent(rv, s)[id] = 0 /\ Spent(rv2, s)[id] = 0
    BY <1>1, <2>0 DEF Held, Spent
  <2>2. \A i \in 1 .. MaxId : i # id => /\ Held(rv2, s)[i] = Held(rv, s)[i]
                                        /\ Spent(rv2, s)[i] = Spent(rv, s)[i]
    BY <1>1 DEF Held, Spent, Id
  <2>3. \A i \in 1 .. MaxId : Spent(rv2, s)[i] = Spent(rv, s)[i]
    BY <2>1, <2>2
  <2>4. /\ \A i \in 1 .. MaxId : Held(rv, s)[i] \in Nat /\ Held(rv2, s)[i] \in Nat
        /\ id \in 1 .. MaxId /\ MaxId \in Nat
    BY <1>1, TermsNat, MaxIdNat DEF Id
  <2>5. SumTo(Held(rv2, s), MaxId) + Held(rv, s)[id] = SumTo(Held(rv, s), MaxId) + Held(rv2, s)[id]
    <3> DEFINE f == Held(rv, s)
               g == Held(rv2, s)
    <3>1. (\A i \in 1 .. MaxId : f[i] \in Nat /\ g[i] \in Nat) /\ id \in 1 .. MaxId /\ MaxId \in Nat
      BY <2>4
    <3>2. \A i \in 1 .. MaxId : i # id => g[i] = f[i]
      BY <2>2
    <3> HIDE DEF f, g
    <3>3. SumTo(g, MaxId) + f[id] = SumTo(f, MaxId) + g[id]
      BY <3>1, <3>2, SumChange
    <3>4. QED BY <3>3 DEF f, g
  <2>6. SumTo(Held(rv2, s), MaxId) \in Nat /\ SumTo(Held(rv, s), MaxId) \in Nat
    BY <2>4, SumNat
  <2>7. SumTo(Spent(rv2, s), MaxId) = SumTo(Spent(rv, s), MaxId)
    BY <2>3, <2>4, SumAgree
  <2>8. QED BY <2>1, <2>5, <2>6, <2>7
<1>5. ASSUME NEW s \in Scope
      PROVE  /\ bud2[s].spent + bud2[s].reserved <= bud2[s].limit
             /\ bud2[s].reserved = SumTo(Held(rv2, s), MaxId)
             /\ bud2[s].spent = SumTo(Spent(rv2, s), MaxId)
  <2>1. /\ bud[s].spent + bud[s].reserved <= bud[s].limit
        /\ bud[s].reserved = SumTo(Held(rv, s), MaxId)
        /\ bud[s].spent = SumTo(Spent(rv, s), MaxId)
    BY DEF Money
  <2>2. bud[s].spent \in Nat /\ bud[s].reserved \in Nat /\ bud[s].limit \in Nat
    BY <1>2 DEF BudgetRow
  <2>3. CASE s \in S
    <3>1. bud[s].spent + bud[s].reserved + b <= bud[s].limit
      BY <2>3
    <3>2. bud2[s].reserved = bud[s].reserved + b /\ bud2[s].spent = bud[s].spent
          /\ bud2[s].limit = bud[s].limit
      BY <1>2, <2>3
    <3>3. bud2[s].spent + bud2[s].reserved <= bud2[s].limit
      BY <2>2, <3>1, <3>2
    <3>4. QED BY <1>4, <2>1, <2>3, <3>2, <3>3
  <2>4. CASE s \notin S
    <3>1. bud2[s].reserved = bud[s].reserved /\ bud2[s].spent = bud[s].spent
          /\ bud2[s].limit = bud[s].limit
      BY <1>2, <2>2, <2>4
    <3>2. SumTo(Held(rv2, s), MaxId) = SumTo(Held(rv, s), MaxId)
      <4> DEFINE y == SumTo(Held(rv2, s), MaxId)
                 z == SumTo(Held(rv, s), MaxId)
      <4>1. y = z + (IF s \in S THEN b ELSE 0) /\ z \in Nat
        BY <1>4
      <4> HIDE DEF y, z
      <4>2. y = z
        BY <4>1, <2>4
      <4>3. QED BY <4>2 DEF y, z
    <3>3. QED BY <1>4, <2>1, <3>1, <3>2
  <2>5. QED BY <2>3, <2>4
<1>6. QED BY <1>1, <1>3, <1>5 DEF Tables, Money

\* A reservation that ends, charged or released: its scopes give up the bound
\* and spend what the row now says, which is no more than the bound.
ResolvedEdit(bud, rv, id, r, d, bud2, rv2) ==
    /\ Tables(bud, rv) /\ Money(bud, rv)
    /\ id \in Id /\ rv[id].state = "reserved"
    /\ r \in ReservationRow /\ r.state \in {"charged", "released"}
    /\ r.scopes = rv[id].scopes /\ r.bound = rv[id].bound
    /\ d \in Nat /\ d <= r.bound /\ d = (IF r.state = "charged" THEN Delta(r) ELSE 0)
    /\ rv2 = [rv EXCEPT ![id] = r]
    /\ bud2 \in [Scope -> [open : BOOLEAN, limit : Nat, spent : Int, reserved : Int]]
    /\ \A s \in Scope :
         /\ bud2[s].limit = bud[s].limit
         /\ bud2[s].spent = bud[s].spent + (IF s \in r.scopes THEN d ELSE 0)
         /\ bud2[s].reserved = bud[s].reserved - (IF s \in r.scopes THEN r.bound ELSE 0)

\* So does a reservation that ends, charged or released.
LEMMA ResolvedKeeps ==
  ASSUME NEW bud, NEW rv, NEW id, NEW r, NEW d, NEW bud2, NEW rv2,
         ResolvedEdit(bud, rv, id, r, d, bud2, rv2)
  PROVE  Tables(bud2, rv2) /\ Money(bud2, rv2)
<1> USE DEF ResolvedEdit
<1>1. rv2 \in [Id -> ReservationRow] /\ rv \in [Id -> ReservationRow] /\ rv2[id] = r
      /\ \A i \in Id : i # id => rv2[i] = rv[i]
  BY DEF Tables
<1>0. r.bound \in Nat
  BY DEF ReservationRow
<1>2. ASSUME NEW s \in Scope
      PROVE  /\ SumTo(Held(rv2, s), MaxId)
                  = SumTo(Held(rv, s), MaxId) - (IF s \in r.scopes THEN r.bound ELSE 0)
             /\ SumTo(Spent(rv2, s), MaxId)
                  = SumTo(Spent(rv, s), MaxId) + (IF s \in r.scopes THEN d ELSE 0)
             /\ SumTo(Held(rv2, s), MaxId) \in Nat /\ SumTo(Spent(rv2, s), MaxId) \in Nat
             /\ SumTo(Held(rv, s), MaxId) \in Nat /\ SumTo(Spent(rv, s), MaxId) \in Nat
  <2>1. /\ Held(rv, s)[id] = (IF s \in r.scopes THEN r.bound ELSE 0) /\ Held(rv2, s)[id] = 0
        /\ Spent(rv, s)[id] = 0 /\ Spent(rv2, s)[id] = (IF s \in r.scopes THEN d ELSE 0)
    BY <1>1 DEF Held, Spent
  <2>2. \A i \in 1 .. MaxId : i # id => /\ Held(rv2, s)[i] = Held(rv, s)[i]
                                        /\ Spent(rv2, s)[i] = Spent(rv, s)[i]
    BY <1>1 DEF Held, Spent, Id
  <2>3. /\ \A i \in 1 .. MaxId : /\ Held(rv, s)[i] \in Nat /\ Held(rv2, s)[i] \in Nat
                                 /\ Spent(rv, s)[i] \in Nat /\ Spent(rv2, s)[i] \in Nat
        /\ id \in 1 .. MaxId /\ MaxId \in Nat
    BY <1>1, TermsNat, MaxIdNat DEF Id
  <2>4. SumTo(Held(rv2, s), MaxId) + Held(rv, s)[id] = SumTo(Held(rv, s), MaxId) + Held(rv2, s)[id]
    <3> DEFINE f == Held(rv, s)
               g == Held(rv2, s)
    <3>1. (\A i \in 1 .. MaxId : f[i] \in Nat /\ g[i] \in Nat) /\ id \in 1 .. MaxId /\ MaxId \in Nat
      BY <2>3
    <3>2. \A i \in 1 .. MaxId : i # id => g[i] = f[i]
      BY <2>2
    <3> HIDE DEF f, g
    <3>3. SumTo(g, MaxId) + f[id] = SumTo(f, MaxId) + g[id]
      BY <3>1, <3>2, SumChange
    <3>4. QED BY <3>3 DEF f, g
  <2>5. SumTo(Spent(rv2, s), MaxId) + Spent(rv, s)[id] = SumTo(Spent(rv, s), MaxId) + Spent(rv2, s)[id]
    <3> DEFINE f == Spent(rv, s)
               g == Spent(rv2, s)
    <3>1. (\A i \in 1 .. MaxId : f[i] \in Nat /\ g[i] \in Nat) /\ id \in 1 .. MaxId /\ MaxId \in Nat
      BY <2>3
    <3>2. \A i \in 1 .. MaxId : i # id => g[i] = f[i]
      BY <2>2
    <3> HIDE DEF f, g
    <3>3. SumTo(g, MaxId) + f[id] = SumTo(f, MaxId) + g[id]
      BY <3>1, <3>2, SumChange
    <3>4. QED BY <3>3 DEF f, g
  <2>6. /\ SumTo(Held(rv2, s), MaxId) \in Nat /\ SumTo(Spent(rv2, s), MaxId) \in Nat
        /\ SumTo(Held(rv, s), MaxId) \in Nat /\ SumTo(Spent(rv, s), MaxId) \in Nat
    BY <2>3, SumNat
  <2>7. QED BY <1>0, <2>1, <2>4, <2>5, <2>6
<1>3. ASSUME NEW s \in Scope
      PROVE  /\ bud2[s].spent + bud2[s].reserved <= bud2[s].limit
             /\ bud2[s].reserved = SumTo(Held(rv2, s), MaxId)
             /\ bud2[s].spent = SumTo(Spent(rv2, s), MaxId)
  <2>1. /\ bud[s].spent + bud[s].reserved <= bud[s].limit
        /\ bud[s].reserved = SumTo(Held(rv, s), MaxId)
        /\ bud[s].spent = SumTo(Spent(rv, s), MaxId)
        /\ bud[s].limit \in Nat
    BY DEF Money, Tables, BudgetRow
  <2> DEFINE h == SumTo(Held(rv, s), MaxId)
             h2 == SumTo(Held(rv2, s), MaxId)
             x == SumTo(Spent(rv, s), MaxId)
             x2 == SumTo(Spent(rv2, s), MaxId)
  <2>2. /\ h2 = h - (IF s \in r.scopes THEN r.bound ELSE 0)
        /\ x2 = x + (IF s \in r.scopes THEN d ELSE 0)
        /\ h \in Nat /\ h2 \in Nat /\ x \in Nat /\ x2 \in Nat
    BY <1>2
  <2>3. bud[s].reserved = h /\ bud[s].spent = x /\ x + h <= bud[s].limit
    BY <2>1
  <2> HIDE DEF h, h2, x, x2
  <2>4. bud2[s].reserved = h2 /\ bud2[s].spent = x2 /\ bud2[s].limit = bud[s].limit
    BY <2>2, <2>3
  <2>5. x2 + h2 <= bud[s].limit
    BY <1>0, <2>1, <2>2, <2>3
  <2>6. QED BY <2>4, <2>5 DEF h2, x2
<1>4. ASSUME NEW s \in Scope PROVE bud2[s] \in BudgetRow
  BY <1>2, <1>3 DEF BudgetRow
<1>5. bud2 \in [Scope -> BudgetRow]
  BY <1>4
<1>6. QED BY <1>1, <1>3, <1>5 DEF Tables, Money

\* rv2 is rv with the reservations of H charged at their bounds, and o is what
\* that moves at the scope s.
Recharged(rv, rv2, H, s, o) ==
    /\ rv \in [Id -> ReservationRow] /\ rv2 \in [Id -> ReservationRow]
    /\ \A i \in Id : i \notin H => rv2[i] = rv[i]
    /\ \A i \in Id : i \in H => /\ rv[i].state = "reserved" /\ rv2[i].state = "charged"
                                /\ rv2[i].scopes = rv[i].scopes
                                /\ Delta(rv2[i]) = rv[i].bound
    /\ \A i \in Id : o[i] = (IF i \in H /\ s \in rv[i].scopes THEN rv[i].bound ELSE 0)

\* What a reconciliation of the reservations H moves, at one scope.
LEMMA ReconciledSums ==
  ASSUME NEW rv, NEW rv2, NEW H, NEW s \in Scope, NEW o, Recharged(rv, rv2, H, s, o)
  PROVE  /\ SumTo(o, MaxId) \in Nat
         /\ SumTo(Held(rv, s), MaxId) = SumTo(Held(rv2, s), MaxId) + SumTo(o, MaxId)
         /\ SumTo(Spent(rv2, s), MaxId) = SumTo(Spent(rv, s), MaxId) + SumTo(o, MaxId)
         /\ SumTo(Held(rv2, s), MaxId) \in Nat /\ SumTo(Spent(rv, s), MaxId) \in Nat
<1>0. MaxId \in Nat /\ Id = 1 .. MaxId
  BY MaxIdNat DEF Id
<1> DEFINE h == Held(rv, s)
           h2 == Held(rv2, s)
           x == Spent(rv, s)
           x2 == Spent(rv2, s)
<1>1. \A i \in Id : h[i] \in Nat /\ h2[i] \in Nat /\ x[i] \in Nat /\ x2[i] \in Nat
  BY <1>0, TermsNat DEF Recharged
<1>2. \A i \in Id : o[i] \in Nat
  BY DEF Recharged, ReservationRow
<1>3. \A i \in Id : o[i] = 0 => h[i] = h2[i] + 0 /\ x2[i] = x[i] + 0
  <2>1. ASSUME NEW i \in Id, o[i] = 0
        PROVE  h[i] = h2[i] /\ x2[i] = x[i]
    <3>1. CASE i \notin H
      BY <3>1 DEF Recharged, Held, Spent
    <3>2. CASE i \in H /\ s \notin rv[i].scopes
      BY <3>2 DEF Recharged, Held, Spent
    <3>3. CASE i \in H /\ s \in rv[i].scopes
      <4>1. rv[i].bound = 0
        BY <2>1, <3>3 DEF Recharged
      <4>2. h[i] = 0 /\ x[i] = 0
        BY <4>1, <3>3 DEF Recharged, Held, Spent
      <4>3. h2[i] = 0 /\ x2[i] = 0
        BY <4>1, <3>3 DEF Recharged, Held, Spent
      <4>4. QED BY <4>2, <4>3
    <3>4. QED BY <3>1, <3>2, <3>3
  <2>2. QED BY <1>1, <2>1
<1>4. \A i \in Id : o[i] # 0 => h[i] = o[i] /\ h2[i] = 0 /\ x2[i] = o[i] /\ x[i] = 0
  <2>1. ASSUME NEW i \in Id, o[i] # 0
        PROVE  h[i] = o[i] /\ h2[i] = 0 /\ x2[i] = o[i] /\ x[i] = 0
    <3>1. i \in H /\ s \in rv[i].scopes /\ o[i] = rv[i].bound
      BY <2>1 DEF Recharged
    <3>2. h[i] = o[i] /\ x[i] = 0
      BY <3>1 DEF Recharged, Held, Spent
    <3>3. h2[i] = 0 /\ x2[i] = o[i]
      BY <3>1 DEF Recharged, Held, Spent
    <3>4. QED BY <3>2, <3>3
  <2>2. QED BY <2>1
<1> HIDE DEF h, h2, x, x2
<1>a. ASSUME NEW i \in 1 .. MaxId
      PROVE  /\ h2[i] \in Nat /\ o[i] \in Nat /\ h[i] = h2[i] + o[i]
             /\ x[i] \in Nat /\ x2[i] = x[i] + o[i]
  <2>1. i \in Id
    BY <1>0
  <2>2. h2[i] \in Nat /\ x[i] \in Nat /\ o[i] \in Nat
    BY <1>1, <1>2, <2>1
  <2>3. CASE o[i] = 0
    BY <1>3, <2>1, <2>2, <2>3
  <2>4. CASE o[i] # 0
    BY <1>4, <2>1, <2>2, <2>4
  <2>5. QED BY <2>2, <2>3, <2>4
<1>5. \A i \in 1 .. MaxId : /\ h2[i] \in Nat /\ o[i] \in Nat /\ h[i] = h2[i] + o[i]
  BY <1>a
<1>6. \A i \in 1 .. MaxId : /\ x[i] \in Nat /\ o[i] \in Nat /\ x2[i] = x[i] + o[i]
  BY <1>a
<1>m. MaxId \in Nat
  BY <1>0
<1>7. SumTo(h, MaxId) = SumTo(h2, MaxId) + SumTo(o, MaxId)
  BY <1>m, <1>5, SumSplit, Zenon
<1>8. SumTo(x2, MaxId) = SumTo(x, MaxId) + SumTo(o, MaxId)
  BY <1>m, <1>6, SumSplit, Zenon
<1>9. SumTo(o, MaxId) \in Nat /\ SumTo(h2, MaxId) \in Nat /\ SumTo(x, MaxId) \in Nat
  BY <1>0, <1>5, <1>6, SumNat, Zenon
<1>10. QED BY <1>7, <1>8, <1>9 DEF h, h2, x, x2

\* And what it does to the scope's row.
LEMMA ReconciledRow ==
  ASSUME NEW row \in BudgetRow, NEW w \in Nat, NEW h2 \in Nat, NEW x \in Nat, NEW x2,
         row.reserved = h2 + w, x2 = x + w, row.spent = x, row.spent + row.reserved <= row.limit
  PROVE  /\ Moved(row, w, - w) \in BudgetRow
         /\ Moved(row, w, - w).spent = x2 /\ Moved(row, w, - w).reserved = h2
         /\ Moved(row, w, - w).spent + Moved(row, w, - w).reserved <= Moved(row, w, - w).limit
         /\ Moved(row, w, - w).spent >= row.spent
<1>1. /\ row.limit \in Nat /\ row.open \in BOOLEAN /\ row.spent \in Nat /\ row.reserved \in Nat
  BY DEF BudgetRow
<1>2. row.reserved + (- w) = h2 /\ row.spent + w = x2 /\ x2 \in Nat /\ x2 + h2 <= row.limit
      /\ x2 >= row.spent
  BY <1>1
<1>3. Moved(row, w, - w) = [open |-> row.open, limit |-> row.limit, spent |-> x2, reserved |-> h2]
  BY <1>2 DEF Moved
<1>4. QED BY <1>1, <1>2, <1>3 DEF BudgetRow

\* A scope's row keeps its limit and spends no less.
Kept(bud, bud2) ==
    \A s \in Scope : /\ bud2[s].open = bud[s].open /\ bud2[s].limit = bud[s].limit
                     /\ bud2[s].spent >= bud[s].spent

\* Reconciliation: every held reservation of H is charged at its bound.
LEMMA ReconciledStep ==
  ASSUME Tables(budget, resv), Money(budget, resv), NEW H \in SUBSET Id,
         \A i \in H : resv[i].state = "reserved" /\ rows[i].bound = resv[i].bound,
         resv' = [i \in Id |-> IF i \in H THEN Resolved(resv[i], "charged", rows[i].bound)
                               ELSE resv[i]],
         budget' = [s \in Scope |-> Moved(budget[s], Owed(H, s), - Owed(H, s))]
  PROVE  /\ Tables(budget', resv') /\ Money(budget', resv') /\ Kept(budget, budget')
<1>0. MaxId \in Nat /\ resv \in [Id -> ReservationRow] /\ budget \in [Scope -> BudgetRow]
  BY MaxIdNat DEF Tables
<1>1. ASSUME NEW i \in Id
      PROVE  /\ resv'[i] \in ReservationRow
             /\ i \notin H => resv'[i] = resv[i]
             /\ i \in H => /\ resv'[i].state = "charged" /\ resv'[i].scopes = resv[i].scopes
                          /\ Delta(resv'[i]) = resv[i].bound /\ resv[i].bound \in Nat
  <2>1. CASE i \in H
    <3>1. resv'[i] = Resolved(resv[i], "charged", resv[i].bound)
      BY <2>1
    <3>2. resv[i].scopes \in SUBSET Scope /\ resv[i].bound \in Nat
      BY <1>0 DEF ReservationRow
    <3>3. QED BY <2>1, <3>1, <3>2 DEF Resolved, ReservationRow, OrNull, Delta, Null
  <2>2. CASE i \notin H
    BY <2>2, <1>0
  <2>3. QED BY <2>1, <2>2
<1>2. resv' \in [Id -> ReservationRow]
  BY <1>1
<1>4. ASSUME NEW s \in Scope
      PROVE  /\ budget'[s] \in BudgetRow
             /\ budget'[s].spent + budget'[s].reserved <= budget'[s].limit
             /\ budget'[s].reserved = SumTo(Held(resv', s), MaxId)
             /\ budget'[s].spent = SumTo(Spent(resv', s), MaxId)
             /\ budget'[s].spent >= budget[s].spent
             /\ budget'[s].open = budget[s].open /\ budget'[s].limit = budget[s].limit
  <2> DEFINE o == [i \in Id |-> IF i \in H /\ s \in resv[i].scopes THEN rows[i].bound ELSE 0]
             w == SumTo(o, MaxId)
  <2>1. budget'[s] = Moved(budget[s], w, - w)
    BY DEF Owed
  <2>2. \A i \in Id : o[i] = (IF i \in H /\ s \in resv[i].scopes THEN resv[i].bound ELSE 0)
    OBVIOUS
  <2> HIDE DEF o
  <2>3. /\ w \in Nat
        /\ SumTo(Held(resv, s), MaxId) = SumTo(Held(resv', s), MaxId) + w
        /\ SumTo(Spent(resv', s), MaxId) = SumTo(Spent(resv, s), MaxId) + w
        /\ SumTo(Held(resv', s), MaxId) \in Nat /\ SumTo(Spent(resv, s), MaxId) \in Nat
    <3>1. Recharged(resv, resv', H, s, o)
      BY <1>0, <1>1, <1>2, <2>2 DEF Recharged
    <3>2. QED BY <3>1, ReconciledSums
  <2> HIDE DEF w
  <2>4. /\ budget[s].reserved = SumTo(Held(resv, s), MaxId) /\ budget[s].spent = SumTo(Spent(resv, s), MaxId)
        /\ budget[s].spent + budget[s].reserved <= budget[s].limit /\ budget[s] \in BudgetRow
    BY <1>0 DEF Money
  <2>5. budget[s].reserved = SumTo(Held(resv', s), MaxId) + w
    BY <2>3, <2>4, Zenon
  <2>6. budget'[s].open = budget[s].open /\ budget'[s].limit = budget[s].limit
    BY <2>1 DEF Moved
  <2>7. QED BY <2>1, <2>3, <2>4, <2>5, <2>6, ReconciledRow
<1>5. budget' \in [Scope -> BudgetRow]
  BY <1>4
<1>6. Kept(budget, budget')
  BY <1>4 DEF Kept
<1>7. QED BY <1>2, <1>4, <1>5, <1>6 DEF Tables, Money

-----------------------------------------------------------------------------
(***************************************************************************)
(* What the reads and edits of the settlement rows and totals return.      *)
(***************************************************************************)

\* The attempts are finitely many.
LEMMA AttemptsCounted ==
  \A S \in SUBSET Attempt :
      /\ IsFiniteSet(S) /\ Cardinality(S) \in Nat
      /\ \A T \in SUBSET S : Cardinality(T) \in Nat /\ Cardinality(T) <= Cardinality(S)
<1>1. IsFiniteSet(Attempt)
  BY MaxIdNat, FS_Interval DEF Attempt
<1>2. \A S \in SUBSET Attempt : IsFiniteSet(S)
  BY <1>1, FS_Subset
<1>3. \A S \in SUBSET Attempt : \A T \in SUBSET S : IsFiniteSet(T) /\ Cardinality(T) <= Cardinality(S)
  BY <1>2, FS_Subset
<1>4. QED BY <1>2, <1>3, FS_CardinalityType

\* MAX(rowid) is the greatest rowid, 0 over an empty table.
LEMMA MaxRowidType ==
  ASSUME NEW r \in [Attempt -> SettlementRow]
  PROVE  MaxRowid(r) \in Nat
<1> DEFINE K == {0} \cup { r[a].rowid : a \in Attempt }
           top(m) == \A a \in Attempt : r[a].rowid <= m
<1>0. \A a \in Attempt : r[a].rowid \in Nat
  BY DEF SettlementRow
<1>1. K \subseteq Nat
  BY <1>0
<1>2. \E m \in K : top(m)
  <2>1. CASE Attempt = {}
    BY <2>1
  <2>2. CASE Attempt # {}
    <3> DEFINE key == [a \in Attempt |-> r[a].rowid]
    <3>1. MaxAttempts \in Nat /\ Attempt = 1 .. MaxAttempts
      BY MaxIdNat DEF Attempt
    <3>2. \A i \in 1 .. MaxAttempts : key[i] \in Nat
      BY <1>0, <3>1
    <3>3. \A a \in Attempt : key[a] = r[a].rowid
      OBVIOUS
    <3> HIDE DEF key
    <3>4. \E a \in Attempt : \A b \in Attempt : key[b] <= key[a]
      BY <2>2, <3>1, <3>2, GreatestKey
    <3>5. QED BY <3>3, <3>4
  <2>3. QED BY <2>1, <2>2
<1>3. MaxRowid(r) = CHOOSE m \in K : top(m)
  BY DEF MaxRowid
<1> HIDE DEF K, top
<1>4. QED BY <1>1, <1>2, <1>3

\* The newest prompt figure is a figure or unknown.
LEMMA NewestPromptType ==
  ASSUME NEW r \in [Attempt -> SettlementRow]
  PROVE  NewestPrompt(r) \in OrNull(Nat)
<1> DEFINE done == InState(r, "settled")
           top(a) == \A b \in done : r[b].rowid <= r[a].rowid
<1>0. done \subseteq Attempt /\ MaxAttempts \in Nat /\ Attempt = 1 .. MaxAttempts
  BY MaxIdNat DEF InState, Attempt
<1>1. CASE done = {}
  BY <1>1 DEF NewestPrompt, OrNull
<1>2. CASE done # {}
  <2> DEFINE key == [a \in Attempt |-> r[a].rowid]
  <2>1. \A i \in 1 .. MaxAttempts : key[i] \in Nat
    BY <1>0 DEF SettlementRow
  <2>2. \A a \in Attempt : key[a] = r[a].rowid
    OBVIOUS
  <2> HIDE DEF key, done
  <2>3. \E a \in done : \A b \in done : key[b] <= key[a]
    BY <1>0, <1>2, <2>1, GreatestKey
  <2>4. \E a \in done : top(a)
    BY <1>0, <2>2, <2>3
  <2>5. NewestPrompt(r) = r[CHOOSE a \in done : top(a)].prompt
    BY <1>2 DEF NewestPrompt, done
  <2> HIDE DEF top
  <2>6. (CHOOSE a \in done : top(a)) \in Attempt
    BY <1>0, <2>4
  <2>7. QED BY <2>5, <2>6 DEF SettlementRow
<1>3. QED BY <1>1, <1>2

\* Sums of the figures of some of the rows.
LEMMA FiguresNat ==
  ASSUME NEW f, \A a \in Attempt : f[a] \in Nat
  PROVE  SumTo(f, MaxAttempts) \in Nat
<1>1. \A i \in 1 .. MaxAttempts : f[i] \in Nat
  BY DEF Attempt
<1>2. QED BY <1>1, MaxIdNat, SumNat

\* Totals recomputed from rows are totals.
LEMMA RecomputedType ==
  ASSUME NEW r \in [Attempt -> SettlementRow]
  PROVE  Recomputed(r) \in Totals
<1> DEFINE done == InState(r, "settled")
           f == [a \in Attempt |-> IF a \in done THEN Known(r[a].total) ELSE 0]
           g == [a \in Attempt |-> IF a \in done THEN Known(r[a].charged) ELSE 0]
<1>1. \A a \in Attempt : Known(r[a].total) \in Nat /\ Known(r[a].charged) \in Nat
  BY DEF SettlementRow, Known, OrNull, Null
<1>2. \A a \in Attempt : f[a] \in Nat /\ g[a] \in Nat
  BY <1>1
<1>3. Recomputed(r).tokens = SumTo(f, MaxAttempts) /\ Recomputed(r).units = SumTo(g, MaxAttempts)
  BY DEF Recomputed
<1> HIDE DEF f, g
<1>4. Recomputed(r).tokens \in Nat /\ Recomputed(r).units \in Nat
  BY <1>2, <1>3, FiguresNat
<1>5. /\ Cardinality(done) \in Nat
      /\ Cardinality({ a \in done : r[a].total = Null }) \in Nat
      /\ Cardinality({ a \in done : r[a].charged # Null }) \in Nat
      /\ Cardinality(InState(r, "dispatched")) \in Nat
  BY AttemptsCounted DEF InState
<1>6. MaxRowid(r) + 1 \in Nat /\ NewestPrompt(r) \in OrNull(Nat)
  BY MaxRowidType, NewestPromptType
<1>7. QED BY <1>4, <1>5, <1>6 DEF Recomputed, Totals

\* Totals a send's end was added to stay totals: no counter goes below zero.
LEMMA AddedTotalsType ==
  ASSUME NEW r \in [Attempt -> SettlementRow], NEW t \in Totals, NEW S \in SUBSET Attempt
  PROVE  AddedTotals(t, r, S) \in Totals
<1> DEFINE known == { a \in S : r[a].total # Null }
           charged == { a \in S : r[a].charged # Null }
           k == Cardinality(S)
           f == [a \in Attempt |-> IF a \in known THEN r[a].total ELSE 0]
           g == [a \in Attempt |-> IF a \in charged THEN r[a].charged ELSE 0]
           n == AddedTotals(t, r, S)
<1>1. \A a \in Attempt : f[a] \in Nat /\ g[a] \in Nat
  BY DEF SettlementRow, OrNull
<1>2. k \in Nat /\ Cardinality(known) \in Nat /\ Cardinality(known) <= k /\ Cardinality(charged) \in Nat
  BY AttemptsCounted
<1>3. /\ n.present = t.present /\ n.settled = t.settled + k
      /\ n.without = t.without + k - Cardinality(known)
      /\ n.tokens = t.tokens + SumTo(f, MaxAttempts)
      /\ n.charges = t.charges + Cardinality(charged)
      /\ n.units = t.units + SumTo(g, MaxAttempts)
      /\ n.latest \in {NewestPrompt(r), t.latest}
      /\ n.dispatched = (IF t.dispatched > k THEN t.dispatched - k ELSE 0)
      /\ n.next = t.next
  BY DEF AddedTotals
<1>4. n = [ present |-> n.present, settled |-> n.settled, without |-> n.without,
            tokens |-> n.tokens, charges |-> n.charges, units |-> n.units,
            latest |-> n.latest, dispatched |-> n.dispatched, next |-> n.next ]
  BY DEF AddedTotals
<1> HIDE DEF f, g, k, known, charged, n
<1>5. SumTo(f, MaxAttempts) \in Nat /\ SumTo(g, MaxAttempts) \in Nat
  BY <1>1, FiguresNat
<1>6. /\ t.present \in BOOLEAN /\ t.settled \in Nat /\ t.without \in Nat /\ t.tokens \in Nat
      /\ t.charges \in Nat /\ t.units \in Nat /\ t.latest \in OrNull(Nat)
      /\ t.dispatched \in Nat /\ t.next \in Nat
  BY DEF Totals
<1>7. /\ n.settled \in Nat /\ n.tokens \in Nat /\ n.charges \in Nat /\ n.units \in Nat
      /\ n.dispatched \in Nat /\ n.next \in Nat
  BY <1>2, <1>3, <1>5, <1>6
<1>8. n.without \in Nat
  <2> DEFINE w == t.without
             c == Cardinality(known)
             z == n.without
  <2>1. w \in Nat /\ c \in Nat /\ k \in Nat /\ c <= k /\ z = w + k - c
    BY <1>2, <1>3, <1>6
  <2> HIDE DEF w, c, z
  <2>2. z \in Nat
    BY <2>1
  <2>3. QED BY <2>2 DEF z
<1>9. n.latest \in OrNull(Nat) /\ n.present \in BOOLEAN
  BY <1>3, <1>6, NewestPromptType
<1>10. n \in Totals
  BY <1>4, <1>7, <1>8, <1>9 DEF Totals
<1>11. QED BY <1>10 DEF n

-----------------------------------------------------------------------------
(***************************************************************************)
(* The inductive invariant.  Core is what the transactions keep; Open is   *)
(* what the open of the store and the tickets of its process keep.         *)
(***************************************************************************)
ClosedScopes == \A s \in Scope : ~ budget[s].open => budget[s].limit = 0

Core ==
    /\ Tables(budget, resv) /\ Money(budget, resv)
    /\ rows \in [Attempt -> SettlementRow]
    /\ RowsMatchReservations
    /\ ClosedScopes

OpenTypes ==
    /\ totals \in Totals
    /\ work \in [Scope -> WorkRow]
    /\ tickets \in SUBSET Attempt /\ lost \in SUBSET Attempt
    /\ phase \in {"down", "elected", "recovered", "published", "serving"}
    /\ compat \in BOOLEAN
    /\ crashes \in 0 .. MaxCrashes

\* A process that does not serve yet holds no ticket; the reconciliation comes
\* before the commit exactly when this open found the schema compatible.
Recovery ==
    /\ phase # "serving" => tickets = {} /\ lost = {}
    /\ tickets \cap lost = {}
    /\ phase = "recovered" => compat /\ InState(rows, "dispatched") = {}
    /\ phase = "published" => ~ compat
    /\ NoOrphanSend

IInv == Core /\ OpenTypes /\ Recovery

\* Reserved, as an action, is such an edit of the two tables.
LEMMA ReservedStep ==
  ASSUME Tables(budget, resv), Money(budget, resv),
         NEW id \in Id, resv[id].state = "none", NEW S \in SUBSET Scope, NEW b \in Nat,
         \A s \in S : Fits(s, b), Reserved(id, S, b)
  PROVE  /\ Tables(budget', resv') /\ Money(budget', resv') /\ Kept(budget, budget')
         /\ resv'[id].state = "reserved" /\ resv'[id].bound = b
         /\ \A i \in Id : i # id => resv'[i] = resv[i]
<1>1. \A s \in S : budget[s].spent + budget[s].reserved + b <= budget[s].limit
  BY DEF Fits
<1>2. /\ resv' = [resv EXCEPT ![id] =
                    [state |-> "reserved", scopes |-> S, bound |-> b, charged |-> Null]]
      /\ budget' = [s \in Scope |-> IF s \in S THEN Moved(budget[s], 0, b) ELSE budget[s]]
  BY DEF Reserved
<1>3. Tables(budget', resv') /\ Money(budget', resv')
  <2>1. ReservedEdit(budget, resv, id, S, b, budget', resv')
    BY <1>1, <1>2 DEF ReservedEdit
  <2>2. QED BY <2>1, ReservedKeeps
<1>4. ASSUME NEW s \in Scope
      PROVE  /\ budget'[s].open = budget[s].open /\ budget'[s].limit = budget[s].limit
             /\ budget'[s].spent >= budget[s].spent
  BY <1>2 DEF Moved, Tables, BudgetRow
<1>5. Kept(budget, budget')
  BY <1>4 DEF Kept
<1>6. QED BY <1>2, <1>3, <1>5 DEF Tables

\* A reservation that ends spends r's delta and gives up its bound.
Resolves(id, st, c, d) ==
    /\ id \in Id /\ resv[id].state = "reserved"
    /\ st \in {"charged", "released"} /\ c \in OrNull(Nat)
    /\ c # Null => c <= resv[id].bound
    /\ d = (IF st = "charged" THEN Delta(Resolved(resv[id], st, c)) ELSE 0)
    /\ resv' = [resv EXCEPT ![id] = Resolved(resv[id], st, c)]
    /\ budget' = [s \in Scope |-> IF s \in resv[id].scopes
                                  THEN Moved(budget[s], d, - resv[id].bound) ELSE budget[s]]

\* A reservation that ends, as an action, is such an edit too.
LEMMA ResolvedStep ==
  ASSUME Tables(budget, resv), Money(budget, resv),
         NEW id, NEW st, NEW c, NEW d, Resolves(id, st, c, d)
  PROVE  /\ Tables(budget', resv') /\ Money(budget', resv') /\ Kept(budget, budget')
         /\ resv'[id] = Resolved(resv[id], st, c)
         /\ \A i \in Id : i # id => resv'[i] = resv[i]
<1> USE DEF Resolves
<1> DEFINE r == Resolved(resv[id], st, c)
<1>1. resv[id] \in ReservationRow /\ resv[id].scopes \in SUBSET Scope /\ resv[id].bound \in Nat
  BY DEF Tables, ReservationRow
<1>2. r = [state |-> st, scopes |-> resv[id].scopes, bound |-> resv[id].bound, charged |-> c]
  BY DEF Resolved
<1>3. /\ r \in ReservationRow /\ r.state = st /\ r.scopes = resv[id].scopes
      /\ r.bound = resv[id].bound /\ r.charged = c
  BY <1>1, <1>2 DEF ReservationRow
<1> HIDE DEF r
<1>4. d \in Nat /\ d <= r.bound /\ d = (IF r.state = "charged" THEN Delta(r) ELSE 0)
  <2>1. d = (IF r.state = "charged" THEN Delta(r) ELSE 0)
    BY <1>3 DEF r
  <2>2. Delta(r) \in Nat /\ Delta(r) <= r.bound
    BY <1>1, <1>3 DEF Delta, OrNull, Null
  <2>3. r.bound \in Nat
    BY <1>1, <1>3
  <2>4. QED BY <2>1, <2>2, <2>3
<1>5. ASSUME NEW s \in Scope
      PROVE  /\ budget'[s] \in [open : BOOLEAN, limit : Nat, spent : Int, reserved : Int]
             /\ budget'[s].open = budget[s].open /\ budget'[s].limit = budget[s].limit
             /\ budget'[s].spent = budget[s].spent + (IF s \in r.scopes THEN d ELSE 0)
             /\ budget'[s].reserved = budget[s].reserved - (IF s \in r.scopes THEN r.bound ELSE 0)
             /\ budget'[s].spent >= budget[s].spent
  <2>1. /\ budget[s] \in BudgetRow /\ budget[s].open \in BOOLEAN /\ budget[s].limit \in Nat
        /\ budget[s].spent \in Nat /\ budget[s].reserved \in Nat
    BY DEF Tables, BudgetRow
  <2>2. CASE s \in r.scopes
    <3>1. budget'[s] = [ open |-> budget[s].open, limit |-> budget[s].limit,
                         spent |-> budget[s].spent + d,
                         reserved |-> budget[s].reserved + (- r.bound) ]
      BY <1>3, <2>2 DEF Moved
    <3>2. QED BY <1>1, <1>3, <1>4, <2>1, <2>2, <3>1
  <2>3. CASE s \notin r.scopes
    <3>1. budget'[s] = budget[s]
      BY <1>3, <2>3
    <3>2. QED BY <2>1, <2>3, <3>1 DEF BudgetRow
  <2>4. QED BY <2>2, <2>3
<1>6. budget' \in [Scope -> [open : BOOLEAN, limit : Nat, spent : Int, reserved : Int]]
  BY <1>5
<1>7. resv' = [resv EXCEPT ![id] = r] /\ r.state \in {"charged", "released"}
  BY <1>3 DEF r
<1>8. \A s \in Scope :
            /\ budget'[s].limit = budget[s].limit
            /\ budget'[s].spent = budget[s].spent + (IF s \in r.scopes THEN d ELSE 0)
            /\ budget'[s].reserved = budget[s].reserved - (IF s \in r.scopes THEN r.bound ELSE 0)
  BY <1>5
<1>9. Tables(budget', resv') /\ Money(budget', resv')
  <2>1. ResolvedEdit(budget, resv, id, r, d, budget', resv')
    BY <1>3, <1>4, <1>6, <1>7, <1>8 DEF ResolvedEdit
  <2>2. QED BY <2>1, ResolvedKeeps
<1>10. Kept(budget, budget')
  BY <1>5 DEF Kept
<1>11. resv'[id] = r /\ \A i \in Id : i # id => resv'[i] = resv[i]
  BY <1>7 DEF Tables
<1>12. QED BY <1>9, <1>10, <1>11 DEF r

\* A send recorded: its bound at the open scopes, its row dispatched.
LEMMA SendStep ==
  ASSUME Core, NEW a \in Attempt, rows[a].state = "none", NEW S \in SUBSET Scope,
         NEW b \in Nat, \A s \in S : Fits(s, b),
         IF S = {} THEN UNCHANGED <<resv, budget>> ELSE Reserved(a, S, b),
         NEW rowid \in Nat, rows' = [rows EXCEPT ![a] = DispatchedRow(rowid, b)],
         work' = work
  PROVE  /\ Core' /\ Final
         /\ InState(rows', "dispatched") = InState(rows, "dispatched") \cup {a}
<1>0. /\ Tables(budget, resv) /\ Money(budget, resv) /\ rows \in [Attempt -> SettlementRow]
      /\ a \in Id /\ resv[a].state = "none"
  BY MaxIdNat DEF Core, RowsMatchReservations
<1> DEFINE new == DispatchedRow(rowid, b)
<1>1. new \in SettlementRow /\ new.state = "dispatched" /\ new.bound = b
  BY DEF DispatchedRow, SettlementRow, OrNull
<1> HIDE DEF new
<1>2. /\ rows' \in [Attempt -> SettlementRow] /\ rows'[a] = new
      /\ \A i \in Attempt : i # a => rows'[i] = rows[i]
  BY <1>0, <1>1 DEF new
<1>3. /\ Tables(budget', resv') /\ Money(budget', resv') /\ Kept(budget, budget')
      /\ \/ resv'[a].state = "none"
         \/ resv'[a].state = "reserved" /\ resv'[a].bound = b
      /\ \A i \in Id : i # a => resv'[i] = resv[i]
  <2>1. CASE S = {}
    <3>1. resv' = resv /\ budget' = budget
      BY <2>1
    <3>2. Kept(budget, budget')
      BY <1>0, <3>1 DEF Kept, Tables, BudgetRow
    <3>3. QED BY <1>0, <3>1, <3>2
  <2>2. CASE S # {}
    <3>1. Reserved(a, S, b)
      BY <2>2
    <3>2. QED BY <1>0, <3>1, ReservedStep
  <2>3. QED BY <2>1, <2>2
<1>4. RowsMatchReservations'
  BY <1>1, <1>2, <1>3, MaxIdNat DEF RowsMatchReservations, Core
<1>5. ClosedScopes'
  BY <1>3 DEF ClosedScopes, Core, Kept
<1>6. Final
  BY <1>0, <1>2, <1>3 DEF Final, Kept
<1>7. InState(rows', "dispatched") = InState(rows, "dispatched") \cup {a}
  BY <1>1, <1>2 DEF InState
<1>8. Core'
  BY <1>2, <1>3, <1>4, <1>5 DEF Core
<1>9. QED BY <1>6, <1>7, <1>8

\* A send ended: its row settled and its reservation, if any, charged.
LEMMA SettleStep ==
  ASSUME Core, NEW a \in Attempt, rows[a].state = "dispatched",
         NEW p \in OrNull(Nat), NEW t \in OrNull(Nat), NEW c, c = ChargeOf(a, t),
         rows' = [rows EXCEPT ![a] = SettledRow(rows[a], p, t, c)],
         IF resv[a].state = "none" THEN UNCHANGED <<resv, budget>>
         ELSE ChargeFits(a, c) /\ Charged(a, c),
         work' = work
  PROVE  /\ Core' /\ Final
         /\ InState(rows', "dispatched") = InState(rows, "dispatched") \ {a}
<1>0. /\ Tables(budget, resv) /\ Money(budget, resv) /\ rows \in [Attempt -> SettlementRow]
      /\ a \in Id /\ resv[a] \in ReservationRow /\ rows[a] \in SettlementRow
  BY MaxIdNat DEF Core, Tables
<1>1. rows[a].bound \in Nat /\ rows[a].rowid \in Nat
  BY <1>0 DEF SettlementRow
<1>2. c \in OrNull(Nat) /\ (resv[a].state = "none" <=> c = Null)
  BY <1>1 DEF ChargeOf, OrNull, Null
<1> DEFINE new == SettledRow(rows[a], p, t, c)
<1>3. new \in SettlementRow /\ new.state = "settled" /\ new.charged = c
  BY <1>1, <1>2 DEF SettledRow, SettlementRow
<1> HIDE DEF new
<1>4. /\ rows' \in [Attempt -> SettlementRow] /\ rows'[a] = new
      /\ \A i \in Attempt : i # a => rows'[i] = rows[i]
  BY <1>0, <1>3 DEF new
<1>5. /\ Tables(budget', resv') /\ Money(budget', resv') /\ Kept(budget, budget')
      /\ \/ resv'[a].state = "none" /\ c = Null
         \/ resv'[a].state = "charged" /\ Delta(resv'[a]) = c /\ resv[a].state = "reserved"
      /\ \A i \in Id : i # a => resv'[i] = resv[i]
      /\ resv[a].state \notin {"charged", "released"}
  <2>1. CASE resv[a].state = "none"
    <3>1. resv' = resv /\ budget' = budget
      BY <2>1
    <3>2. Kept(budget, budget')
      BY <1>0, <3>1 DEF Kept, Tables, BudgetRow
    <3>3. QED BY <1>0, <1>2, <2>1, <3>1, <3>2
  <2>2. CASE resv[a].state # "none"
    <3> DEFINE r == Resolved(resv[a], "charged", c)
               d == Delta(r)
    <3>1. ChargeFits(a, c) /\ Charged(a, c)
      BY <2>2
    <3>2. resv[a].state = "reserved" /\ (c # Null => c <= resv[a].bound)
      BY <3>1 DEF ChargeFits
    <3>3. /\ resv' = [resv EXCEPT ![a] = r]
          /\ budget' = [s \in Scope |-> IF s \in r.scopes
                                        THEN Moved(budget[s], Delta(r), - r.bound) ELSE budget[s]]
      BY <3>1 DEF Charged
    <3>4. r.scopes = resv[a].scopes /\ r.bound = resv[a].bound /\ r.charged = c /\ r.state = "charged"
      BY DEF Resolved
    <3> HIDE DEF r
    <3>5. budget' = [s \in Scope |-> IF s \in resv[a].scopes
                                     THEN Moved(budget[s], d, - resv[a].bound) ELSE budget[s]]
      BY <3>3, <3>4
    <3>6. /\ Tables(budget', resv') /\ Money(budget', resv') /\ Kept(budget, budget')
          /\ resv'[a] = r /\ \A i \in Id : i # a => resv'[i] = resv[i]
      <4>1. Resolves(a, "charged", c, d)
        BY <1>0, <1>2, <3>2, <3>3, <3>5 DEF Resolves, r
      <4>2. QED BY <1>0, <4>1, ResolvedStep DEF r
    <3>7. Delta(r) = c
      BY <1>2, <2>2, <3>4 DEF Delta
    <3>8. QED BY <3>2, <3>4, <3>6, <3>7
  <2>3. QED BY <2>1, <2>2
<1>6. RowsMatchReservations'
  BY <1>3, <1>4, <1>5, MaxIdNat DEF RowsMatchReservations, Core
<1>7. ClosedScopes'
  BY <1>5 DEF ClosedScopes, Core, Kept
<1>8. Final
  BY <1>0, <1>4, <1>5 DEF Final, Kept
<1>9. InState(rows', "dispatched") = InState(rows, "dispatched") \ {a}
  BY <1>3, <1>4 DEF InState
<1>10. Core'
  BY <1>4, <1>5, <1>6, <1>7 DEF Core
<1>11. QED BY <1>8, <1>9, <1>10

\* A direct reservation that changes touches no row.
LEMMA DirectStep ==
  ASSUME Core, NEW id \in Direct, rows' = rows, work' = work,
         Tables(budget', resv'), Money(budget', resv'), Kept(budget, budget'),
         \A i \in Id : i # id => resv'[i] = resv[i],
         resv[id].state \notin {"charged", "released"}
  PROVE  Core' /\ Final
<1>1. \A i \in Attempt : resv'[i] = resv[i]
  BY MaxIdNat DEF Direct
<1>2. RowsMatchReservations'
  BY <1>1 DEF RowsMatchReservations, Core
<1>3. ClosedScopes'
  BY DEF ClosedScopes, Core, Kept
<1>4. Final
  BY DEF Final, Kept
<1>5. QED BY <1>2, <1>3, <1>4 DEF Core

\* A scope that opens.
LEMMA OpenStep ==
  ASSUME Core, NEW sc \in Scope, ~ budget[sc].open, NEW l \in Nat, Opened(sc, l),
         UNCHANGED <<resv, rows>>,
         \A s \in Scope : work[s].state = "stopped" => work'[s] = work[s]
  PROVE  Core' /\ Final
<1>0. /\ Tables(budget, resv) /\ Money(budget, resv)
      /\ budget[sc].spent \in Nat /\ budget[sc].reserved \in Nat
      /\ budget[sc].limit = 0
  BY DEF Core, Tables, BudgetRow, ClosedScopes
<1>1. budget[sc].spent = 0 /\ budget[sc].reserved = 0
  BY <1>0 DEF Money
<1>2. budget' = [budget EXCEPT ![sc] = [open |-> TRUE, limit |-> l, spent |-> 0, reserved |-> 0]]
  BY DEF Opened
<1>3. Tables(budget', resv) /\ Money(budget', resv)
  BY <1>0, <1>1, <1>2, OpenedKeeps
<1>4. ASSUME NEW s \in Scope
      PROVE  /\ budget'[s].spent >= budget[s].spent
             /\ ~ budget'[s].open => budget'[s].limit = 0
  BY <1>0, <1>1, <1>2 DEF Tables, BudgetRow, Core, ClosedScopes
<1>5. ClosedScopes'
  BY <1>4 DEF ClosedScopes
<1>6. RowsMatchReservations'
  BY DEF RowsMatchReservations, Core
<1>7. Final
  BY <1>4 DEF Final
<1>8. QED BY <1>3, <1>5, <1>6, <1>7 DEF Core

\* The reconciliation settles every interrupted row.
LEMMA ReconcileStep ==
  ASSUME Core, totals \in Totals, ReconcileSends
  PROVE  /\ Core' /\ Final /\ totals' \in Totals
         /\ InState(rows', "dispatched") = {}
<1> DEFINE open == InState(rows, "dispatched")
           held == { a \in open : resv[a].state = "reserved" }
           new(a) == SettledRow(rows[a], Null, Null, IF a \in held THEN rows[a].bound ELSE Null)
<1>0. /\ Tables(budget, resv) /\ Money(budget, resv) /\ rows \in [Attempt -> SettlementRow]
      /\ resv \in [Id -> ReservationRow]
      /\ open \subseteq Attempt /\ held \subseteq open /\ held \in SUBSET Id
  BY MaxIdNat DEF Core, InState, Tables
<1>1. /\ rows' = [a \in Attempt |-> IF a \in open THEN new(a) ELSE rows[a]]
      /\ totals' = AddedTotals(totals, rows', open)
      /\ resv' = [i \in Id |-> IF i \in held THEN Resolved(resv[i], "charged", rows[i].bound)
                               ELSE resv[i]]
      /\ budget' = [s \in Scope |-> Moved(budget[s], Owed(held, s), - Owed(held, s))]
      /\ work' = work
  BY DEF ReconcileSends
<1>2. \A i \in held : resv[i].state = "reserved" /\ rows[i].bound = resv[i].bound
  BY <1>0 DEF Core, RowsMatchReservations, InState
<1>3. \A a \in open : rows[a].state = "dispatched"
  BY DEF InState
<1>4. \A a \in Attempt : rows[a].state = "dispatched" => a \in open
  BY DEF InState
<1>5. \A a \in open : a \notin held => resv[a].state = "none"
  BY <1>0, <1>3 DEF Core, RowsMatchReservations
<1>6. ASSUME NEW a \in open
      PROVE  /\ new(a) \in SettlementRow /\ new(a).state = "settled"
             /\ a \in held => new(a).charged = rows[a].bound
             /\ a \notin held => new(a).charged = Null
  <2>1. rows[a].bound \in Nat /\ rows[a].rowid \in Nat
    BY <1>0 DEF SettlementRow
  <2>2. CASE a \in held
    BY <2>1, <2>2 DEF SettledRow, SettlementRow, OrNull
  <2>3. CASE a \notin held
    BY <2>1, <2>3 DEF SettledRow, SettlementRow, OrNull
  <2>4. QED BY <2>2, <2>3
<1> HIDE DEF open, held, new
<1>7. Tables(budget', resv') /\ Money(budget', resv') /\ Kept(budget, budget')
  BY <1>0, <1>1, <1>2, ReconciledStep
<1>8. rows' \in [Attempt -> SettlementRow]
  BY <1>0, <1>1, <1>6
<1>9. ASSUME NEW a \in Attempt
      PROVE  /\ a \in open => rows'[a] = new(a)
             /\ a \notin open => rows'[a] = rows[a]
             /\ a \in held => /\ resv'[a].state = "charged"
                              /\ Delta(resv'[a]) = rows[a].bound
             /\ a \notin held => resv'[a] = resv[a]
  <2>1. a \in Id
    BY MaxIdNat
  <2>2. a \in held => resv'[a] = Resolved(resv[a], "charged", rows[a].bound)
    BY <1>1, <2>1
  <2>3. rows[a].bound \in Nat
    BY <1>0 DEF SettlementRow
  <2>4. Delta(Resolved(resv[a], "charged", rows[a].bound)) = rows[a].bound
    BY <2>3 DEF Delta, Resolved, Null
  <2>5. Resolved(resv[a], "charged", rows[a].bound).state = "charged"
    BY DEF Resolved
  <2>6. QED BY <1>1, <2>1, <2>2, <2>4, <2>5
<1>10. ASSUME NEW a \in Attempt
       PROVE  /\ rows'[a].state = "none" => resv'[a].state = "none"
              /\ rows'[a].state # "dispatched"
              /\ rows'[a].state = "settled"
                   => \/ resv'[a].state = "none" /\ rows'[a].charged = Null
                      \/ resv'[a].state = "charged" /\ rows'[a].charged = Delta(resv'[a])
  <2>1. CASE a \in held
    BY <1>0, <1>6, <1>9, <2>1
  <2>2. CASE a \in open /\ a \notin held
    BY <1>5, <1>6, <1>9, <2>2
  <2>3. CASE a \notin open
    <3>1. rows'[a] = rows[a] /\ resv'[a] = resv[a] /\ rows[a].state # "dispatched"
      BY <1>0, <1>4, <1>9, <2>3
    <3>2. QED BY <3>1 DEF Core, RowsMatchReservations
  <2>4. QED BY <2>1, <2>2, <2>3
<1>11. RowsMatchReservations' /\ InState(rows', "dispatched") = {}
  BY <1>10 DEF RowsMatchReservations, InState
<1>12. ClosedScopes'
  BY <1>7 DEF ClosedScopes, Core, Kept
<1>13. Final
  <2>1. \A a \in Attempt : rows[a].state = "settled" => rows'[a] = rows[a]
    BY <1>3, <1>9
  <2>2. \A i \in Id : resv[i].state \in {"charged", "released"} => resv'[i] = resv[i]
    BY <1>1, <1>2
  <2>3. QED BY <1>1, <1>7, <2>1, <2>2 DEF Final, Kept
<1>14. totals' \in Totals
  BY <1>0, <1>1, <1>8, AddedTotalsType
<1>15. QED BY <1>7, <1>8, <1>11, <1>12, <1>13, <1>14 DEF Core

\* A step that leaves the tables alone.
LEMMA IdleStep ==
  ASSUME Core, UNCHANGED <<budget, resv, rows>>,
         \A s \in Scope : work[s].state = "stopped" => work'[s] = work[s]
  PROVE  Core' /\ Final
<1>1. Core'
  BY DEF Core, Tables, Money, RowsMatchReservations, ClosedScopes
<1>2. \A s \in Scope : budget[s].spent \in Nat
  BY DEF Core, Tables, BudgetRow
<1>3. QED BY <1>1, <1>2 DEF Final

\* A new store satisfies the invariant.
LEMMA InitIInv == Init => IInv
<1> SUFFICES ASSUME Init PROVE IInv
  OBVIOUS
<1> USE DEF Init
<1>1. Tables(budget, resv)
  BY DEF Tables, BudgetRow, ReservationRow, OrNull
<1>2. ASSUME NEW s \in Scope
      PROVE  /\ budget[s].spent + budget[s].reserved <= budget[s].limit
             /\ budget[s].reserved = SumTo(Held(resv, s), MaxId)
             /\ budget[s].spent = SumTo(Spent(resv, s), MaxId)
             /\ ~ budget[s].open => budget[s].limit = 0
  <2> DEFINE f == Held(resv, s)
             g == Spent(resv, s)
  <2>1. \A i \in 1 .. MaxId : f[i] = 0 /\ g[i] = 0
    BY DEF Held, Spent, Id
  <2> HIDE DEF f, g
  <2>2. SumTo(f, MaxId) = 0 /\ SumTo(g, MaxId) = 0
    BY <2>1, MaxIdNat, SumZero
  <2>3. budget[s].spent = 0 /\ budget[s].reserved = 0 /\ budget[s].limit = 0
    OBVIOUS
  <2>4. QED BY <2>2, <2>3 DEF f, g
<1>3. Money(budget, resv) /\ ClosedScopes
  BY <1>2 DEF Money, ClosedScopes
<1>4. rows \in [Attempt -> SettlementRow] /\ RowsMatchReservations
  BY MaxIdNat DEF SettlementRow, OrNull, RowsMatchReservations
<1>5. OpenTypes
  <2>1. totals \in Totals
    BY DEF Totals, OrNull
  <2>2. work \in [Scope -> WorkRow]
    BY DEF WorkRow
  <2>3. crashes \in 0 .. MaxCrashes
    BY LedgerAssumption
  <2>4. QED BY <2>1, <2>2, <2>3 DEF OpenTypes
<1>6. Recovery
  BY DEF Recovery, NoOrphanSend
<1>7. QED BY <1>1, <1>3, <1>4, <1>5, <1>6 DEF IInv, Core

\* Every transaction, crash and startup step keeps the invariant, and changes
\* nothing that is final.
LEMMA NextIInv == IInv /\ [Next]_vars => IInv' /\ (Final \/ UNCHANGED vars)
<1> SUFFICES ASSUME IInv, [Next]_vars PROVE IInv' /\ (Final \/ UNCHANGED vars)
  OBVIOUS
<1>0. Core /\ OpenTypes /\ Recovery
  BY DEF IInv
<1>n. /\ Limits \subseteq Nat /\ Bounds \subseteq Nat /\ Sends \subseteq Nat
      /\ OrNull(Tokens) \subseteq OrNull(Nat)
  BY LedgerAssumption DEF OrNull
<1>t. Tables(budget, resv) /\ Money(budget, resv) /\ rows \in [Attempt -> SettlementRow]
  BY <1>0 DEF Core
\* The startup state of a step that keeps the phase, the rows and the tickets.
<1>s. ASSUME UNCHANGED <<rows, tickets, phase, compat, lost>>
      PROVE  Recovery'
  BY <1>0, <1>s DEF Recovery, NoOrphanSend
<1>1. ASSUME NEW s \in Scope, NEW l \in Limits, OpenBudget(s, l)
      PROVE  IInv' /\ Final
  <2>1. Core' /\ Final
    BY <1>0, <1>1, <1>n, OpenStep DEF OpenBudget
  <2>2. OpenTypes' /\ Recovery'
    BY <1>0, <1>1, <1>s DEF OpenBudget, OpenTypes
  <2>3. QED BY <2>1, <2>2 DEF IInv
<1>2. ASSUME NEW s \in Scope, NEW l \in Limits, NEW n \in Sends, OpenWorkBudget(s, l, n)
      PROVE  IInv' /\ Final
  <2>1. work' = [work EXCEPT ![s] = [state |-> "open", sends |-> n]] /\ work[s].state = "none"
    BY <1>2 DEF OpenWorkBudget
  <2>2. \A x \in Scope : work[x].state = "stopped" => work'[x] = work[x]
    BY <1>0, <2>1 DEF OpenTypes
  <2>3. Core' /\ Final
    BY <1>0, <1>2, <1>n, <2>2, OpenStep DEF OpenWorkBudget
  <2>4. work' \in [Scope -> WorkRow]
    BY <1>0, <1>n, <2>1 DEF OpenTypes, WorkRow
  <2>5. OpenTypes' /\ Recovery'
    BY <1>0, <1>2, <1>s, <2>4 DEF OpenWorkBudget, OpenTypes
  <2>6. QED BY <2>3, <2>5 DEF IInv
<1>3. ASSUME NEW s \in Scope, StopWorkBudget(s)
      PROVE  IInv' /\ Final
  <2>1. work' = [work EXCEPT ![s].state = "stopped"] /\ work[s].state = "open"
    BY <1>3 DEF StopWorkBudget
  <2>2. \A x \in Scope : work[x].state = "stopped" => work'[x] = work[x]
    BY <1>0, <2>1 DEF OpenTypes
  <2>3. work' \in [Scope -> WorkRow]
    BY <1>0, <2>1 DEF OpenTypes, WorkRow
  <2>4. Core' /\ Final
    BY <1>0, <1>3, <2>2, IdleStep DEF StopWorkBudget
  <2>5. OpenTypes' /\ Recovery'
    BY <1>0, <1>3, <1>s, <2>3 DEF StopWorkBudget, OpenTypes
  <2>6. QED BY <2>4, <2>5 DEF IInv
<1>4. ASSUME NEW i \in Direct, NEW S \in SUBSET Scope, NEW b \in Bounds, BudgetReserve(i, S, b)
      PROVE  IInv' /\ Final
  <2>1. /\ i \in Id /\ b \in Nat /\ resv[i].state = "none" /\ Reserved(i, S, b)
        /\ \A s \in S : Fits(s, b)
    BY <1>4, <1>n DEF Direct, BudgetReserve
  <2>2. /\ Tables(budget', resv') /\ Money(budget', resv') /\ Kept(budget, budget')
        /\ \A j \in Id : j # i => resv'[j] = resv[j]
    BY <1>t, <2>1, ReservedStep
  <2>3. Core' /\ Final
    BY <1>0, <1>4, <2>1, <2>2, DirectStep DEF BudgetReserve
  <2>4. OpenTypes' /\ Recovery'
    BY <1>0, <1>4, <1>s DEF BudgetReserve, OpenTypes
  <2>5. QED BY <2>3, <2>4 DEF IInv
<1>5. ASSUME NEW i \in Direct, NEW c \in OrNull(Tokens), BudgetCharge(i, c)
      PROVE  IInv' /\ Final
  <2> DEFINE d == Delta(Resolved(resv[i], "charged", c))
  <2>1. /\ i \in Id /\ c \in OrNull(Nat) /\ resv[i].state = "reserved"
        /\ c # Null => c <= resv[i].bound
    BY <1>5, <1>n DEF Direct, BudgetCharge, ChargeFits
  <2>2. Resolves(i, "charged", c, d)
    BY <1>5, <2>1 DEF Resolves, BudgetCharge, Charged, Resolved
  <2>3. /\ Tables(budget', resv') /\ Money(budget', resv') /\ Kept(budget, budget')
        /\ \A j \in Id : j # i => resv'[j] = resv[j]
    BY <1>t, <2>2, ResolvedStep
  <2>4. Core' /\ Final
    BY <1>0, <1>5, <2>1, <2>3, DirectStep DEF BudgetCharge
  <2>5. OpenTypes' /\ Recovery'
    BY <1>0, <1>5, <1>s DEF BudgetCharge, OpenTypes
  <2>6. QED BY <2>4, <2>5 DEF IInv
<1>6. ASSUME NEW i \in Direct, BudgetRelease(i)
      PROVE  IInv' /\ Final
  <2>1. i \in Id /\ resv[i].state = "reserved"
    BY <1>6 DEF Direct, BudgetRelease
  <2>2. Resolves(i, "released", Null, 0)
    BY <1>6, <2>1 DEF Resolves, BudgetRelease, OrNull
  <2>3. /\ Tables(budget', resv') /\ Money(budget', resv') /\ Kept(budget, budget')
        /\ \A j \in Id : j # i => resv'[j] = resv[j]
    BY <1>t, <2>2, ResolvedStep
  <2>4. Core' /\ Final
    BY <1>0, <1>6, <2>1, <2>3, DirectStep DEF BudgetRelease
  <2>5. OpenTypes' /\ Recovery'
    BY <1>0, <1>6, <1>s DEF BudgetRelease, OpenTypes
  <2>6. QED BY <2>4, <2>5 DEF IInv
<1>7. ASSUME NEW a \in Attempt, NEW S \in SUBSET Scope, NEW b \in Bounds, BeginSend(a, S, b)
      PROVE  IInv' /\ Final
  <2> DEFINE open == { s \in S : budget[s].open }
             rowid == NextRowid(rows, totals)
             mid == [totals EXCEPT !.next = rowid + 1]
  <2>1. /\ rows[a].state = "none" /\ \A s \in open : Fits(s, b)
        /\ IF open = {} THEN UNCHANGED <<resv, budget>> ELSE Reserved(a, open, b)
        /\ rows' = [rows EXCEPT ![a] = DispatchedRow(rowid, b)]
        /\ totals' = [totals EXCEPT !.next = rowid + 1, !.dispatched = @ + 1]
        /\ tickets' = tickets \cup {a} /\ phase = "serving"
        /\ UNCHANGED <<work, phase, compat, crashes, lost>>
    BY <1>7 DEF BeginSend, Fresh
  <2>2. totals \in Totals /\ totals.next \in Nat /\ totals.dispatched \in Nat
    BY <1>0 DEF OpenTypes, Totals
  <2>3. rowid \in Nat
    BY <1>t, <2>2, MaxRowidType DEF NextRowid
  <2>4. open \in SUBSET Scope /\ b \in Nat
    BY <1>n
  <2> HIDE DEF open, rowid
  <2>5. /\ Core' /\ Final
        /\ InState(rows', "dispatched") = InState(rows, "dispatched") \cup {a}
    BY <1>0, <2>1, <2>3, <2>4, SendStep
  <2>6. totals' \in Totals
    <3>1. mid \in Totals /\ mid.dispatched = totals.dispatched
      BY <2>2, <2>3 DEF Totals
    <3>2. totals' = [mid EXCEPT !.dispatched = totals.dispatched + 1]
      BY <2>1
    <3> HIDE DEF mid
    <3>3. QED BY <2>2, <3>1, <3>2 DEF Totals
  <2>7. OpenTypes'
    BY <1>0, <2>1, <2>6 DEF OpenTypes
  <2>8. Recovery'
    <3>1. InState(rows, "dispatched") = tickets \cup lost /\ tickets \cap lost = {}
      BY <1>0, <2>1 DEF Recovery, NoOrphanSend
    <3>2. a \notin InState(rows, "dispatched")
      BY <2>1 DEF InState
    <3>3. /\ InState(rows', "dispatched") = tickets' \cup lost'
          /\ tickets' \cap lost' = {} /\ phase' = "serving"
      BY <2>1, <2>5, <3>1, <3>2
    <3>4. QED BY <3>3 DEF Recovery, NoOrphanSend
  <2>9. QED BY <2>5, <2>7, <2>8 DEF IInv
<1>8. ASSUME NEW a \in Attempt, NEW p \in OrNull(Tokens), NEW t \in OrNull(Tokens),
             FinishSend(a, p, t)
      PROVE  IInv' /\ Final
  <2> DEFINE c == ChargeOf(a, t)
  <2>1. /\ rows[a].state = "dispatched" /\ phase = "serving"
        /\ rows' = [rows EXCEPT ![a] = SettledRow(rows[a], p, t, c)]
        /\ totals' = AddedTotals(totals, rows', {a})
        /\ IF resv[a].state = "none" THEN UNCHANGED <<resv, budget>>
           ELSE ChargeFits(a, c) /\ Charged(a, c)
        /\ tickets' = tickets \ {a}
        /\ UNCHANGED <<work, phase, compat, crashes, lost>>
    BY <1>8 DEF FinishSend
  <2>2. p \in OrNull(Nat) /\ t \in OrNull(Nat) /\ c = ChargeOf(a, t)
    BY <1>n
  <2> HIDE DEF c
  <2>3. /\ Core' /\ Final
        /\ InState(rows', "dispatched") = InState(rows, "dispatched") \ {a}
    BY <1>0, <2>1, <2>2, SettleStep
  <2>4. rows' \in [Attempt -> SettlementRow] /\ totals \in Totals /\ {a} \in SUBSET Attempt
    BY <1>0, <2>3 DEF Core, OpenTypes
  <2>5. totals' \in Totals
    BY <2>1, <2>4, AddedTotalsType
  <2>6. OpenTypes'
    BY <1>0, <2>1, <2>5 DEF OpenTypes
  <2>7. Recovery'
    <3>1. InState(rows, "dispatched") = tickets \cup lost /\ tickets \cap lost = {}
      BY <1>0, <2>1 DEF Recovery, NoOrphanSend
    <3>2. a \in tickets
      BY <1>8 DEF FinishSend
    <3>3. /\ InState(rows', "dispatched") = tickets' \cup lost'
          /\ tickets' \cap lost' = {} /\ phase' = "serving"
      BY <2>1, <2>3, <3>1, <3>2
    <3>4. QED BY <3>3 DEF Recovery, NoOrphanSend
  <2>8. QED BY <2>3, <2>6, <2>7 DEF IInv
<1>9. CASE Crash
  <2>1. Core' /\ Final
    BY <1>0, <1>9, IdleStep DEF Crash
  <2>2. crashes' \in 0 .. MaxCrashes
    BY <1>0, <1>9, LedgerAssumption DEF Crash, OpenTypes
  <2>3. OpenTypes' /\ Recovery'
    BY <1>0, <1>9, <2>2 DEF Crash, OpenTypes, Recovery, NoOrphanSend
  <2>4. QED BY <2>1, <2>3 DEF IInv
<1>10. CASE Elect
  <2>1. Core' /\ Final
    BY <1>0, <1>10, IdleStep DEF Elect
  <2>2. compat' \in BOOLEAN
    BY <1>0, <1>10 DEF Elect, OpenTypes, Totals
  <2>3. OpenTypes' /\ Recovery'
    BY <1>0, <1>10, <2>2 DEF Elect, OpenTypes, Recovery, NoOrphanSend
  <2>4. QED BY <2>1, <2>3 DEF IInv
<1>11. CASE ReconcileSends
  <2>1. Core' /\ Final /\ totals' \in Totals /\ InState(rows', "dispatched") = {}
    BY <1>0, <1>11, ReconcileStep DEF OpenTypes
  <2>2. /\ phase = (IF compat THEN "elected" ELSE "published")
        /\ phase' = (IF compat THEN "recovered" ELSE "serving")
        /\ UNCHANGED <<work, tickets, compat, crashes, lost>>
    BY <1>11 DEF ReconcileSends
  <2>3. tickets = {} /\ lost = {}
    BY <1>0, <2>2 DEF Recovery
  <2>4. OpenTypes' /\ Recovery'
    BY <1>0, <2>1, <2>2, <2>3 DEF OpenTypes, Recovery, NoOrphanSend
  <2>5. QED BY <2>1, <2>4 DEF IInv
<1>12. CASE PublishGeneration
  <2>1. Core' /\ Final
    BY <1>0, <1>12, IdleStep DEF PublishGeneration
  <2>2. totals' \in Totals
    BY <1>0, <1>t, <1>12, RecomputedType DEF PublishGeneration, OpenTypes
  <2>3. /\ phase = (IF compat THEN "recovered" ELSE "elected")
        /\ phase' = (IF compat THEN "serving" ELSE "published")
        /\ UNCHANGED <<rows, work, tickets, compat, crashes, lost>>
    BY <1>12 DEF PublishGeneration
  <2>4. OpenTypes' /\ Recovery'
    BY <1>0, <2>2, <2>3 DEF OpenTypes, Recovery, NoOrphanSend
  <2>5. QED BY <2>1, <2>4 DEF IInv
<1>13. ASSUME NEW a \in Attempt, NEW S \in SUBSET Scope, NEW b \in Bounds, ForeignSend(a, S, b)
       PROVE  IInv' /\ Final
  <2> DEFINE open == { s \in S : budget[s].open }
             rowid == MaxRowid(rows) + 1
  <2>1. /\ rows[a].state = "none" /\ \A s \in open : Fits(s, b)
        /\ IF open = {} THEN UNCHANGED <<resv, budget>> ELSE Reserved(a, open, b)
        /\ rows' = [rows EXCEPT ![a] = DispatchedRow(rowid, b)]
        /\ phase = "down"
        /\ UNCHANGED <<totals, work, tickets, phase, compat, crashes, lost>>
    BY <1>13 DEF ForeignSend, Fresh
  <2>2. rowid \in Nat
    BY <1>t, MaxRowidType
  <2>3. open \in SUBSET Scope /\ b \in Nat
    BY <1>n
  <2> HIDE DEF open, rowid
  <2>4. Core' /\ Final
    BY <1>0, <2>1, <2>2, <2>3, SendStep
  <2>5. OpenTypes' /\ Recovery'
    BY <1>0, <2>1 DEF OpenTypes, Recovery, NoOrphanSend
  <2>6. QED BY <2>4, <2>5 DEF IInv
<1>14. ASSUME NEW a \in Attempt, NEW p \in OrNull(Tokens), NEW t \in OrNull(Tokens),
              ForeignSettle(a, p, t)
       PROVE  IInv' /\ Final
  <2> DEFINE c == ChargeOf(a, t)
  <2>1. /\ rows[a].state = "dispatched" /\ phase = "down"
        /\ rows' = [rows EXCEPT ![a] = SettledRow(rows[a], p, t, c)]
        /\ IF resv[a].state = "none" THEN UNCHANGED <<resv, budget>>
           ELSE ChargeFits(a, c) /\ Charged(a, c)
        /\ UNCHANGED <<totals, work, tickets, phase, compat, crashes, lost>>
    BY <1>14 DEF ForeignSettle
  <2>2. p \in OrNull(Nat) /\ t \in OrNull(Nat) /\ c = ChargeOf(a, t)
    BY <1>n
  <2> HIDE DEF c
  <2>3. Core' /\ Final
    BY <1>0, <2>1, <2>2, SettleStep
  <2>4. OpenTypes' /\ Recovery'
    BY <1>0, <2>1 DEF OpenTypes, Recovery, NoOrphanSend
  <2>5. QED BY <2>3, <2>4 DEF IInv
<1>15. ASSUME NEW a \in Attempt, FinishLost(a)
       PROVE  IInv' /\ Final
  <2>1. Core' /\ Final
    BY <1>0, <1>15, IdleStep DEF FinishLost
  <2>2. OpenTypes' /\ Recovery'
    BY <1>0, <1>15 DEF FinishLost, OpenTypes, Recovery, NoOrphanSend
  <2>3. QED BY <2>1, <2>2 DEF IInv
<1>16. CASE UNCHANGED vars
  <2>1. UNCHANGED <<budget, resv, rows, totals, work, tickets, phase, compat, crashes, lost>>
    BY <1>16 DEF vars
  <2>2. Core'
    BY <1>0, <2>1, IdleStep
  <2>3. OpenTypes' /\ Recovery'
    BY <1>0, <2>1 DEF OpenTypes, Recovery, NoOrphanSend
  <2>4. QED BY <1>16, <2>2, <2>3 DEF IInv
<1>17. QED BY <1>1, <1>2, <1>3, <1>4, <1>5, <1>6, <1>7, <1>8, <1>9, <1>10, <1>11, <1>12,
             <1>13, <1>14, <1>15, <1>16 DEF Next, Startup

-----------------------------------------------------------------------------
(***************************************************************************)
(* The theorems.                                                           *)
(***************************************************************************)

\* The inductive invariant holds throughout.
THEOREM LedgerInvariance == Spec => []IInv
<1>1. Init => IInv
  BY InitIInv
<1>2. IInv /\ [Next]_vars => IInv'
  BY NextIInv
<1>3. QED BY <1>1, <1>2, PTL DEF Spec

\* Every row stays a row of its table: no transaction of state.rs, no crash and
\* no reconciliation takes a budget counter or a total below zero.
THEOREM LedgerTypeCorrect == Spec => []TypeOK
<1>1. IInv => TypeOK
  BY DEF IInv, Core, Tables, OpenTypes, TypeOK
<1>2. QED BY <1>1, LedgerInvariance, PTL

\* INV-022: no scope is ever committed past its limit, for every set of scopes
\* and every overlap of sends.
THEOREM BudgetSafe == Spec => []BudgetHeld
<1>1. IInv => BudgetHeld
  BY DEF IInv, Core, Money, BudgetHeld
<1>2. QED BY <1>1, LedgerInvariance, PTL

\* The spent and reserved counters of budget_scopes are exactly what the
\* reservations add up to.
THEOREM CountersSafe == Spec => []CountersExact
<1>1. IInv => CountersExact
  BY DEF IInv, Core, Money, CountersExact
<1>2. QED BY <1>1, LedgerInvariance, PTL

\* A settlement row and its reservation move together, crashes included.
THEOREM RowsSafe == Spec => []RowsMatchReservations
<1>1. IInv => RowsMatchReservations
  BY DEF IInv, Core
<1>2. QED BY <1>1, LedgerInvariance, PTL

\* HZN-16-11: a runtime that serves has reconciled every interrupted send.
THEOREM OrphanSafe == Spec => []NoOrphanSend
<1>1. IInv => NoOrphanSend
  BY DEF IInv, Recovery
<1>2. QED BY <1>1, LedgerInvariance, PTL

\* Settled rows, resolved reservations and stopped workers never change, and
\* no scope gives back what it spent.
THEOREM FinalSafe == Spec => SettledIsFinal
<1>1. IInv /\ [Next]_vars => [Final]_vars
  BY NextIInv
<1>2. QED BY <1>1, LedgerInvariance, PTL DEF Spec, SettledIsFinal

-----------------------------------------------------------------------------
(***************************************************************************)
(* The running totals.  A store that another build wrote is recognised by  *)
(* a rowid past the counter or a dispatched row too few; where neither     *)
(* shows, the totals are those the rows add up to.                         *)
(***************************************************************************)
Taken(r) == { a \in Attempt : r[a].state # "none" }

\* Rows that were taken have rowids of their own, the others none.
Numbered(r) ==
    /\ \A a \in Taken(r) : r[a].rowid # 0
    /\ \A a \in Attempt : a \notin Taken(r) => r[a].rowid = 0
    /\ \A a, b \in Taken(r) : r[a].rowid = r[b].rowid => a = b

\* The totals this open has repaired or found good.
Repaired == phase \in {"recovered", "published", "serving"} \/ (phase = "elected" /\ compat)

Pendings(r) == Cardinality(InState(r, "dispatched"))

\* Totals t over the rows r: the counter is never past the rows, and where
\* neither it nor the number of dispatched rows falls short, t is exact.
Sound(r, t) ==
    /\ Numbered(r)
    /\ t.next <= MaxRowid(r) + 1
    /\ t.present => t.next >= 1
    /\ t.present /\ t.next = MaxRowid(r) + 1 =>
        /\ t.dispatched >= Pendings(r)
        /\ t.dispatched = Pendings(r) => t = Recomputed(r)

TotalsInv == Sound(rows, totals) /\ (Repaired => totals = Recomputed(rows))

\* MAX(rowid) bounds every rowid, and is one of them or 0.
LEMMA MaxRowidIs ==
  ASSUME NEW r \in [Attempt -> SettlementRow]
  PROVE  /\ MaxRowid(r) \in Nat
         /\ \A a \in Attempt : r[a].rowid <= MaxRowid(r)
         /\ MaxRowid(r) = 0 \/ \E a \in Attempt : r[a].rowid = MaxRowid(r)
<1> DEFINE K == {0} \cup { r[a].rowid : a \in Attempt }
           top(m) == \A a \in Attempt : r[a].rowid <= m
<1>0. \A a \in Attempt : r[a].rowid \in Nat
  BY DEF SettlementRow
<1>1. \E m \in K : top(m)
  <2>1. CASE Attempt = {}
    BY <2>1
  <2>2. CASE Attempt # {}
    <3> DEFINE key == [a \in Attempt |-> r[a].rowid]
    <3>1. MaxAttempts \in Nat /\ Attempt = 1 .. MaxAttempts
      BY MaxIdNat DEF Attempt
    <3>2. \A i \in 1 .. MaxAttempts : key[i] \in Nat
      BY <1>0, <3>1
    <3>3. \A a \in Attempt : key[a] = r[a].rowid
      OBVIOUS
    <3> HIDE DEF key
    <3>4. \E a \in Attempt : \A b \in Attempt : key[b] <= key[a]
      BY <2>2, <3>1, <3>2, GreatestKey
    <3>5. QED BY <3>3, <3>4
  <2>3. QED BY <2>1, <2>2
<1>2. MaxRowid(r) = CHOOSE m \in K : top(m)
  BY DEF MaxRowid
<1>3. MaxRowid(r) \in K /\ top(MaxRowid(r))
  BY <1>1, <1>2
<1>4. QED BY <1>0, <1>3

\* It is the only such number.
LEMMA MaxRowidOf ==
  ASSUME NEW r \in [Attempt -> SettlementRow], NEW m \in Nat,
         \A a \in Attempt : r[a].rowid <= m,
         m = 0 \/ \E a \in Attempt : r[a].rowid = m
  PROVE  MaxRowid(r) = m
<1>1. /\ MaxRowid(r) \in Nat
      /\ \A a \in Attempt : r[a].rowid <= MaxRowid(r)
      /\ MaxRowid(r) = 0 \/ \E a \in Attempt : r[a].rowid = MaxRowid(r)
  BY MaxRowidIs
<1>2. m <= MaxRowid(r) /\ MaxRowid(r) <= m
  BY <1>1
<1>3. QED BY <1>1, <1>2

\* The newest prompt figure is that of the settled row with the greatest rowid.
LEMMA NewestPromptOf ==
  ASSUME NEW r \in [Attempt -> SettlementRow], Numbered(r),
         NEW m \in InState(r, "settled"), \A b \in InState(r, "settled") : r[b].rowid <= r[m].rowid
  PROVE  NewestPrompt(r) = r[m].prompt
<1> DEFINE done == InState(r, "settled")
           top(a) == \A b \in done : r[b].rowid <= r[a].rowid
           c == CHOOSE a \in done : top(a)
<1>1. NewestPrompt(r) = r[c].prompt
  BY DEF NewestPrompt
<1>2. \A a \in done : a \in Taken(r) /\ r[a].rowid \in Nat
  BY DEF InState, Taken, SettlementRow
<1>3. m \in done /\ top(m)
  OBVIOUS
<1>4. c \in done /\ top(c)
  BY <1>3
<1>5. r[c].rowid = r[m].rowid
  BY <1>2, <1>3, <1>4
<1>6. c = m
  BY <1>2, <1>3, <1>4, <1>5 DEF Numbered
<1>7. QED BY <1>1, <1>6

\* A settled row with the greatest rowid, where there is one.
LEMMA NewestSettled ==
  ASSUME NEW r \in [Attempt -> SettlementRow], NEW D, D \subseteq Attempt, D # {}
  PROVE  \E m \in D : \A b \in D : r[b].rowid <= r[m].rowid
<1> DEFINE key == [a \in Attempt |-> r[a].rowid]
<1>1. MaxAttempts \in Nat /\ Attempt = 1 .. MaxAttempts
  BY MaxIdNat DEF Attempt
<1>2. \A i \in 1 .. MaxAttempts : key[i] \in Nat
  BY <1>1 DEF SettlementRow
<1>3. \A a \in Attempt : key[a] = r[a].rowid
  OBVIOUS
<1> HIDE DEF key
<1>4. \E a \in D : \A b \in D : key[b] <= key[a]
  BY <1>1, <1>2, GreatestKey
<1>5. QED BY <1>3, <1>4

\* Figures a reader finds in the totals of rows.
LEMMA RecomputedFields ==
  ASSUME NEW r
  PROVE  /\ Recomputed(r).next = MaxRowid(r) + 1
         /\ Recomputed(r).dispatched = Pendings(r)
         /\ Recomputed(r).present
BY DEF Recomputed, Pendings

-----------------------------------------------------------------------------
(* A row that is sent, and rows that settle.                                *)

\* begin_send: the row of the attempt a, under the next rowid.
SentEdit(r, a, b, r2) ==
    /\ r \in [Attempt -> SettlementRow] /\ Numbered(r)
    /\ a \in Attempt /\ r[a].state = "none" /\ b \in Nat
    /\ r2 = [r EXCEPT ![a] = DispatchedRow(MaxRowid(r) + 1, b)]

\* The counter moves, and one more row is dispatched.
LEMMA SentTotals ==
  ASSUME NEW r, NEW a, NEW b, NEW r2, SentEdit(r, a, b, r2)
  PROVE  /\ r2 \in [Attempt -> SettlementRow] /\ Numbered(r2)
         /\ MaxRowid(r2) = MaxRowid(r) + 1
         /\ Recomputed(r2) = [[Recomputed(r) EXCEPT !.next = MaxRowid(r) + 2]
                                EXCEPT !.dispatched = Pendings(r) + 1]
<1> USE DEF SentEdit
<1> DEFINE m == MaxRowid(r)
           n == m + 1
           x == DispatchedRow(n, b)
           D == InState(r, "settled")
           D2 == InState(r2, "settled")
<1>1. m \in Nat /\ \A i \in Attempt : r[i].rowid <= m /\ r[i].rowid \in Nat
  BY MaxRowidIs DEF SettlementRow
<1>2. x \in SettlementRow /\ x.rowid = n /\ x.state = "dispatched"
  BY <1>1 DEF SettlementRow, DispatchedRow, OrNull
<1>3. r2[a] = x /\ \A i \in Attempt : i # a => r2[i] = r[i]
  OBVIOUS
<1>4. r2 \in [Attempt -> SettlementRow]
  BY <1>2
<1> HIDE DEF x
<1>5. MaxRowid(r2) = n
  <2>1. \A i \in Attempt : r2[i].rowid <= n
    BY <1>1, <1>2, <1>3
  <2>2. n \in Nat /\ r2[a].rowid = n
    BY <1>1, <1>2, <1>3
  <2> HIDE DEF m, n
  <2>3. QED BY <1>4, <2>1, <2>2, MaxRowidOf
<1>6. Taken(r2) = Taken(r) \cup {a} /\ a \notin Taken(r)
  BY <1>2, <1>3 DEF Taken
<1>7. Numbered(r2)
  <2>1. n # 0 /\ \A i \in Attempt : r[i].rowid # n
    BY <1>1
  <2> HIDE DEF m, n
  <2>2. r2[a].rowid = n /\ \A i \in Taken(r) : i \in Attempt /\ r2[i] = r[i]
    BY <1>2, <1>3, <1>6 DEF Taken
  <2>3. QED BY <1>3, <1>6, <2>1, <2>2 DEF Numbered
<1>8. D2 = D /\ \A i \in D : i \in Attempt /\ i # a /\ r2[i] = r[i]
  BY <1>2, <1>3 DEF InState
<1>9. Pendings(r2) = Pendings(r) + 1
  <2> DEFINE E == InState(r, "dispatched")
  <2>1. E \subseteq Attempt /\ a \notin E
    BY DEF InState
  <2>2. InState(r2, "dispatched") = E \cup {a}
    BY <1>2, <1>3 DEF InState
  <2> HIDE DEF E
  <2>3. IsFiniteSet(E)
    BY <2>1, AttemptsCounted
  <2>4. Cardinality(E \cup {a}) = Cardinality(E) + 1
    BY <2>1, <2>3, FS_AddElement
  <2>5. QED BY <2>2, <2>4 DEF Pendings, E
<1>10. NewestPrompt(r2) = NewestPrompt(r)
  <2>1. CASE D = {}
    BY <1>8, <2>1 DEF NewestPrompt
  <2>2. CASE D # {}
    <3>1. PICK c \in D : \A i \in D : r[i].rowid <= r[c].rowid
      <4>1. D \subseteq Attempt
        BY DEF InState
      <4>2. QED BY <2>2, <4>1, NewestSettled
    <3>2. NewestPrompt(r) = r[c].prompt
      BY <3>1, NewestPromptOf
    <3>3. c \in D2 /\ \A i \in D2 : r2[i].rowid <= r2[c].rowid
      BY <1>8, <3>1
    <3>4. NewestPrompt(r2) = r2[c].prompt
      BY <1>4, <1>7, <3>3, NewestPromptOf
    <3>5. QED BY <1>8, <3>2, <3>4
  <2>3. QED BY <2>1, <2>2
<1>11. /\ { i \in D2 : r2[i].total = Null } = { i \in D : r[i].total = Null }
       /\ { i \in D2 : r2[i].charged # Null } = { i \in D : r[i].charged # Null }
       /\ [i \in Attempt |-> IF i \in D2 THEN Known(r2[i].total) ELSE 0]
            = [i \in Attempt |-> IF i \in D THEN Known(r[i].total) ELSE 0]
       /\ [i \in Attempt |-> IF i \in D2 THEN Known(r2[i].charged) ELSE 0]
            = [i \in Attempt |-> IF i \in D THEN Known(r[i].charged) ELSE 0]
  BY <1>8
<1>12. /\ Recomputed(r2).settled = Recomputed(r).settled
       /\ Recomputed(r2).without = Recomputed(r).without
       /\ Recomputed(r2).tokens = Recomputed(r).tokens
       /\ Recomputed(r2).charges = Recomputed(r).charges
       /\ Recomputed(r2).units = Recomputed(r).units
       /\ Recomputed(r2).latest = Recomputed(r).latest
       /\ Recomputed(r2).present /\ Recomputed(r).present
       /\ Recomputed(r2).dispatched = Pendings(r2)
       /\ Recomputed(r2).next = MaxRowid(r2) + 1
  BY <1>8, <1>10, <1>11 DEF Recomputed, Pendings, D, D2
<1>13. Recomputed(r) \in Totals /\ Recomputed(r2) \in Totals
  BY <1>4, RecomputedType
<1>14. MaxRowid(r2) + 1 = MaxRowid(r) + 2
  BY <1>1, <1>5
<1> HIDE DEF D, D2, m, n
<1>15. Recomputed(r2) = [[Recomputed(r) EXCEPT !.next = MaxRowid(r) + 2]
                            EXCEPT !.dispatched = Pendings(r) + 1]
  BY <1>9, <1>12, <1>13, <1>14 DEF Totals
<1>16. QED BY <1>4, <1>5, <1>7, <1>15 DEF m, n

\* Sizes of disjoint sets of attempts.
LEMMA UnionCounted ==
  ASSUME NEW A, NEW B, A \subseteq Attempt, B \subseteq Attempt, A \cap B = {}
  PROVE  /\ Cardinality(A) \in Nat /\ Cardinality(B) \in Nat
         /\ Cardinality(A \cup B) = Cardinality(A) + Cardinality(B)
<1>1. /\ IsFiniteSet(A) /\ IsFiniteSet(B)
      /\ Cardinality(A) \in Nat /\ Cardinality(B) \in Nat
  BY AttemptsCounted
<1>2. Cardinality(A \cup B) = Cardinality(A) + Cardinality(B) - Cardinality(A \cap B)
  BY <1>1, FS_Union
<1>3. Cardinality(A \cap B) = 0
  BY FS_EmptySet
<1>4. QED BY <1>1, <1>2, <1>3

\* finish_send and reconcile_sends: the rows S settle under their rowids.
SettledEdit(r, S, r2) ==
    /\ r \in [Attempt -> SettlementRow] /\ r2 \in [Attempt -> SettlementRow]
    /\ Numbered(r)
    /\ S \subseteq InState(r, "dispatched")
    /\ \A a \in S : r2[a].state = "settled" /\ r2[a].rowid = r[a].rowid
    /\ \A a \in Attempt : a \notin S => r2[a] = r[a]

\* Which rows are in which state afterwards.
LEMMA SettledStates ==
  ASSUME NEW r, NEW S, NEW r2, SettledEdit(r, S, r2)
  PROVE  /\ S \subseteq Attempt /\ S \cap InState(r, "settled") = {}
         /\ InState(r2, "settled") = InState(r, "settled") \cup S
         /\ InState(r2, "dispatched") = InState(r, "dispatched") \ S
         /\ InState(r, "settled") \subseteq Attempt /\ InState(r, "dispatched") \subseteq Attempt
         /\ \A a \in InState(r, "settled") : r2[a] = r[a]
         /\ \A a \in Attempt : r2[a].rowid = r[a].rowid
         /\ Numbered(r2) /\ MaxRowid(r2) = MaxRowid(r)
<1>1. S \subseteq Attempt /\ S \cap InState(r, "settled") = {}
  BY DEF SettledEdit, InState
<1>2. /\ InState(r2, "settled") = InState(r, "settled") \cup S
      /\ InState(r2, "dispatched") = InState(r, "dispatched") \ S
  BY DEF SettledEdit, InState
<1>3. \A a \in InState(r, "settled") : r2[a] = r[a]
  BY DEF SettledEdit, InState
<1>4. \A a \in Attempt : r2[a].rowid = r[a].rowid
  BY DEF SettledEdit
<1>5. Taken(r2) = Taken(r)
  BY DEF SettledEdit, InState, Taken
<1>6. Taken(r) \subseteq Attempt
  BY DEF Taken
<1>7. Numbered(r2)
  <2>1. Numbered(r)
    BY DEF SettledEdit
  <2>2. QED BY <1>4, <1>5, <1>6, <2>1 DEF Numbered
<1>8. MaxRowid(r2) = MaxRowid(r)
  <2> DEFINE m == MaxRowid(r)
  <2>1. /\ m \in Nat /\ \A a \in Attempt : r[a].rowid <= m
        /\ m = 0 \/ \E a \in Attempt : r[a].rowid = m
    BY MaxRowidIs DEF SettledEdit
  <2> HIDE DEF m
  <2>2. r2 \in [Attempt -> SettlementRow]
    BY DEF SettledEdit
  <2>3. /\ \A a \in Attempt : r2[a].rowid <= m
        /\ m = 0 \/ \E a \in Attempt : r2[a].rowid = m
    BY <1>4, <2>1
  <2>4. MaxRowid(r2) = m
    BY <2>1, <2>2, <2>3, MaxRowidOf
  <2>5. QED BY <2>4 DEF m
<1>9. QED BY <1>1, <1>2, <1>3, <1>4, <1>7, <1>8 DEF InState

\* How many rows are in which state afterwards.
LEMMA SettledCounts ==
  ASSUME NEW r, NEW S, NEW r2, SettledEdit(r, S, r2)
  PROVE  /\ Cardinality(S) \in Nat /\ Pendings(r2) \in Nat /\ Pendings(r) \in Nat
         /\ Pendings(r) = Pendings(r2) + Cardinality(S)
         /\ Cardinality(InState(r2, "settled")) = Cardinality(InState(r, "settled")) + Cardinality(S)
<1> DEFINE D == InState(r, "settled")
           E == InState(r, "dispatched")
<1>1. /\ S \subseteq Attempt /\ D \cap S = {} /\ D \subseteq Attempt /\ E \subseteq Attempt
      /\ InState(r2, "settled") = D \cup S /\ InState(r2, "dispatched") = E \ S
  BY SettledStates
<1>s. S \subseteq E
  BY DEF SettledEdit
<1> HIDE DEF D, E
<1>2. /\ Cardinality(D) \in Nat /\ Cardinality(S) \in Nat
      /\ Cardinality(D \cup S) = Cardinality(D) + Cardinality(S)
  BY <1>1, UnionCounted
<1>3. /\ Cardinality(E \ S) \in Nat
      /\ Cardinality((E \ S) \cup S) = Cardinality(E \ S) + Cardinality(S)
  <2> DEFINE F == E \ S
  <2>1. F \subseteq Attempt /\ F \cap S = {}
    BY <1>1
  <2> HIDE DEF F
  <2>2. Cardinality(F) \in Nat /\ Cardinality(F \cup S) = Cardinality(F) + Cardinality(S)
    BY <1>1, <2>1, UnionCounted
  <2>3. QED BY <2>2 DEF F
<1>4. (E \ S) \cup S = E
  BY <1>s
<1>5. QED BY <1>1, <1>2, <1>3, <1>4 DEF Pendings, D, E

\* The newest prompt figure moves exactly when a row of S is now the newest.
LEMMA SettledLatest ==
  ASSUME NEW r, NEW S, NEW r2, SettledEdit(r, S, r2),
         ~ \E a \in S : \A b \in InState(r2, "settled") : r2[b].rowid <= r2[a].rowid
  PROVE  NewestPrompt(r2) = NewestPrompt(r)
<1> DEFINE D == InState(r, "settled")
           D2 == InState(r2, "settled")
<1>1. /\ D2 = D \cup S /\ D \subseteq Attempt /\ D2 \subseteq Attempt
      /\ \A a \in D : r2[a] = r[a]
      /\ Numbered(r2)
  <2>1. D \subseteq Attempt /\ D2 \subseteq Attempt
    BY DEF InState
  <2>2. QED BY <2>1, SettledStates
<1>n. Numbered(r) /\ r \in [Attempt -> SettlementRow] /\ r2 \in [Attempt -> SettlementRow]
  BY DEF SettledEdit
<1>2. CASE D2 = {}
  BY <1>1, <1>2 DEF NewestPrompt
<1>3. CASE D2 # {}
  <2> HIDE DEF D, D2
  <2>1. PICK m \in D2 : \A b \in D2 : r2[b].rowid <= r2[m].rowid
    BY <1>1, <1>n, <1>3, NewestSettled
  <2>2. m \in D
    BY <1>1, <2>1 DEF D2
  <2>3. \A b \in D : r[b].rowid <= r[m].rowid
    BY <1>1, <2>1, <2>2
  <2>4. NewestPrompt(r) = r[m].prompt
    BY <1>1, <1>n, <2>2, <2>3, NewestPromptOf DEF D
  <2>5. NewestPrompt(r2) = r2[m].prompt
    BY <1>1, <1>n, <2>1, NewestPromptOf DEF D2
  <2>6. QED BY <1>1, <2>2, <2>4, <2>5
<1>4. QED BY <1>2, <1>3

\* Adding the rows S to exact totals gives exact totals.
LEMMA SettledTotals ==
  ASSUME NEW r, NEW S, NEW r2, SettledEdit(r, S, r2)
  PROVE  AddedTotals(Recomputed(r), r2, S) = Recomputed(r2)
<1> DEFINE D == InState(r, "settled")
           D2 == InState(r2, "settled")
           E == InState(r, "dispatched")
           E2 == InState(r2, "dispatched")
           k == Cardinality(S)
           known == { a \in S : r2[a].total # Null }
           charged == { a \in S : r2[a].charged # Null }
           W == { a \in D : r[a].total = Null }
           W2 == { a \in D2 : r2[a].total = Null }
           C == { a \in D : r[a].charged # Null }
           C2 == { a \in D2 : r2[a].charged # Null }
           T == [a \in Attempt |-> IF a \in D THEN Known(r[a].total) ELSE 0]
           T2 == [a \in Attempt |-> IF a \in D2 THEN Known(r2[a].total) ELSE 0]
           dT == [a \in Attempt |-> IF a \in known THEN r2[a].total ELSE 0]
           U == [a \in Attempt |-> IF a \in D THEN Known(r[a].charged) ELSE 0]
           U2 == [a \in Attempt |-> IF a \in D2 THEN Known(r2[a].charged) ELSE 0]
           dU == [a \in Attempt |-> IF a \in charged THEN r2[a].charged ELSE 0]
<1>1. /\ S \subseteq Attempt /\ S \cap D = {} /\ D2 = D \cup S /\ D \subseteq Attempt
      /\ \A a \in D : r2[a] = r[a]
      /\ MaxRowid(r2) = MaxRowid(r)
  BY SettledStates
<1>2. /\ k \in Nat /\ Cardinality(E) \in Nat /\ Cardinality(E2) \in Nat
      /\ Cardinality(E) = Cardinality(E2) + k
      /\ Cardinality(D2) = Cardinality(D) + k
  BY SettledCounts DEF Pendings
<1>3. /\ \A a \in Attempt : /\ r[a].total \in OrNull(Nat) /\ r2[a].total \in OrNull(Nat)
                            /\ r[a].charged \in OrNull(Nat) /\ r2[a].charged \in OrNull(Nat)
      /\ MaxAttempts \in Nat /\ Attempt = 1 .. MaxAttempts
  BY MaxIdNat DEF SettledEdit, SettlementRow, Attempt
<1>4. Cardinality(W2) = Cardinality(W) + k - Cardinality(known)
  <2> DEFINE un == S \ known
  <2>1. W2 = W \cup un /\ W \cap un = {} /\ W \subseteq Attempt /\ un \subseteq Attempt
    BY <1>1
  <2>2. un \cap known = {} /\ known \subseteq Attempt /\ S = un \cup known
    BY <1>1
  <2> HIDE DEF un, known, W, W2
  <2>3. /\ Cardinality(W \cup un) = Cardinality(W) + Cardinality(un)
        /\ Cardinality(W) \in Nat /\ Cardinality(un) \in Nat
    BY <2>1, UnionCounted
  <2>4. Cardinality(un \cup known) = Cardinality(un) + Cardinality(known)
        /\ Cardinality(known) \in Nat
    BY <2>1, <2>2, UnionCounted
  <2>5. QED BY <2>1, <2>2, <2>3, <2>4
<1>5. Cardinality(C2) = Cardinality(C) + Cardinality(charged)
  <2>1. C2 = C \cup charged /\ C \cap charged = {} /\ C \subseteq Attempt /\ charged \subseteq Attempt
    BY <1>1
  <2> HIDE DEF C, C2, charged
  <2>2. QED BY <2>1, UnionCounted
<1>6. SumTo(T2, MaxAttempts) = SumTo(T, MaxAttempts) + SumTo(dT, MaxAttempts)
  <2>1. \A a \in Attempt : T[a] \in Nat /\ dT[a] \in Nat /\ T2[a] = T[a] + dT[a]
    BY <1>1, <1>3 DEF Known, OrNull, Null
  <2> HIDE DEF T, T2, dT
  <2>2. QED BY <1>3, <2>1, SumSplit
<1>7. SumTo(U2, MaxAttempts) = SumTo(U, MaxAttempts) + SumTo(dU, MaxAttempts)
  <2>1. \A a \in Attempt : U[a] \in Nat /\ dU[a] \in Nat /\ U2[a] = U[a] + dU[a]
    BY <1>1, <1>3 DEF Known, OrNull, Null
  <2> HIDE DEF U, U2, dU
  <2>2. QED BY <1>3, <2>1, SumSplit
<1>8. (IF \E a \in S : \A b \in D2 : r2[b].rowid <= r2[a].rowid
       THEN NewestPrompt(r2) ELSE NewestPrompt(r)) = NewestPrompt(r2)
  BY SettledLatest
<1>9. (IF Cardinality(E) > k THEN Cardinality(E) - k ELSE 0) = Cardinality(E2)
  BY <1>2
<1> HIDE DEF D, D2, E, E2, k, known, charged, W, W2, C, C2, T, T2, dT, U, U2, dU
<1>10. Recomputed(r) =
         [ present |-> TRUE, settled |-> Cardinality(D), without |-> Cardinality(W),
           tokens |-> SumTo(T, MaxAttempts), charges |-> Cardinality(C),
           units |-> SumTo(U, MaxAttempts), latest |-> NewestPrompt(r),
           dispatched |-> Cardinality(E), next |-> MaxRowid(r) + 1 ]
  BY DEF Recomputed, D, W, T, C, U, E
<1>11. Recomputed(r2) =
         [ present |-> TRUE, settled |-> Cardinality(D2), without |-> Cardinality(W2),
           tokens |-> SumTo(T2, MaxAttempts), charges |-> Cardinality(C2),
           units |-> SumTo(U2, MaxAttempts), latest |-> NewestPrompt(r2),
           dispatched |-> Cardinality(E2), next |-> MaxRowid(r2) + 1 ]
  BY DEF Recomputed, D2, W2, T2, C2, U2, E2
<1> DEFINE t == Recomputed(r)
<1>12. AddedTotals(t, r2, S) =
         [ present |-> t.present, settled |-> t.settled + k,
           without |-> t.without + k - Cardinality(known),
           tokens |-> t.tokens + SumTo(dT, MaxAttempts),
           charges |-> t.charges + Cardinality(charged),
           units |-> t.units + SumTo(dU, MaxAttempts),
           latest |-> IF \E a \in S : \A b \in D2 : r2[b].rowid <= r2[a].rowid
                      THEN NewestPrompt(r2) ELSE t.latest,
           dispatched |-> IF t.dispatched > k THEN t.dispatched - k ELSE 0,
           next |-> t.next ]
  BY DEF AddedTotals, D2, k, known, charged, dT, dU
<1>13. /\ t.present = TRUE /\ t.settled = Cardinality(D) /\ t.without = Cardinality(W)
       /\ t.tokens = SumTo(T, MaxAttempts) /\ t.charges = Cardinality(C)
       /\ t.units = SumTo(U, MaxAttempts) /\ t.latest = NewestPrompt(r)
       /\ t.dispatched = Cardinality(E) /\ t.next = MaxRowid(r) + 1
  BY <1>10
<1> HIDE DEF t
<1>14. AddedTotals(t, r2, S) = Recomputed(r2)
  BY <1>1, <1>2, <1>4, <1>5, <1>6, <1>7, <1>8, <1>9, <1>11, <1>12, <1>13
<1>15. QED BY <1>14 DEF t

-----------------------------------------------------------------------------
(* Each step.                                                              *)

\* Exact totals are sound.
LEMMA ExactSound ==
  ASSUME NEW r \in [Attempt -> SettlementRow], Numbered(r), NEW t, t = Recomputed(r)
  PROVE  Sound(r, t)
<1>1. MaxRowid(r) \in Nat /\ Pendings(r) \in Nat
  <2>1. InState(r, "dispatched") \subseteq Attempt
    BY DEF InState
  <2>2. QED BY <2>1, MaxRowidIs, AttemptsCounted DEF Pendings
<1>2. t.next = MaxRowid(r) + 1 /\ t.dispatched = Pendings(r)
  BY RecomputedFields
<1>3. QED BY <1>1, <1>2 DEF Sound

\* What startup takes as good is exact: neither rowid nor count falls short.
LEMMA FreshIsExact ==
  ASSUME NEW r \in [Attempt -> SettlementRow], NEW t \in Totals,
         Sound(r, t), t.present, ~ Stale(r, t)
  PROVE  t = Recomputed(r)
<1>1. MaxRowid(r) \in Nat /\ t.next \in Nat
  BY MaxRowidIs DEF Totals
<1>2. t.dispatched = Pendings(r) /\ (MaxRowid(r) = 0 \/ ~ (t.next <= MaxRowid(r)))
  BY DEF Stale, Pendings
<1>3. t.next >= 1 /\ t.next <= MaxRowid(r) + 1
  BY DEF Sound
<1>4. t.next = MaxRowid(r) + 1
  BY <1>1, <1>2, <1>3
<1>5. QED BY <1>2, <1>4 DEF Sound

\* A build without the totals sends: the counter falls behind the rows.
LEMMA ForeignSendSound ==
  ASSUME NEW r \in [Attempt -> SettlementRow], NEW t \in Totals, Sound(r, t),
         NEW a \in Attempt, r[a].state = "none", NEW b \in Nat,
         NEW r2, r2 = [r EXCEPT ![a] = DispatchedRow(MaxRowid(r) + 1, b)]
  PROVE  Sound(r2, t)
<1>1. Numbered(r)
  BY DEF Sound
<1>2. Numbered(r2) /\ MaxRowid(r2) = MaxRowid(r) + 1
  <2>1. SentEdit(r, a, b, r2)
    BY <1>1 DEF SentEdit
  <2>2. QED BY <2>1, SentTotals
<1>3. MaxRowid(r) \in Nat /\ t.next \in Nat /\ t.next <= MaxRowid(r) + 1
  BY MaxRowidIs DEF Totals, Sound
<1>4. t.next <= MaxRowid(r2) + 1 /\ t.next # MaxRowid(r2) + 1
  BY <1>2, <1>3
<1>5. t.present => t.next >= 1
  BY DEF Sound
<1>6. QED BY <1>2, <1>4, <1>5 DEF Sound

\* It ends a send: a dispatched row less than the totals count.
LEMMA ForeignSettleSound ==
  ASSUME NEW r, NEW t \in Totals, Sound(r, t), NEW a, NEW r2, SettledEdit(r, {a}, r2)
  PROVE  Sound(r2, t)
<1> DEFINE S == {a}
<1>1. Numbered(r2) /\ MaxRowid(r2) = MaxRowid(r)
  BY SettledStates
<1>2. /\ Cardinality(S) \in Nat /\ Pendings(r2) \in Nat /\ Pendings(r) \in Nat
      /\ Pendings(r) = Pendings(r2) + Cardinality(S)
  BY SettledCounts
<1>3. Cardinality(S) = 1
  BY FS_Singleton
<1>4. Pendings(r) = Pendings(r2) + 1 /\ t.dispatched \in Nat
  BY <1>2, <1>3 DEF Totals
<1>5. QED BY <1>1, <1>2, <1>4 DEF Sound

\* A send's end is such an edit.
LEMMA SettledByOne ==
  ASSUME NEW r \in [Attempt -> SettlementRow], Numbered(r),
         NEW a \in Attempt, r[a].state = "dispatched", NEW p, NEW t, NEW c,
         NEW r2 \in [Attempt -> SettlementRow], r2 = [r EXCEPT ![a] = SettledRow(r[a], p, t, c)]
  PROVE  SettledEdit(r, {a}, r2)
<1>1. r2[a] = SettledRow(r[a], p, t, c) /\ \A b \in Attempt : b # a => r2[b] = r[b]
  OBVIOUS
<1>2. r2[a].state = "settled" /\ r2[a].rowid = r[a].rowid
  BY <1>1 DEF SettledRow
<1>3. QED BY <1>1, <1>2 DEF SettledEdit, InState

\* Every step of the ledger keeps the totals what the invariant says.
LEMMA TotalsStep ==
  ASSUME IInv, IInv', TotalsInv, [Next]_vars
  PROVE  TotalsInv'
<1>0. /\ rows \in [Attempt -> SettlementRow] /\ rows' \in [Attempt -> SettlementRow]
      /\ totals \in Totals /\ Numbered(rows)
      /\ phase \in {"down", "elected", "recovered", "published", "serving"}
      /\ compat \in BOOLEAN
  <2>1. rows \in [Attempt -> SettlementRow] /\ totals \in Totals
        /\ phase \in {"down", "elected", "recovered", "published", "serving"} /\ compat \in BOOLEAN
    BY DEF IInv, Core, OpenTypes
  <2>2. rows' \in [Attempt -> SettlementRow]
    BY DEF IInv, Core, OpenTypes
  <2>3. QED BY <2>1, <2>2 DEF TotalsInv, Sound
<1>n. /\ Bounds \subseteq Nat /\ Tokens \subseteq Nat
  BY LedgerAssumption
\* What leaves the rows, the totals and the phase alone.
<1>1. ASSUME UNCHANGED <<rows, totals, phase, compat>>
      PROVE  TotalsInv'
  BY <1>1 DEF TotalsInv, Repaired
\* What leaves exact totals.
<1>2. ASSUME Numbered(rows'), totals' = Recomputed(rows')
      PROVE  TotalsInv'
  <2>1. Sound(rows', totals')
    BY <1>0, <1>2, ExactSound
  <2>2. QED BY <1>2, <2>1 DEF TotalsInv
<1>3. ASSUME NEW s \in Scope, NEW l \in Limits, OpenBudget(s, l)
      PROVE  TotalsInv'
  BY <1>1, <1>3 DEF OpenBudget
<1>4. ASSUME NEW s \in Scope, NEW l \in Limits, NEW n \in Sends, OpenWorkBudget(s, l, n)
      PROVE  TotalsInv'
  BY <1>1, <1>4 DEF OpenWorkBudget
<1>5. ASSUME NEW s \in Scope, StopWorkBudget(s)
      PROVE  TotalsInv'
  BY <1>1, <1>5 DEF StopWorkBudget
<1>6. ASSUME NEW i \in Direct, NEW S \in SUBSET Scope, NEW b \in Bounds, BudgetReserve(i, S, b)
      PROVE  TotalsInv'
  BY <1>1, <1>6 DEF BudgetReserve
<1>7. ASSUME NEW i \in Direct, NEW c \in OrNull(Tokens), BudgetCharge(i, c)
      PROVE  TotalsInv'
  BY <1>1, <1>7 DEF BudgetCharge
<1>8. ASSUME NEW i \in Direct, BudgetRelease(i)
      PROVE  TotalsInv'
  BY <1>1, <1>8 DEF BudgetRelease
<1>9. ASSUME NEW a \in Attempt, FinishLost(a)
      PROVE  TotalsInv'
  BY <1>1, <1>9 DEF FinishLost
<1>10. ASSUME NEW a \in Attempt, NEW S \in SUBSET Scope, NEW b \in Bounds, BeginSend(a, S, b)
       PROVE  TotalsInv'
  <2> DEFINE m == MaxRowid(rows)
             k == Pendings(rows)
             rowid == NextRowid(rows, totals)
             mid == [totals EXCEPT !.next = rowid + 1]
  <2>1. /\ rows[a].state = "none" /\ phase = "serving" /\ b \in Nat
        /\ rows' = [rows EXCEPT ![a] = DispatchedRow(rowid, b)]
        /\ totals' = [totals EXCEPT !.next = rowid + 1, !.dispatched = @ + 1]
    BY <1>n, <1>10 DEF BeginSend, Fresh
  <2>2. totals = Recomputed(rows)
    BY <2>1 DEF TotalsInv, Repaired
  <2>3. totals.next = m + 1 /\ totals.dispatched = k /\ m \in Nat
    BY <1>0, <2>2, RecomputedFields, MaxRowidIs
  <2>4. rowid = m + 1 /\ rowid + 1 = m + 2
    BY <2>3 DEF NextRowid
  <2>5. totals' = [[totals EXCEPT !.next = rowid + 1] EXCEPT !.dispatched = k + 1]
    <3>1. mid.dispatched = totals.dispatched
      BY <1>0 DEF Totals
    <3>2. totals' = [mid EXCEPT !.dispatched = totals.dispatched + 1]
      BY <2>1
    <3>3. QED BY <2>3, <3>1, <3>2
  <2> HIDE DEF m, k, rowid, mid
  <2>6. rows' = [rows EXCEPT ![a] = DispatchedRow(MaxRowid(rows) + 1, b)]
    BY <2>1, <2>4 DEF m
  <2>7. /\ Numbered(rows')
        /\ Recomputed(rows') = [[Recomputed(rows) EXCEPT !.next = MaxRowid(rows) + 2]
                                  EXCEPT !.dispatched = Pendings(rows) + 1]
    <3>1. SentEdit(rows, a, b, rows')
      BY <1>0, <2>1, <2>6 DEF SentEdit
    <3>2. QED BY <3>1, SentTotals
  <2>8. totals' = Recomputed(rows')
    BY <2>2, <2>4, <2>5, <2>7 DEF m, k
  <2>9. QED BY <1>2, <2>7, <2>8
<1>11. ASSUME NEW a \in Attempt, NEW p \in OrNull(Tokens), NEW t \in OrNull(Tokens),
              FinishSend(a, p, t)
       PROVE  TotalsInv'
  <2>1. /\ rows[a].state = "dispatched" /\ phase = "serving"
        /\ rows' = [rows EXCEPT ![a] = SettledRow(rows[a], p, t, ChargeOf(a, t))]
        /\ totals' = AddedTotals(totals, rows', {a})
    BY <1>11 DEF FinishSend
  <2>2. totals = Recomputed(rows)
    BY <2>1 DEF TotalsInv, Repaired
  <2>3. SettledEdit(rows, {a}, rows')
    BY <1>0, <2>1, SettledByOne
  <2>4. Numbered(rows')
    BY <2>3, SettledStates
  <2>5. totals' = Recomputed(rows')
    BY <2>1, <2>2, <2>3, SettledTotals
  <2>6. QED BY <1>2, <2>4, <2>5
<1>12. CASE Crash
  BY <1>12 DEF Crash, TotalsInv, Repaired
<1>13. CASE Elect
  <2>1. /\ UNCHANGED <<rows, totals>> /\ phase' = "elected"
        /\ compat' = (totals.present /\ ~ Stale(rows, totals))
    BY <1>13 DEF Elect
  <2>2. compat' => totals = Recomputed(rows)
    BY <1>0, <2>1, FreshIsExact DEF TotalsInv
  <2>3. QED BY <2>1, <2>2 DEF TotalsInv, Repaired
<1>14. CASE ReconcileSends
  <2> DEFINE open == InState(rows, "dispatched")
             held == { a \in open : resv[a].state = "reserved" }
             settled == [a \in Attempt |->
                      IF a \in open
                      THEN SettledRow(rows[a], Null, Null,
                                      IF a \in held THEN rows[a].bound ELSE Null)
                      ELSE rows[a]]
  <2>1. /\ phase = (IF compat THEN "elected" ELSE "published")
        /\ rows' = settled /\ totals' = AddedTotals(totals, settled, open)
    BY <1>14 DEF ReconcileSends
  <2>2. totals = Recomputed(rows)
    BY <2>1 DEF TotalsInv, Repaired
  <2>3. \A a \in open : settled[a].state = "settled" /\ settled[a].rowid = rows[a].rowid
    BY DEF SettledRow, InState
  <2>4. \A a \in Attempt : a \notin open => settled[a] = rows[a]
    OBVIOUS
  <2> HIDE DEF settled
  <2>5. SettledEdit(rows, open, rows')
    BY <1>0, <2>1, <2>3, <2>4 DEF SettledEdit
  <2> HIDE DEF open
  <2>6. Numbered(rows')
    BY <2>5, SettledStates
  <2>7. totals' = Recomputed(rows')
    BY <2>1, <2>2, <2>5, SettledTotals
  <2>8. QED BY <1>2, <2>6, <2>7
<1>15. CASE PublishGeneration
  <2>1. /\ UNCHANGED rows
        /\ totals' = (IF totals.present /\ ~ Stale(rows, totals) THEN totals ELSE Recomputed(rows))
    BY <1>15 DEF PublishGeneration
  <2>2. totals' = Recomputed(rows)
    BY <1>0, <2>1, FreshIsExact DEF TotalsInv
  <2>3. QED BY <1>0, <1>2, <2>1, <2>2
<1>16. ASSUME NEW a \in Attempt, NEW S \in SUBSET Scope, NEW b \in Bounds, ForeignSend(a, S, b)
       PROVE  TotalsInv'
  <2>1. /\ rows[a].state = "none" /\ phase = "down" /\ b \in Nat
        /\ rows' = [rows EXCEPT ![a] = DispatchedRow(MaxRowid(rows) + 1, b)]
        /\ UNCHANGED <<totals, phase, compat>>
    BY <1>n, <1>16 DEF ForeignSend, Fresh
  <2>2. Sound(rows', totals)
    BY <1>0, <2>1, ForeignSendSound DEF TotalsInv
  <2>3. QED BY <2>1, <2>2 DEF TotalsInv, Repaired
<1>17. ASSUME NEW a \in Attempt, NEW p \in OrNull(Tokens), NEW t \in OrNull(Tokens),
              ForeignSettle(a, p, t)
       PROVE  TotalsInv'
  <2>1. /\ rows[a].state = "dispatched" /\ phase = "down"
        /\ rows' = [rows EXCEPT ![a] = SettledRow(rows[a], p, t, ChargeOf(a, t))]
        /\ UNCHANGED <<totals, phase, compat>>
    BY <1>17 DEF ForeignSettle
  <2>2. SettledEdit(rows, {a}, rows')
    BY <1>0, <2>1, SettledByOne
  <2>3. Sound(rows', totals)
    BY <1>0, <2>2, ForeignSettleSound DEF TotalsInv
  <2>4. QED BY <2>1, <2>3 DEF TotalsInv, Repaired
<1>18. CASE UNCHANGED vars
  BY <1>1, <1>18 DEF vars
<1>19. QED BY <1>3, <1>4, <1>5, <1>6, <1>7, <1>8, <1>9, <1>10, <1>11, <1>12, <1>13, <1>14,
             <1>15, <1>16, <1>17, <1>18 DEF Next, Startup

\* A new store has neither rows nor totals.
LEMMA InitTotals == Init => TotalsInv
<1> SUFFICES ASSUME Init PROVE TotalsInv
  OBVIOUS
<1>1. /\ \A a \in Attempt : rows[a].state = "none" /\ rows[a].rowid = 0
      /\ ~ totals.present /\ totals.next = 0 /\ phase = "down"
  BY DEF Init
<1>2. rows \in [Attempt -> SettlementRow]
  BY InitIInv DEF IInv, Core
<1>3. MaxRowid(rows) \in Nat
  BY <1>2, MaxRowidIs
<1>4. Numbered(rows)
  BY <1>1 DEF Numbered, Taken
<1>5. QED BY <1>1, <1>3, <1>4 DEF TotalsInv, Sound, Repaired

\* AC-062: what the status projection serves is what a scan of the settlement
\* rows would find, whatever another build wrote between two opens.
THEOREM TotalsSafe == Spec => []TotalsExact
<1>1. Init => TotalsInv
  BY InitTotals
<1>2. IInv /\ IInv' /\ TotalsInv /\ [Next]_vars => TotalsInv'
  BY TotalsStep
<1>3. TotalsInv => TotalsExact
  BY DEF TotalsInv, Repaired, TotalsExact
<1>4. QED BY <1>1, <1>2, <1>3, LedgerInvariance, PTL DEF Spec

\* The ledger as a whole: counters, rows, totals and open sends say the same,
\* through out-of-order ends, crashes, reconciliation and another build.
THEOREM LedgerSafe == Spec => []LedgerExact
<1>1. TypeOK /\ CountersExact /\ RowsMatchReservations /\ TotalsExact /\ NoOrphanSend
        => LedgerExact
  BY DEF LedgerExact
<1>2. QED BY <1>1, LedgerTypeCorrect, CountersSafe, RowsSafe, TotalsSafe, OrphanSafe, PTL

-----------------------------------------------------------------------------
(***************************************************************************)
(* The economy snapshot.  The invariant says how the rows of one send are  *)
(* ordered: its own row comes first, an answer last, and none follows one; *)
(* with it the row a refresh lands on proves what the snapshot shows.      *)
(***************************************************************************)
UsageRow == [attempt : Nat, parent : Nat, state : {"dispatched", "settled"},
             reason : {"none", "send failed", "interrupted"}, usage : Usage \cup {NoUsage}]

EconomyTypeOK ==
    /\ usageRows \in Seq(UsageRow)
    /\ send \in [at : {"idle", "prepared", "substitute", "sent", "note"}, attempt : Nat, paused : BOOLEAN]
    /\ economy = [sent |-> economy.sent, named |-> economy.named, source |-> economy.source,
                  rate |-> economy.rate]
    /\ economy.sent \in Nat

AnsweredRow(i) == usageRows[i].state = "settled" /\ usageRows[i].reason = "none"

\* Every row is of a send that was prepared; a send under way, or paused, is numbered.
RowsAreOfSends ==
    /\ send.at # "idle" \/ send.paused => send.attempt # 0
    /\ \A i \in DOMAIN usageRows :
          /\ usageRows[i].attempt \in 1 .. send.attempt
          /\ usageRows[i].parent \in {0, usageRows[i].attempt}

\* Among the rows of one send its own comes first and an answer last.
RowsInOrder ==
    \A i, j \in DOMAIN usageRows : usageRows[i].attempt = usageRows[j].attempt =>
        /\ usageRows[i].parent = 0 /\ usageRows[j].parent # 0 => i < j
        /\ AnsweredRow(i) => j <= i

\* Where the send stands, beside its rows.
SendBesideRows ==
    /\ send.at = "prepared" => \A i \in DOMAIN usageRows : usageRows[i].attempt # send.attempt
    /\ send.at \in {"prepared", "substitute", "sent"} =>
          \A i \in DOMAIN usageRows : usageRows[i].attempt = send.attempt => ~ AnsweredRow(i)
    /\ send.at = "sent" => /\ Len(usageRows) \in DOMAIN usageRows
                           /\ usageRows[Len(usageRows)].state = "dispatched"
                           /\ usageRows[Len(usageRows)].attempt = send.attempt
    /\ \A i \in DOMAIN usageRows :
          usageRows[i].attempt = send.attempt /\ usageRows[i].reason = "interrupted" =>
              send.at = "idle" /\ ~ send.paused

\* A shown send was prepared and has a row.
ShownHasRow ==
    economy.sent # 0 => /\ economy.sent <= send.attempt
                        /\ \E i \in DOMAIN usageRows : usageRows[i].attempt = economy.sent

\* What the rows of send a prove of a selection shown for it.
ProvenAt(a, named, source) ==
    /\ named => Own(a) # {} /\ Family(a) = {}
    /\ source = "fallback answered" => Answered(a)
    /\ source \in {"fallback unresolved", "no fallback answered"} => ~ Answered(a)

ShownProven ==
    \A a \in Nat \ {0} :
        a = economy.sent /\ a \notin unnoted /\ ~ (a = send.attempt /\ send.at # "idle") =>
            ProvenAt(a, economy.named, economy.source)

\* A frozen rate, said of its cohort.
FrozenOver(cohort, cold) ==
    /\ cohort # {}
    /\ \A i \in cohort : i \in DOMAIN usageRows /\ usageRows[i].state = "settled"
    /\ rate.measured + rate.censored + rate.excluded = Cardinality(cohort)
    /\ cache_read_rate(cohort, cold) = rate

FrozenStands ==
    rate.kind # "not run" =>
        \A cohort, cold : cohort = rate.cohort /\ cold = rate.cold => FrozenOver(cohort, cold)

EconomyRowsInv == EconomyTypeOK /\ RowsAreOfSends /\ RowsInOrder /\ SendBesideRows /\ ShownHasRow
EconomyInv == EconomyRowsInv /\ ShownProven /\ FrozenStands /\ ServedRateIsHeld

\* A row that ended keeps its place and takes a reason and a usage.
LEMMA EndedRowIs ==
  ASSUME NEW row \in UsageRow, NEW reason \in {"none", "send failed", "interrupted"},
         NEW usage \in Usage \cup {NoUsage}
  PROVE  /\ EndedRow(row, reason, usage) \in UsageRow
         /\ EndedRow(row, reason, usage).attempt = row.attempt
         /\ EndedRow(row, reason, usage).parent = row.parent
         /\ EndedRow(row, reason, usage).state = "settled"
         /\ EndedRow(row, reason, usage).reason = reason
BY DEF EndedRow, UsageRow

\* What a row is, without its record.
LEMMA RowIs ==
  ASSUME NEW row \in UsageRow
  PROVE  /\ row.attempt \in Nat /\ row.parent \in Nat /\ row.state \in {"dispatched", "settled"}
         /\ row.reason \in {"none", "send failed", "interrupted"}
BY DEF UsageRow

\* Measuring a cohort again whose rows stand gives the same rate.
LEMMA RateUnmoved ==
  ASSUME NEW cohort, NEW cold, \A i \in cohort : usageRows'[i] = usageRows[i]
  PROVE  cache_read_rate(cohort, cold)' = cache_read_rate(cohort, cold)
<1> DEFINE reported(u) == Absent \notin {u.prompt, u.read, u.write}
           whole == {i \in cohort : reported(usageRows[i].usage)}
           kept == {i \in whole : cold \/ usageRows[i].usage.read # 0}
           inputs == [i \in kept |-> usageRows[i].usage.prompt + usageRows[i].usage.read
                                     + usageRows[i].usage.write]
           reads == [i \in kept |-> usageRows[i].usage.read]
<1>1. whole' = whole
  OBVIOUS
<1>2. kept' = kept
  OBVIOUS
<1>3. inputs' = inputs
  BY <1>2
<1>4. reads' = reads
  BY <1>2
<1>5. cache_read_rate(cohort, cold) =
        [kind |-> IF kept = {} \/ Sum(inputs) = 0 THEN "unknown" ELSE "measured",
         cohort |-> cohort, cold |-> cold,
         measured |-> Cardinality(kept), censored |-> Cardinality(cohort \ whole),
         excluded |-> Cardinality(whole \ kept),
         read |-> Sum(reads), input |-> Sum(inputs)]
  BY Zenon DEF cache_read_rate
<1>6. cache_read_rate(cohort, cold)' =
        [kind |-> IF kept' = {} \/ Sum(inputs') = 0 THEN "unknown" ELSE "measured",
         cohort |-> cohort, cold |-> cold,
         measured |-> Cardinality(kept'), censored |-> Cardinality(cohort \ whole'),
         excluded |-> Cardinality(whole' \ kept'),
         read |-> Sum(reads'), input |-> Sum(inputs')]
  BY Zenon DEF cache_read_rate
<1> HIDE DEF whole, kept, inputs, reads
<1>7. QED BY <1>1, <1>2, <1>3, <1>4, <1>5, <1>6, Zenon

\* Every row of a cohort is measured, censored or left out, and once.
LEMMA RateCounts ==
  ASSUME NEW cohort, NEW cold, IsFiniteSet(cohort)
  PROVE  /\ cache_read_rate(cohort, cold).kind # "not run"
         /\ cache_read_rate(cohort, cold).cohort = cohort /\ cache_read_rate(cohort, cold).cold = cold
         /\ cache_read_rate(cohort, cold).measured + cache_read_rate(cohort, cold).censored
            + cache_read_rate(cohort, cold).excluded = Cardinality(cohort)
<1> DEFINE reported(u) == Absent \notin {u.prompt, u.read, u.write}
           whole == {i \in cohort : reported(usageRows[i].usage)}
           kept == {i \in whole : cold \/ usageRows[i].usage.read # 0}
           r == cache_read_rate(cohort, cold)
<1>1. /\ r.kind \in {"unknown", "measured"} /\ r.cohort = cohort /\ r.cold = cold
      /\ r.measured = Cardinality(kept) /\ r.censored = Cardinality(cohort \ whole)
      /\ r.excluded = Cardinality(whole \ kept)
  BY DEF cache_read_rate
<1>2. whole \subseteq cohort /\ kept \subseteq whole
  OBVIOUS
<1> HIDE DEF whole, kept, r
<1>3. cohort \cap whole = whole /\ whole \cap kept = kept
      /\ whole \in SUBSET cohort /\ kept \in SUBSET whole
  BY <1>2
<1>4. IsFiniteSet(whole)
  BY <1>3, FS_Subset
<1>5. IsFiniteSet(kept)
  BY <1>3, <1>4, FS_Subset
<1>6. Cardinality(whole) \in Nat /\ Cardinality(cohort) \in Nat /\ Cardinality(kept) \in Nat
  BY <1>4, <1>5, FS_CardinalityType
<1>7. Cardinality(cohort \ whole) = Cardinality(cohort) - Cardinality(whole)
  BY <1>3, FS_Difference
<1>8. Cardinality(whole \ kept) = Cardinality(whole) - Cardinality(kept)
  BY <1>3, <1>4, FS_Difference
<1>9. r.measured + r.censored + r.excluded = Cardinality(cohort)
  BY <1>1, <1>6, <1>7, <1>8
<1>10. QED BY <1>1, <1>9 DEF r

\* The newest of the rows of a set is in it, and no row of the set is newer.
LEMMA NewestIs ==
  ASSUME usageRows \in Seq(UsageRow), NEW some, some \subseteq DOMAIN usageRows, some # {}
  PROVE  NewestRow(some) \in some /\ \A j \in some : j <= NewestRow(some)
<1>1. Len(usageRows) \in Nat /\ DOMAIN usageRows = 1 .. Len(usageRows)
  OBVIOUS
<1>2. \E i \in some : \A j \in some : j <= i
  BY <1>1, GreatestInInterval
<1>3. QED BY <1>2 DEF NewestRow

\* The rows of a send nobody touches prove of it what they proved.
LEMMA RowsStand ==
  ASSUME NEW a \in Nat \ {0},
         \A i : (i \in DOMAIN usageRows /\ usageRows[i].attempt = a)
                <=> (i \in DOMAIN usageRows' /\ usageRows'[i].attempt = a),
         \A i \in DOMAIN usageRows : usageRows[i].attempt = a => usageRows'[i] = usageRows[i],
         \A i \in DOMAIN usageRows : usageRows[i].parent \in {0, usageRows[i].attempt},
         \A i \in DOMAIN usageRows' : usageRows'[i].parent \in {0, usageRows'[i].attempt}
  PROVE  Own(a)' = Own(a) /\ Family(a)' = Family(a) /\ Answered(a)' = Answered(a)
<1>1. Own(a)' = Own(a)
  BY DEF Own
<1>2. Family(a)' = Family(a)
  BY DEF Family
<1>3. \A i \in Own(a) \cup Family(a) : usageRows'[i] = usageRows[i]
  BY DEF Own, Family
<1>4. Answered(a)' = \E i \in Own(a)' \cup Family(a)' :
                        usageRows'[i].state = "settled" /\ usageRows'[i].reason = "none"
  BY Zenon DEF Answered
<1>5. Answered(a) = \E i \in Own(a) \cup Family(a) :
                        usageRows[i].state = "settled" /\ usageRows[i].reason = "none"
  BY Zenon DEF Answered
<1>6. QED BY <1>1, <1>2, <1>3, <1>4, <1>5

\* A frozen rate stands when the rows of its cohort do.
LEMMA FrozenKeeps ==
  ASSUME FrozenStands, rate' = rate,
         \A i \in DOMAIN usageRows : i \in DOMAIN usageRows',
         \A i \in DOMAIN usageRows : usageRows[i].state = "settled" => usageRows'[i] = usageRows[i]
  PROVE  FrozenStands'
<1> SUFFICES ASSUME rate.kind # "not run", NEW cohort, NEW cold, cohort = rate.cohort, cold = rate.cold
             PROVE  FrozenOver(cohort, cold)'
  BY DEF FrozenStands
<1>1. FrozenOver(cohort, cold)
  BY DEF FrozenStands
<1>2. \A i \in cohort : usageRows'[i] = usageRows[i]
  BY <1>1 DEF FrozenOver
<1>3. cache_read_rate(cohort, cold)' = cache_read_rate(cohort, cold)
  BY <1>2, RateUnmoved
<1>4. QED BY <1>1, <1>2, <1>3 DEF FrozenOver

\* An answer to a send is a row of the send.
LEMMA AnsweredIs ==
  ASSUME NEW a \in Nat \ {0},
         \A i \in DOMAIN usageRows : usageRows[i].parent \in {0, usageRows[i].attempt}
  PROVE  /\ Answered(a) <=> \E i \in DOMAIN usageRows : usageRows[i].attempt = a /\ AnsweredRow(i)
         /\ Own(a) = {i \in DOMAIN usageRows : usageRows[i].attempt = a /\ usageRows[i].parent = 0}
         /\ Family(a) = {i \in DOMAIN usageRows : usageRows[i].attempt = a /\ usageRows[i].parent # 0}
BY DEF Answered, Own, Family, AnsweredRow

\* What is shown stays proven while the rows of its send and the snapshot stay.
LEMMA ShownKeeps ==
  ASSUME EconomyInv, EconomyTypeOK', RowsAreOfSends',
         economy'.sent = economy.sent, economy'.named = economy.named, economy'.source = economy.source,
         NEW due, due = {a \in Nat : a \in unnoted' \/ (a = send'.attempt /\ send'.at # "idle")},
         \A a \in Nat \ {0} : a = economy.sent /\ a \notin due =>
            /\ a \notin unnoted /\ ~ (a = send.attempt /\ send.at # "idle")
            /\ \A i : (i \in DOMAIN usageRows /\ usageRows[i].attempt = a)
                      <=> (i \in DOMAIN usageRows' /\ usageRows'[i].attempt = a)
            /\ \A i \in DOMAIN usageRows : usageRows[i].attempt = a => usageRows'[i] = usageRows[i]
  PROVE  ShownProven'
<1> SUFFICES ASSUME NEW a \in Nat \ {0}, a = economy.sent, a \notin due
             PROVE  ProvenAt(a, economy.named, economy.source)'
  BY DEF ShownProven
<1>1. Own(a)' = Own(a) /\ Family(a)' = Family(a) /\ Answered(a)' = Answered(a)
  BY RowsStand DEF EconomyInv, EconomyRowsInv, RowsAreOfSends
<1>2. ProvenAt(a, economy.named, economy.source)
  BY DEF EconomyInv, ShownProven
<1>3. QED BY <1>1, <1>2 DEF ProvenAt

\* A step of the walk that writes no row: the next candidate, or the end.
LEMMA MoveKeeps ==
  ASSUME EconomyInv, NEW to \in {"substitute", "note"}, send' = [send EXCEPT !.at = to],
         send.at # "idle" \/ send.paused, send.at # "note",
         to = "substitute" =>
            \A i \in DOMAIN usageRows : usageRows[i].attempt = send.attempt => ~ AnsweredRow(i),
         UNCHANGED <<usageRows, rate, economy, unnoted>>
  PROVE  EconomyInv'
<1> USE DEF EconomyInv, EconomyRowsInv
<1>1. /\ send' \in [at : {"idle", "prepared", "substitute", "sent", "note"}, attempt : Nat, paused : BOOLEAN]
      /\ send'.at = to /\ send'.attempt = send.attempt /\ send'.paused = send.paused
      /\ send.attempt # 0 /\ send.attempt \in Nat
  BY DEF EconomyTypeOK, RowsAreOfSends
<1>2. EconomyTypeOK'
  BY <1>1 DEF EconomyTypeOK
<1>3. RowsAreOfSends'
  BY <1>1 DEF RowsAreOfSends
<1>4. RowsInOrder'
  BY DEF RowsInOrder, AnsweredRow
<1>5. \A i \in DOMAIN usageRows :
         usageRows[i].attempt = send.attempt => usageRows[i].reason # "interrupted"
  BY DEF SendBesideRows
<1>6. SendBesideRows'
  BY <1>1, <1>5 DEF SendBesideRows, AnsweredRow
<1>7. ShownHasRow'
  BY <1>1 DEF ShownHasRow
<1>8. ShownProven'
  <2> DEFINE due == {a \in Nat : a \in unnoted' \/ (a = send'.attempt /\ send'.at # "idle")}
  <2>1. \A a \in Nat \ {0} : a = economy.sent /\ a \notin due =>
            a \notin unnoted /\ ~ (a = send.attempt /\ send.at # "idle")
    BY <1>1
  <2> HIDE DEF due
  <2>2. due = {a \in Nat : a \in unnoted' \/ (a = send'.attempt /\ send'.at # "idle")}
    BY DEF due
  <2>3. QED BY <1>2, <1>3, <2>1, <2>2, ShownKeeps
<1>9. FrozenStands'
  BY FrozenKeeps
<1>10. ServedRateIsHeld'
  BY DEF ServedRateIsHeld
<1>11. QED BY <1>2, <1>3, <1>4, <1>6, <1>7, <1>8, <1>9, <1>10

\* The next send has no row yet.
LEMMA PrepareKeeps == ASSUME EconomyInv, PrepareSend PROVE EconomyInv'
<1> USE DEF EconomyInv, EconomyRowsInv
<1>1. /\ send.at = "idle" /\ send.attempt \in Nat
      /\ send' = [at |-> "prepared", attempt |-> send.attempt + 1, paused |-> TRUE]
      /\ UNCHANGED <<usageRows, rate, economy, unnoted>>
  BY DEF PrepareSend, EconomyTypeOK
<1>2. /\ send' \in [at : {"idle", "prepared", "substitute", "sent", "note"}, attempt : Nat, paused : BOOLEAN]
      /\ send'.at = "prepared" /\ send'.attempt = send.attempt + 1
  BY <1>1
<1>3. EconomyTypeOK'
  BY <1>1, <1>2 DEF EconomyTypeOK
<1>4. \A i \in DOMAIN usageRows : usageRows[i].attempt \in 1 .. send.attempt
  BY DEF RowsAreOfSends
<1>5. \A i \in DOMAIN usageRows :
         usageRows[i].attempt \in 1 .. (send.attempt + 1) /\ usageRows[i].attempt # send.attempt + 1
  BY <1>1, <1>4
<1>6. RowsAreOfSends'
  BY <1>1, <1>2, <1>5 DEF RowsAreOfSends
<1>7. RowsInOrder'
  BY <1>1 DEF RowsInOrder, AnsweredRow
<1>8. SendBesideRows'
  BY <1>1, <1>2, <1>5 DEF SendBesideRows, AnsweredRow
<1>9. ShownHasRow' /\ (economy.sent # 0 => economy.sent # send.attempt + 1)
  BY <1>1, <1>2 DEF ShownHasRow, EconomyTypeOK
<1>10. ShownProven'
  <2> DEFINE due == {a \in Nat : a \in unnoted' \/ (a = send'.attempt /\ send'.at # "idle")}
  <2>1. \A a \in Nat \ {0} : a = economy.sent /\ a \notin due =>
            a \notin unnoted /\ ~ (a = send.attempt /\ send.at # "idle")
    BY <1>1
  <2> HIDE DEF due
  <2>2. due = {a \in Nat : a \in unnoted' \/ (a = send'.attempt /\ send'.at # "idle")}
    BY DEF due
  <2>3. QED BY <1>1, <1>3, <1>6, <2>1, <2>2, ShownKeeps
<1>11. FrozenStands'
  BY <1>1, FrozenKeeps
<1>12. ServedRateIsHeld'
  BY <1>1 DEF ServedRateIsHeld
<1>13. QED BY <1>3, <1>6, <1>7, <1>8, <1>9, <1>10, <1>11, <1>12

\* A leg enters the wire: its row is the newest, and nothing of its send was answered.
LEMMA OpenKeeps == ASSUME EconomyInv, OpenRow PROVE EconomyInv'
<1> USE DEF EconomyInv, EconomyRowsInv
<1> DEFINE n == Len(usageRows) + 1
           row == [attempt |-> send.attempt, parent |-> IF send.at = "prepared" THEN 0 ELSE send.attempt,
                   state |-> "dispatched", reason |-> "none", usage |-> NoUsage]
<1>1. /\ send.at \in {"prepared", "substitute"} /\ usageRows' = Append(usageRows, row)
      /\ send' = [send EXCEPT !.at = "sent"] /\ UNCHANGED <<rate, economy, unnoted>>
  BY DEF OpenRow
<1>2. /\ send' \in [at : {"idle", "prepared", "substitute", "sent", "note"}, attempt : Nat, paused : BOOLEAN]
      /\ send'.at = "sent" /\ send'.attempt = send.attempt
      /\ send.attempt \in Nat /\ send.attempt # 0 /\ usageRows \in Seq(UsageRow)
  BY <1>1 DEF EconomyTypeOK, RowsAreOfSends
<1>3. /\ row \in UsageRow /\ row.attempt = send.attempt /\ row.parent \in {0, send.attempt}
      /\ row.parent = 0 => send.at = "prepared"
      /\ row.state = "dispatched" /\ row.reason = "none"
  BY <1>2 DEF UsageRow
<1> HIDE DEF row
<1>4. /\ usageRows' \in Seq(UsageRow) /\ Len(usageRows') = n /\ n \in Nat /\ usageRows'[n] = row
      /\ DOMAIN usageRows = 1 .. Len(usageRows) /\ DOMAIN usageRows' = 1 .. n
      /\ \A i \in DOMAIN usageRows : usageRows'[i] = usageRows[i]
      /\ Len(usageRows) \in Nat
  BY <1>1, <1>2, <1>3
<1>5. \A i \in DOMAIN usageRows' : i = n \/ (i \in DOMAIN usageRows /\ i < n)
  BY <1>4
<1>6. EconomyTypeOK'
  BY <1>1, <1>2, <1>4 DEF EconomyTypeOK
<1>7. RowsAreOfSends'
  BY <1>2, <1>3, <1>4, <1>5 DEF RowsAreOfSends
<1>8. \A i \in DOMAIN usageRows : usageRows[i].attempt = send.attempt =>
         ~ AnsweredRow(i) /\ send.at # "prepared" /\ usageRows[i].reason # "interrupted"
  BY <1>1 DEF SendBesideRows
<1>9. RowsInOrder'
  <2> SUFFICES ASSUME NEW i \in DOMAIN usageRows', NEW j \in DOMAIN usageRows',
                      usageRows'[i].attempt = usageRows'[j].attempt
               PROVE  /\ usageRows'[i].parent = 0 /\ usageRows'[j].parent # 0 => i < j
                      /\ usageRows'[i].state = "settled" /\ usageRows'[i].reason = "none" => j <= i
    BY DEF RowsInOrder, AnsweredRow
  <2>1. CASE i = n
    BY <1>3, <1>4, <1>5, <1>8, <2>1
  <2>2. CASE i # n /\ j = n
    BY <1>3, <1>4, <1>5, <1>8, <2>2 DEF AnsweredRow
  <2>3. CASE i # n /\ j # n
    BY <1>4, <1>5, <2>3 DEF RowsInOrder, AnsweredRow
  <2>4. QED BY <2>1, <2>2, <2>3
<1>10. SendBesideRows'
  <2>1. \A i \in DOMAIN usageRows' : usageRows'[i].attempt = send.attempt =>
           ~ AnsweredRow(i)' /\ usageRows'[i].reason # "interrupted"
    BY <1>3, <1>4, <1>5, <1>8 DEF AnsweredRow
  <2>2. QED BY <1>2, <1>3, <1>4, <2>1 DEF SendBesideRows
<1>11. ShownHasRow'
  BY <1>1, <1>2, <1>4 DEF ShownHasRow
<1>12. ShownProven'
  <2> DEFINE due == {a \in Nat : a \in unnoted' \/ (a = send'.attempt /\ send'.at # "idle")}
  <2>1. \A a \in Nat \ {0} : a = economy.sent /\ a \notin due =>
            /\ a \notin unnoted /\ ~ (a = send.attempt /\ send.at # "idle")
            /\ \A i : (i \in DOMAIN usageRows /\ usageRows[i].attempt = a)
                      <=> (i \in DOMAIN usageRows' /\ usageRows'[i].attempt = a)
    BY <1>1, <1>2, <1>3, <1>4, <1>5
  <2> HIDE DEF due
  <2>2. due = {a \in Nat : a \in unnoted' \/ (a = send'.attempt /\ send'.at # "idle")}
    BY DEF due
  <2>3. QED BY <1>1, <1>4, <1>6, <1>7, <2>1, <2>2, ShownKeeps
<1>13. FrozenStands'
  BY <1>1, <1>4, FrozenKeeps
<1>14. ServedRateIsHeld'
  BY <1>1 DEF ServedRateIsHeld
<1>15. QED BY <1>6, <1>7, <1>9, <1>10, <1>11, <1>12, <1>13, <1>14

\* The row of the leg on the wire is the newest, and open.
LEMMA SentRowIs ==
  ASSUME EconomyInv, send.at = "sent"
  PROVE  /\ Len(usageRows) \in Nat /\ DOMAIN usageRows = 1 .. Len(usageRows)
         /\ Len(usageRows) \in DOMAIN usageRows /\ usageRows[Len(usageRows)] \in UsageRow
         /\ usageRows[Len(usageRows)].state = "dispatched"
         /\ usageRows[Len(usageRows)].attempt = send.attempt
<1>1. /\ Len(usageRows) \in DOMAIN usageRows /\ usageRows[Len(usageRows)].state = "dispatched"
      /\ usageRows[Len(usageRows)].attempt = send.attempt
  BY DEF EconomyInv, EconomyRowsInv, SendBesideRows
<1>2. usageRows \in Seq(UsageRow)
  BY DEF EconomyInv, EconomyRowsInv, EconomyTypeOK
<1>3. QED BY <1>1, <1>2

\* What an interval up to n is.
LEMMA UpToIs == \A n \in Nat : \A j \in 1 .. n : j <= n
OBVIOUS

\* The leg on the wire ends: its row is settled; an answer ends the walk.
LEMMA RowEnds ==
  ASSUME EconomyInv, send.at = "sent", NEW n, n = Len(usageRows), NEW row \in UsageRow,
         row.attempt = send.attempt, row.parent = usageRows[n].parent, row.state = "settled",
         row.reason \in {"none", "send failed"},
         NEW to \in {"substitute", "note"}, row.reason = "none" => to = "note",
         usageRows' \in Seq(UsageRow), DOMAIN usageRows' = DOMAIN usageRows, usageRows'[n] = row,
         \A i \in DOMAIN usageRows : i # n => usageRows'[i] = usageRows[i],
         send' = [send EXCEPT !.at = to],
         UNCHANGED <<rate, economy, unnoted>>
  PROVE  EconomyInv'
<1> USE DEF EconomyInv, EconomyRowsInv
<1>1. /\ send' \in [at : {"idle", "prepared", "substitute", "sent", "note"}, attempt : Nat, paused : BOOLEAN]
      /\ send'.at = to /\ send'.attempt = send.attempt
      /\ send.attempt \in Nat /\ send.attempt # 0 /\ usageRows \in Seq(UsageRow)
  BY DEF EconomyTypeOK, RowsAreOfSends
<1>2. n \in Nat /\ DOMAIN usageRows = 1 .. n /\ n \in DOMAIN usageRows /\ usageRows[n] \in UsageRow
      /\ usageRows[n].state = "dispatched" /\ usageRows[n].attempt = send.attempt
  BY SentRowIs
<1>6. \A i \in DOMAIN usageRows : /\ usageRows'[i].attempt = usageRows[i].attempt
                                  /\ usageRows'[i].parent = usageRows[i].parent
  BY <1>2
<1>7. EconomyTypeOK'
  BY <1>1 DEF EconomyTypeOK
<1>8. RowsAreOfSends'
  BY <1>1, <1>6 DEF RowsAreOfSends
<1>9. RowsInOrder'
  <2>1. \A i, j \in DOMAIN usageRows : usageRows[i].attempt = usageRows[j].attempt =>
           /\ usageRows[i].parent = 0 /\ usageRows[j].parent # 0 => i < j
           /\ usageRows[i].state = "settled" /\ usageRows[i].reason = "none" => j <= i
    BY DEF RowsInOrder, AnsweredRow
  <2>2. \A j \in DOMAIN usageRows : j <= n
    <3>1. n \in Nat /\ DOMAIN usageRows = 1 .. n
      BY <1>2
    <3>2. \A j \in 1 .. n : j <= n
      BY <3>1, UpToIs, Zenon
    <3>3. QED BY <3>1, <3>2, Zenon
  <2>3. \A i, j \in DOMAIN usageRows : usageRows[i].attempt = usageRows[j].attempt =>
           /\ usageRows[i].parent = 0 /\ usageRows[j].parent # 0 => i < j
           /\ usageRows'[i].state = "settled" /\ usageRows'[i].reason = "none" => j <= i
    BY <2>1, <2>2
  <2>4. SUFFICES ASSUME NEW i \in DOMAIN usageRows', NEW j \in DOMAIN usageRows',
                        usageRows'[i].attempt = usageRows'[j].attempt
                 PROVE  /\ usageRows'[i].parent = 0 /\ usageRows'[j].parent # 0 => i < j
                        /\ usageRows'[i].state = "settled" /\ usageRows'[i].reason = "none" => j <= i
    BY DEF RowsInOrder, AnsweredRow
  <2>5. i \in DOMAIN usageRows /\ j \in DOMAIN usageRows
    BY <2>4
  <2>6. /\ usageRows'[i].parent = usageRows[i].parent /\ usageRows'[j].parent = usageRows[j].parent
        /\ usageRows[i].attempt = usageRows[j].attempt
    BY <1>6, <2>4, <2>5, Zenon
  <2>7. QED BY <2>3, <2>5, <2>6, Zenon
<1>10. SendBesideRows'
  <2>1. \A i \in DOMAIN usageRows : usageRows[i].attempt = send.attempt => ~ AnsweredRow(i)
    BY DEF SendBesideRows
  <2>2. \A i \in DOMAIN usageRows' : usageRows'[i].attempt = send'.attempt =>
           (to = "substitute" => ~ AnsweredRow(i)')
    <3> SUFFICES ASSUME NEW i \in DOMAIN usageRows, usageRows[i].attempt = send.attempt, to = "substitute"
                 PROVE  ~ (usageRows'[i].state = "settled" /\ usageRows'[i].reason = "none")
      BY <1>1, <1>6 DEF AnsweredRow
    <3>1. CASE i = n
      BY <3>1
    <3>2. CASE i # n
      BY <2>1, <3>2 DEF AnsweredRow
    <3>3. QED BY <3>1, <3>2
  <2>3. \A i \in DOMAIN usageRows : usageRows[i].attempt = send.attempt => usageRows[i].reason # "interrupted"
    BY DEF SendBesideRows
  <2>4. \A i \in DOMAIN usageRows' : usageRows'[i].attempt = send'.attempt => usageRows'[i].reason # "interrupted"
    BY <1>1, <1>6, <2>3
  <2>5. QED BY <1>1, <2>2, <2>4 DEF SendBesideRows
<1>11. ShownHasRow'
  BY <1>1, <1>6 DEF ShownHasRow
<1>12. ShownProven'
  <2> DEFINE due == {a \in Nat : a \in unnoted' \/ (a = send'.attempt /\ send'.at # "idle")}
  <2>1. \A a \in Nat \ {0} : a = economy.sent /\ a \notin due =>
            /\ a \notin unnoted /\ ~ (a = send.attempt /\ send.at # "idle")
            /\ \A i : (i \in DOMAIN usageRows /\ usageRows[i].attempt = a)
                      <=> (i \in DOMAIN usageRows' /\ usageRows'[i].attempt = a)
            /\ \A i \in DOMAIN usageRows : usageRows[i].attempt = a => usageRows'[i] = usageRows[i]
    BY <1>1, <1>2, <1>6
  <2> HIDE DEF due
  <2>2. due = {a \in Nat : a \in unnoted' \/ (a = send'.attempt /\ send'.at # "idle")}
    BY DEF due
  <2>3. economy' = economy
    OBVIOUS
  <2>4. QED BY <1>7, <1>8, <2>1, <2>2, <2>3, ShownKeeps
<1>13. FrozenStands'
  BY <1>2, FrozenKeeps
<1>14. ServedRateIsHeld'
  BY DEF ServedRateIsHeld
<1>15. QED BY <1>7, <1>8, <1>9, <1>10, <1>11, <1>12, <1>13, <1>14

\* A crash and the next open: what was open is settled as interrupted, and the
\* snapshot starts over.
LEMMA RestartKeeps == ASSUME EconomyInv, RestartEconomy PROVE EconomyInv'
<1> USE DEF EconomyInv, EconomyRowsInv
<1>1. /\ usageRows' = [i \in DOMAIN usageRows |->
             IF usageRows[i].state = "settled" THEN usageRows[i]
             ELSE EndedRow(usageRows[i], "interrupted", NoUsage)]
      /\ rate' = NotRun /\ economy' = Boot
      /\ send' = [send EXCEPT !.at = "idle", !.paused = FALSE]
  BY DEF RestartEconomy
<1>2. /\ send' \in [at : {"idle", "prepared", "substitute", "sent", "note"}, attempt : Nat, paused : BOOLEAN]
      /\ send'.at = "idle" /\ send'.paused = FALSE /\ send'.attempt = send.attempt
      /\ usageRows \in Seq(UsageRow)
  BY <1>1 DEF EconomyTypeOK
<1>3. \A i \in DOMAIN usageRows : usageRows[i] \in UsageRow
  BY <1>2
<1>4. DOMAIN usageRows' = DOMAIN usageRows
  BY <1>1
<1>5. ASSUME NEW i \in DOMAIN usageRows
      PROVE  /\ usageRows'[i] \in UsageRow
             /\ usageRows'[i].attempt = usageRows[i].attempt
             /\ usageRows'[i].parent = usageRows[i].parent
             /\ usageRows'[i].state = "settled"
             /\ usageRows'[i].reason = "none" => AnsweredRow(i)
  <2>1. CASE usageRows[i].state = "settled"
    BY <1>1, <1>3, <2>1 DEF AnsweredRow
  <2>2. CASE usageRows[i].state # "settled"
    <3> DEFINE r == EndedRow(usageRows[i], "interrupted", NoUsage)
    <3>0. usageRows[i] \in UsageRow /\ NoUsage \in Usage \cup {NoUsage}
          /\ "interrupted" \in {"none", "send failed", "interrupted"}
      BY <1>3
    <3>1. /\ r \in UsageRow /\ r.attempt = usageRows[i].attempt /\ r.parent = usageRows[i].parent
          /\ r.state = "settled" /\ r.reason = "interrupted"
      BY <3>0, EndedRowIs
    <3>2. usageRows'[i] = r
      BY <1>1, <2>2
    <3> HIDE DEF r
    <3>3. QED BY <3>1, <3>2
  <2>3. QED BY <2>1, <2>2
<1>6. usageRows' \in Seq(UsageRow)
  <2>1. DOMAIN usageRows = 1 .. Len(usageRows) /\ Len(usageRows) \in Nat
    BY <1>2
  <2>2. usageRows' \in [1 .. Len(usageRows) -> UsageRow]
    BY <1>1, <1>5, <2>1
  <2>3. QED BY <2>1, <2>2
<1>7. EconomyTypeOK'
  BY <1>1, <1>2, <1>6 DEF EconomyTypeOK, Boot
<1>8. RowsAreOfSends'
  BY <1>2, <1>4, <1>5 DEF RowsAreOfSends
<1>9. RowsInOrder'
  BY <1>4, <1>5 DEF RowsInOrder, AnsweredRow
<1>10. SendBesideRows'
  BY <1>2 DEF SendBesideRows
<1>11. ShownHasRow' /\ ShownProven'
  BY <1>1 DEF ShownHasRow, ShownProven, Boot
<1>12. FrozenStands' /\ ServedRateIsHeld'
  BY <1>1 DEF FrozenStands, ServedRateIsHeld, NotRun, Boot
<1>13. QED BY <1>7, <1>8, <1>9, <1>10, <1>11, <1>12

\* The row a refresh lands on: the newest substitute's, or else the send's own.
LEMMA LandingIs ==
  ASSUME EconomyInv, NEW a \in Nat \ {0}
  PROVE  /\ landing_settlement(a) \subseteq DOMAIN usageRows
         /\ landing_settlement(a) = {} => \A i \in DOMAIN usageRows : usageRows[i].attempt # a
         /\ \A i \in landing_settlement(a) :
              /\ usageRows[i].attempt = a
              /\ usageRows[i].parent = 0 => Own(a) # {} /\ Family(a) = {}
              /\ usageRows[i].parent # 0 /\ Answered(a) => AnsweredRow(i)
              /\ AnsweredRow(i) => Answered(a)
<1> USE DEF EconomyInv, EconomyRowsInv
<1>1. /\ Answered(a) <=> \E i \in DOMAIN usageRows : usageRows[i].attempt = a /\ AnsweredRow(i)
      /\ Own(a) = {i \in DOMAIN usageRows : usageRows[i].attempt = a /\ usageRows[i].parent = 0}
      /\ Family(a) = {i \in DOMAIN usageRows : usageRows[i].attempt = a /\ usageRows[i].parent # 0}
  BY AnsweredIs DEF RowsAreOfSends
<1>2. CASE Family(a) = {}
  <2>1. landing_settlement(a) = Own(a)
    BY <1>2 DEF landing_settlement
  <2>2. QED BY <1>1, <1>2, <2>1
<1>3. CASE Family(a) # {}
  <2> DEFINE k == NewestRow(Family(a))
  <2>1. landing_settlement(a) = {k}
    BY <1>3 DEF landing_settlement
  <2>2. k \in Family(a) /\ \A j \in Family(a) : j <= k
    BY <1>1, <1>3, NewestIs DEF EconomyTypeOK
  <2> HIDE DEF k
  <2>3. k \in DOMAIN usageRows /\ usageRows[k].attempt = a /\ usageRows[k].parent # 0
    BY <1>1, <2>2
  <2>4. DOMAIN usageRows \subseteq Int
    BY DEF EconomyTypeOK
  <2>5. ASSUME Answered(a) PROVE AnsweredRow(k)
    <3>1. PICK i \in DOMAIN usageRows : usageRows[i].attempt = a /\ AnsweredRow(i)
      BY <1>1, <2>5
    <3>2. k <= i
      BY <2>3, <3>1 DEF RowsInOrder
    <3>3. usageRows[i].parent = 0 => i < k
      BY <2>3, <3>1 DEF RowsInOrder
    <3>4. i \in Family(a)
      BY <1>1, <2>3, <2>4, <3>1, <3>2, <3>3
    <3>5. i = k
      BY <2>2, <2>3, <2>4, <3>1, <3>2, <3>4
    <3>6. QED BY <3>1, <3>5
  <2>6. AnsweredRow(k) => Answered(a)
    BY <1>1, <2>3
  <2>7. QED BY <2>1, <2>3, <2>5, <2>6
<1>4. QED BY <1>2, <1>3

\* A refresh of the snapshot: it shows what the row it lands on proves, or keeps
\* what an older send proved.
LEMMA NoteKeeps == ASSUME EconomyInv, NEW ok \in BOOLEAN, note_send_outcome(ok) PROVE EconomyInv'
<1> USE DEF EconomyInv, EconomyRowsInv
<1> DEFINE s == send.attempt
           L == landing_settlement(s)
           k == CHOOSE i \in L : TRUE
<1>1. /\ send.at = "note" /\ s \in Nat \ {0} /\ send' = [send EXCEPT !.at = "idle"]
      /\ usageRows' = usageRows /\ rate' = rate
      /\ economy' = IF ok THEN project_economy(s, rate) ELSE economy
      /\ unnoted' = IF ok THEN unnoted \ {s} ELSE unnoted \cup {s}
  BY DEF note_send_outcome, EconomyTypeOK, RowsAreOfSends
<1>2. /\ send' \in [at : {"idle", "prepared", "substitute", "sent", "note"}, attempt : Nat, paused : BOOLEAN]
      /\ send'.at = "idle" /\ send'.attempt = s /\ send'.paused = send.paused
  BY <1>1 DEF EconomyTypeOK
<1>3. /\ L \subseteq DOMAIN usageRows
      /\ L = {} => \A i \in DOMAIN usageRows : usageRows[i].attempt # s
      /\ \A i \in L : /\ usageRows[i].attempt = s
                      /\ usageRows[i].parent = 0 => Own(s) # {} /\ Family(s) = {}
                      /\ usageRows[i].parent # 0 /\ Answered(s) => AnsweredRow(i)
                      /\ AnsweredRow(i) => Answered(s)
  BY <1>1, LandingIs
<1>4. RowsAreOfSends' /\ RowsInOrder'
  BY <1>1, <1>2 DEF RowsAreOfSends, RowsInOrder, AnsweredRow
<1>5. \A i \in DOMAIN usageRows : usageRows[i].attempt = s => usageRows[i].reason # "interrupted"
  BY <1>1 DEF SendBesideRows
<1>6. SendBesideRows'
  BY <1>1, <1>2, <1>5 DEF SendBesideRows
<1>7. FrozenStands'
  BY <1>1, FrozenKeeps
<1>8. economy = [sent |-> economy.sent, named |-> economy.named, source |-> economy.source, rate |-> economy.rate]
      /\ economy.sent \in Nat /\ economy.rate = rate
  BY DEF EconomyTypeOK, ServedRateIsHeld
<1>9. CASE ok /\ L # {}
  <2>1. k \in L /\ k \in DOMAIN usageRows /\ usageRows[k] \in UsageRow
    BY <1>3, <1>9 DEF EconomyTypeOK
  <2>2. economy' = [sent |-> s, named |-> usageRows[k].parent = 0, source |-> SourceOf(usageRows[k]), rate |-> rate]
    BY <1>1, <1>9 DEF project_economy
  <2> HIDE DEF k, L
  <2>3. economy'.sent = s /\ economy'.named = (usageRows[k].parent = 0)
        /\ economy'.source = SourceOf(usageRows[k]) /\ economy'.rate = rate
        /\ economy' = [sent |-> economy'.sent, named |-> economy'.named, source |-> economy'.source, rate |-> economy'.rate]
    BY <2>2
  <2>4. EconomyTypeOK' /\ ServedRateIsHeld'
    BY <1>1, <1>2, <2>3 DEF EconomyTypeOK, ServedRateIsHeld
  <2>5. ShownHasRow'
    BY <1>1, <1>2, <1>3, <2>1, <2>3 DEF ShownHasRow
  <2>6. ProvenAt(s, usageRows[k].parent = 0, SourceOf(usageRows[k]))
    <3>1. usageRows[k].state \in {"dispatched", "settled"} /\ usageRows[k].reason \in {"none", "send failed"}
          /\ usageRows[k].parent \in Nat
      BY <1>3, <1>5, <2>1, RowIs
    <3>2. usageRows[k].parent = 0 => SourceOf(usageRows[k]) = "prepared"
      BY <3>1 DEF SourceOf
    <3>3. usageRows[k].parent # 0 /\ AnsweredRow(k) => SourceOf(usageRows[k]) = "fallback answered"
      BY DEF SourceOf, AnsweredRow
    <3>4. usageRows[k].parent # 0 /\ ~ AnsweredRow(k) =>
             SourceOf(usageRows[k]) \in {"fallback unresolved", "no fallback answered"}
      BY <3>1 DEF SourceOf, AnsweredRow
    <3>5. QED BY <1>3, <2>1, <3>2, <3>3, <3>4 DEF ProvenAt
  <2>7. ShownProven'
    <3> SUFFICES ASSUME NEW a \in Nat \ {0}, a = s
                 PROVE  ProvenAt(a, economy.named, economy.source)'
      BY <2>3 DEF ShownProven
    <3>1. Own(a)' = Own(a) /\ Family(a)' = Family(a) /\ Answered(a)' = Answered(a)
      BY <1>1 DEF Own, Family, Answered
    <3>2. /\ economy'.named => Own(a) # {} /\ Family(a) = {}
          /\ economy'.source = "fallback answered" => Answered(a)
          /\ economy'.source \in {"fallback unresolved", "no fallback answered"} => ~ Answered(a)
      BY <2>3, <2>6 DEF ProvenAt
    <3>3. QED BY <3>1, <3>2 DEF ProvenAt
  <2>8. QED BY <1>4, <1>6, <1>7, <2>4, <2>5, <2>7
<1>10. CASE ~ (ok /\ L # {})
  <2>1. economy' = [economy EXCEPT !.rate = rate] \/ economy' = economy
    BY <1>1, <1>10 DEF project_economy
  <2>2. /\ economy'.sent = economy.sent /\ economy'.named = economy.named /\ economy'.source = economy.source
        /\ economy'.rate = rate
        /\ economy' = [sent |-> economy'.sent, named |-> economy'.named, source |-> economy'.source, rate |-> economy'.rate]
    BY <1>8, <2>1
  <2>3. EconomyTypeOK' /\ ServedRateIsHeld'
    BY <1>1, <1>2, <2>2 DEF EconomyTypeOK, ServedRateIsHeld
  <2>4. ShownHasRow'
    BY <1>1, <1>2, <2>2 DEF ShownHasRow
  <2>5. economy.sent # 0 /\ economy.sent \notin unnoted' => economy.sent # s /\ economy.sent \notin unnoted
    BY <1>1, <1>3, <1>10 DEF ShownHasRow
  <2>6. ShownProven'
    <3> DEFINE due == {a \in Nat : a \in unnoted' \/ (a = send'.attempt /\ send'.at # "idle")}
    <3>1. \A a \in Nat \ {0} : a = economy.sent /\ a \notin due =>
              a \notin unnoted /\ ~ (a = send.attempt /\ send.at # "idle")
      BY <2>5
    <3> HIDE DEF due
    <3>2. due = {a \in Nat : a \in unnoted' \/ (a = send'.attempt /\ send'.at # "idle")}
      BY DEF due
    <3>3. QED BY <1>1, <1>4, <2>2, <2>3, <3>1, <3>2, ShownKeeps
  <2>7. QED BY <1>4, <1>6, <1>7, <2>3, <2>4, <2>6
<1>11. QED BY <1>9, <1>10

\* A freeze: its cohort has ended, every row of it counts once, and it enters
\* service with the snapshot.
LEMMA FreezeKeeps ==
  ASSUME EconomyInv, NEW cohort \in Cohorts, NEW cold \in BOOLEAN, NEW ok \in BOOLEAN,
         freeze_cache_cohort(cohort, cold, ok)
  PROVE  EconomyInv'
<1> USE DEF EconomyInv, EconomyRowsInv
<1> DEFINE r == cache_read_rate(cohort, cold)
<1>0. usageRows' = usageRows /\ send' = send /\ unnoted' = unnoted
  BY DEF freeze_cache_cohort
<1>1. economy = [sent |-> economy.sent, named |-> economy.named, source |-> economy.source, rate |-> economy.rate]
  BY DEF EconomyTypeOK
<1>2. /\ economy'.sent = economy.sent /\ economy'.named = economy.named /\ economy'.source = economy.source
      /\ economy' = [sent |-> economy'.sent, named |-> economy'.named, source |-> economy'.source, rate |-> economy'.rate]
      /\ economy'.rate = rate'
      /\ rate' = rate \/ (rate' = r /\ ~ RefusedCohort(cohort))
  <2>1. \/ rate' = rate /\ economy' = economy
        \/ rate' = r /\ economy' = [economy EXCEPT !.rate = r] /\ ~ RefusedCohort(cohort)
    BY DEF freeze_cache_cohort, Swap, project_economy
  <2> HIDE DEF r
  <2>2. QED BY <1>1, <2>1 DEF ServedRateIsHeld
<1>3. EconomyTypeOK' /\ RowsAreOfSends' /\ ServedRateIsHeld'
  BY <1>0, <1>2 DEF EconomyTypeOK, RowsAreOfSends, ServedRateIsHeld
<1>4. RowsInOrder' /\ SendBesideRows' /\ ShownHasRow'
  BY <1>0, <1>2 DEF RowsInOrder, SendBesideRows, ShownHasRow, AnsweredRow
<1>5. ShownProven'
  <2> DEFINE due == {a \in Nat : a \in unnoted' \/ (a = send'.attempt /\ send'.at # "idle")}
  <2>1. \A a \in Nat \ {0} : a = economy.sent /\ a \notin due =>
            a \notin unnoted /\ ~ (a = send.attempt /\ send.at # "idle")
    BY <1>0
  <2> HIDE DEF due
  <2>2. due = {a \in Nat : a \in unnoted' \/ (a = send'.attempt /\ send'.at # "idle")}
    BY DEF due
  <2>3. QED BY <1>0, <1>2, <1>3, <2>1, <2>2, ShownKeeps
<1>6. FrozenStands'
  <2>1. CASE rate' = rate
    BY <1>0, <2>1, FrozenKeeps
  <2>2. CASE rate' = r /\ ~ RefusedCohort(cohort)
    <3>1. /\ usageRows \in Seq(UsageRow) /\ Len(usageRows) \in Nat /\ DOMAIN usageRows = 1 .. Len(usageRows)
      BY DEF EconomyTypeOK
    <3>2. /\ cohort # {} /\ cohort \subseteq Nat \ {0}
          /\ \A i \in cohort : ~ (i > Len(usageRows)) /\ usageRows[i].state # "dispatched"
      BY <2>2, EconomyAssumption DEF RefusedCohort
    <3>3. cohort \subseteq 1 .. Len(usageRows)
      BY <3>1, <3>2
    <3>4. \A i \in cohort : i \in DOMAIN usageRows /\ usageRows[i].state = "settled"
      <4> SUFFICES ASSUME NEW i \in cohort PROVE i \in DOMAIN usageRows /\ usageRows[i].state = "settled"
        OBVIOUS
      <4>1. i \in DOMAIN usageRows /\ usageRows[i] \in UsageRow
        BY <3>1, <3>3
      <4>2. QED BY <3>2, <4>1, RowIs
    <3>5. IsFiniteSet(cohort)
      <4>1. IsFiniteSet(1 .. Len(usageRows))
        BY <3>1, FS_Interval
      <4>2. QED BY <3>3, <4>1, FS_Subset
    <3>6. /\ r.kind # "not run" /\ r.cohort = cohort /\ r.cold = cold
          /\ r.measured + r.censored + r.excluded = Cardinality(cohort)
      BY <3>5, RateCounts
    <3>7. cache_read_rate(cohort, cold)' = r
      BY <1>0, RateUnmoved
    <3> HIDE DEF r
    <3>8. SUFFICES ASSUME NEW other, NEW cool, other = rate'.cohort, cool = rate'.cold
                   PROVE  FrozenOver(other, cool)'
      BY DEF FrozenStands
    <3>9. other = cohort /\ cool = cold
      BY <2>2, <3>6, <3>8
    <3>10. FrozenOver(cohort, cold)'
      BY <1>0, <2>2, <3>2, <3>4, <3>6, <3>7 DEF FrozenOver
    <3>11. QED BY <3>9, <3>10
  <2>3. QED BY <1>2, <2>1, <2>2
<1>7. QED BY <1>3, <1>4, <1>5, <1>6

\* One row of the settlement table is written; the others stand.
LEMMA RowPut ==
  ASSUME NEW n, NEW row \in UsageRow, usageRows \in Seq(UsageRow), n \in 1 .. Len(usageRows),
         usageRows' = [usageRows EXCEPT ![n] = row]
  PROVE  /\ usageRows' \in Seq(UsageRow) /\ DOMAIN usageRows' = DOMAIN usageRows /\ usageRows'[n] = row
         /\ \A i \in DOMAIN usageRows : i # n => usageRows'[i] = usageRows[i]
<1>1. usageRows \in [1 .. Len(usageRows) -> UsageRow] /\ Len(usageRows) \in Nat
      /\ DOMAIN usageRows = 1 .. Len(usageRows)
  OBVIOUS
<1>2. usageRows' \in [1 .. Len(usageRows) -> UsageRow]
  BY <1>1
<1>3. usageRows' \in Seq(UsageRow)
  BY <1>1, <1>2
<1>4. QED BY <1>1, <1>2, <1>3

\* The leg on the wire ends with an answer or without one, at its own row.
LEMMA LegEnds ==
  ASSUME NEW reason \in {"none", "send failed"}, NEW usage \in Usage \cup {NoUsage},
         NEW to \in {"substitute", "note"}, reason = "none" => to = "note"
  PROVE  EconomyInv /\ send.at = "sent"
         /\ usageRows' = [usageRows EXCEPT ![Len(usageRows)] =
                             EndedRow(usageRows[Len(usageRows)], reason, usage)]
         /\ send' = [send EXCEPT !.at = to] /\ UNCHANGED <<rate, economy, unnoted>>
         => EconomyInv'
<1>0. SUFFICES ASSUME EconomyInv, send.at = "sent",
                      usageRows' = [usageRows EXCEPT ![Len(usageRows)] =
                                       EndedRow(usageRows[Len(usageRows)], reason, usage)],
                      send' = [send EXCEPT !.at = to], UNCHANGED <<rate, economy, unnoted>>
               PROVE  EconomyInv'
  OBVIOUS
<1>1. /\ Len(usageRows) \in 1 .. Len(usageRows) /\ usageRows[Len(usageRows)] \in UsageRow
      /\ usageRows[Len(usageRows)].attempt = send.attempt /\ usageRows \in Seq(UsageRow)
  BY <1>0, SentRowIs DEF EconomyInv, EconomyRowsInv, EconomyTypeOK
<1>2. PICK n : n = Len(usageRows)
  OBVIOUS
<1>3. n \in 1 .. Len(usageRows) /\ usageRows[n] \in UsageRow /\ usageRows[n].attempt = send.attempt
  BY <1>1, <1>2
<1>4. PICK row : row = EndedRow(usageRows[n], reason, usage)
  OBVIOUS
<1>5. reason \in {"none", "send failed", "interrupted"} /\ usage \in Usage \cup {NoUsage}
  OBVIOUS
<1>6. /\ row \in UsageRow /\ row.attempt = usageRows[n].attempt /\ row.parent = usageRows[n].parent
      /\ row.state = "settled" /\ row.reason = reason
  <2>1. /\ EndedRow(usageRows[n], reason, usage) \in UsageRow
        /\ EndedRow(usageRows[n], reason, usage).attempt = usageRows[n].attempt
        /\ EndedRow(usageRows[n], reason, usage).parent = usageRows[n].parent
        /\ EndedRow(usageRows[n], reason, usage).state = "settled"
        /\ EndedRow(usageRows[n], reason, usage).reason = reason
    BY <1>3, <1>5, EndedRowIs
  <2>2. QED BY <1>4, <2>1
<1>7. usageRows' = [usageRows EXCEPT ![n] = row]
  BY <1>0, <1>2, <1>4
<1>8. /\ usageRows' \in Seq(UsageRow) /\ DOMAIN usageRows' = DOMAIN usageRows /\ usageRows'[n] = row
      /\ \A i \in DOMAIN usageRows : i # n => usageRows'[i] = usageRows[i]
  BY <1>1, <1>3, <1>6, <1>7, RowPut
<1>9. /\ row.attempt = send.attempt /\ row.reason \in {"none", "send failed"}
      /\ row.reason = "none" => to = "note"
  BY <1>3, <1>6
<1>10. /\ send.at = "sent" /\ send' = [send EXCEPT !.at = to] /\ to \in {"substitute", "note"}
       /\ UNCHANGED <<rate, economy, unnoted>> /\ row.parent = usageRows[n].parent /\ row.state = "settled" /\ EconomyInv
  BY <1>0, <1>6
<1>11. QED BY <1>2, <1>6, <1>8, <1>9, <1>10, RowEnds

\* At first there are no rows, and nothing is shown.
LEMMA EconomyInvInit == EconomyInit => EconomyInv
<1> SUFFICES ASSUME EconomyInit PROVE EconomyInv
  OBVIOUS
<1>1. usageRows = <<>> /\ DOMAIN usageRows = {} /\ usageRows \in Seq(UsageRow)
  BY DEF EconomyInit
<1>2. EconomyTypeOK /\ RowsAreOfSends /\ RowsInOrder /\ SendBesideRows /\ ShownHasRow
  BY <1>1 DEF EconomyInit, EconomyTypeOK, RowsAreOfSends, RowsInOrder, SendBesideRows, ShownHasRow, Boot
<1>3. ShownProven /\ FrozenStands /\ ServedRateIsHeld
  BY DEF EconomyInit, ShownProven, FrozenStands, ServedRateIsHeld, Boot, NotRun
<1>4. QED BY <1>2, <1>3 DEF EconomyInv, EconomyRowsInv

\* Every step of the sends and of the snapshot keeps the invariant.
LEMMA EconomyInvNext == EconomyInv /\ [EconomyNext]_economyVars => EconomyInv'
<1> SUFFICES ASSUME EconomyInv, [EconomyNext]_economyVars PROVE EconomyInv'
  OBVIOUS
<1>1. CASE UNCHANGED economyVars
  <2>1. UNCHANGED <<usageRows, send, rate, economy, unnoted>>
    BY <1>1 DEF economyVars
  <2>2. EconomyRowsInv'
    BY <2>1 DEF EconomyInv, EconomyRowsInv, EconomyTypeOK, RowsAreOfSends, RowsInOrder, SendBesideRows,
       ShownHasRow, AnsweredRow
  <2>3. FrozenStands'
    BY <2>1, FrozenKeeps DEF EconomyInv
  <2>4. ShownProven' /\ ServedRateIsHeld'
    <3>1. \A a : Own(a)' = Own(a) /\ Family(a)' = Family(a) /\ Answered(a)' = Answered(a)
      BY <2>1 DEF Own, Family, Answered
    <3>2. ShownProven'
      BY <2>1, <3>1 DEF EconomyInv, ShownProven, ProvenAt
    <3>3. ServedRateIsHeld'
      BY <2>1 DEF EconomyInv, ServedRateIsHeld
    <3>4. QED BY <3>2, <3>3
  <2>5. QED BY <2>2, <2>3, <2>4 DEF EconomyInv
<1>2. CASE PrepareSend
  BY <1>2, PrepareKeeps
<1>3. CASE PickSubstitute
  <2>1. /\ send' = [send EXCEPT !.at = "substitute"] /\ send.at = "idle" /\ send.paused
        /\ ~ Answered(send.attempt) /\ UNCHANGED <<usageRows, rate, economy, unnoted>>
    BY <1>3 DEF PickSubstitute
  <2>2. send.attempt \in Nat \ {0} /\ \A i \in DOMAIN usageRows : usageRows[i].parent \in {0, usageRows[i].attempt}
    BY <2>1 DEF EconomyInv, EconomyRowsInv, EconomyTypeOK, RowsAreOfSends
  <2>3. \A i \in DOMAIN usageRows : usageRows[i].attempt = send.attempt => ~ AnsweredRow(i)
    BY <2>1, <2>2, AnsweredIs
  <2>4. QED BY <2>1, <2>3, MoveKeeps
<1>4. CASE OpenRow
  BY <1>4, OpenKeeps
<1>5. CASE EndWalk \/ DeniedLeg \/ EndLost
  <2>1. \A i \in DOMAIN usageRows : usageRows[i].attempt = send.attempt => ~ AnsweredRow(i)
    BY <1>5 DEF EndWalk, DeniedLeg, EndLost, EconomyInv, EconomyRowsInv, SendBesideRows
  <2>2. \E to \in {"substitute", "note"} : send' = [send EXCEPT !.at = to]
    BY <1>5 DEF EndWalk, DeniedLeg, EndLost
  <2>3. send.at \in {"prepared", "substitute", "sent"} /\ UNCHANGED <<usageRows, rate, economy, unnoted>>
    BY <1>5 DEF EndWalk, DeniedLeg, EndLost
  <2>4. QED BY <2>1, <2>2, <2>3, MoveKeeps
<1>7. ASSUME NEW usage \in Usage, EndAnswered(usage) PROVE EconomyInv'
  <2>1. usage \in Usage \cup {NoUsage} /\ "none" \in {"none", "send failed"} /\ "note" \in {"substitute", "note"}
    OBVIOUS
  <2>2. QED BY <1>7, <2>1, LegEnds DEF EndAnswered
<1>8. ASSUME NEW to \in {"substitute", "note"}, EndFailed(to) PROVE EconomyInv'
  <2>1. NoUsage \in Usage \cup {NoUsage} /\ "send failed" \in {"none", "send failed"} /\ "send failed" # "none"
    OBVIOUS
  <2>2. QED BY <1>8, <2>1, LegEnds DEF EndFailed
<1>9. CASE RestartEconomy
  BY <1>9, RestartKeeps
<1>10. ASSUME NEW ok \in BOOLEAN, note_send_outcome(ok) PROVE EconomyInv'
  BY <1>10, NoteKeeps
<1>11. ASSUME NEW cohort \in Cohorts, NEW cold \in BOOLEAN, NEW ok \in BOOLEAN,
              freeze_cache_cohort(cohort, cold, ok)
       PROVE  EconomyInv'
  BY <1>11, FreezeKeeps
<1>12. QED BY <1>1, <1>2, <1>3, <1>4, <1>5, <1>7, <1>8, <1>9, <1>10, <1>11 DEF EconomyNext

\* Whatever is sent, retried, frozen, refreshed or lost in a crash: a frozen rate
\* is the rate of its rows, the rate served is the rate held, and what is shown
\* of a send is proven by its rows (cache_read_rate, freeze_cache_cohort,
\* project_economy).
THEOREM EconomySafe == EconomySpec => []EconomyIsProven
<1>1. EconomyInv => EconomyIsProven
  <2> SUFFICES ASSUME EconomyInv PROVE FrozenRateStands /\ ServedRateIsHeld /\ ShownIsProven
    BY DEF EconomyIsProven
  <2>1. FrozenRateStands
    BY DEF EconomyInv, FrozenStands, FrozenOver, FrozenRateStands
  <2>2. economy.sent \in Nat
    BY DEF EconomyInv, EconomyRowsInv, EconomyTypeOK
  <2>3. ShownIsProven
    BY <2>2 DEF EconomyInv, ShownProven, ProvenAt, ShownIsProven
  <2>4. QED BY <2>1, <2>3 DEF EconomyInv
<1>2. QED BY <1>1, EconomyInvInit, EconomyInvNext, PTL DEF EconomySpec

-----------------------------------------------------------------------------
(***************************************************************************)
(* The decision step over the ledger.  A chain the gate let through holds  *)
(* no stopped worker until its step ends, and between two sends every row  *)
(* whose end could be recorded is settled, so that what begin_send counts  *)
(* is all there is.                                                        *)
(***************************************************************************)

\* A reservation that was never made names no scope.
ScopesAreReserved == \A i \in Id : resv[i].state = "none" => resv[i].scopes = {}

\* The running step's chain was found free of stopped workers and still is.
StepMayGo ==
    /\ step = Idle \/ (\E c \in Chains : step = Running(c))
    /\ step.on => \A s \in ScopesOf(step.chain) : work[s].state # "stopped"

WorkInv == IInv /\ ScopesAreReserved /\ StepMayGo

\* A dispatch that no worker of its scopes forbids.
DispatchIsAllowed ==
    \A a \in Attempt, s \in Scope :
        rows[a].state = "none" /\ rows'[a].state = "dispatched" /\ s \in resv'[a].scopes
          => /\ work[s].state # "stopped"
             /\ work[s].state # "none"
                  => Cardinality({ b \in Attempt \ lost : s \in resv[b].scopes })
                       < work[s].sends


\* With no send open, every row at a scope is settled or lost, so the settled
\* rows are all the rows that are not lost (WORK_BUDGET_SEND_STATE).
LEMMA SettledAreAll ==
  ASSUME IInv, ScopesAreReserved, phase = "serving", tickets = {}, NEW s \in Scope
  PROVE  /\ Cardinality({ b \in Attempt \ lost : s \in resv[b].scopes }) <= SettledSends(s)
         /\ SettledSends(s) \in Nat
<1> DEFINE all == { b \in Attempt \ lost : s \in resv[b].scopes }
           counted == { a \in InState(rows, "settled") : s \in resv[a].scopes }
<1>1. /\ rows \in [Attempt -> SettlementRow] /\ RowsMatchReservations
      /\ InState(rows, "dispatched") = lost
  BY DEF IInv, Core, Recovery, NoOrphanSend
<1>2. Attempt \subseteq Id /\ MaxAttempts \in Nat
  BY MaxIdNat
<1>3. all \subseteq counted
  <2> SUFFICES ASSUME NEW b \in Attempt, b \notin lost, s \in resv[b].scopes
               PROVE  rows[b].state = "settled"
    BY DEF InState
  <2>1. rows[b].state # "dispatched"
    BY <1>1 DEF InState
  <2>2. rows[b].state # "none"
    BY <1>1, <1>2 DEF ScopesAreReserved, RowsMatchReservations
  <2>3. rows[b].state \in {"none", "dispatched", "settled"}
    BY <1>1 DEF SettlementRow
  <2>4. QED BY <2>1, <2>2, <2>3
<1>4. IsFiniteSet(Attempt)
  BY <1>2, FS_Interval DEF Attempt
<1>5. counted \subseteq Attempt
  BY DEF InState
<1>6. IsFiniteSet(counted)
  BY <1>4, <1>5, FS_Subset
<1> HIDE DEF all, counted
<1>7. Cardinality(all) <= Cardinality(counted) /\ Cardinality(counted) \in Nat
  BY <1>3, <1>6, FS_Subset, FS_CardinalityType
<1>8. QED BY <1>7 DEF all, counted, SettledSends

\* begin_send over scopes whose workers are not stopped, while no other send is
\* open: allowed, and only its own row is dispatched.
LEMMA SendIsAllowed ==
  ASSUME WorkInv, NEW a \in Attempt, NEW S, NEW b \in Bounds, tickets = {},
         \A s \in S \cap Scope : work[s].state # "stopped",
         BeginSend(a, S \cap Scope, b)
  PROVE  DispatchIsAllowed
<1>1. /\ rows \in [Attempt -> SettlementRow] /\ work \in [Scope -> WorkRow]
      /\ resv \in [Id -> ReservationRow] /\ Attempt \subseteq Id
  BY MaxIdNat DEF WorkInv, IInv, Core, OpenTypes, Tables
<1> DEFINE open == { s \in S \cap Scope : budget[s].open }
<1>2. /\ phase = "serving" /\ Fresh(a)
      /\ \A s \in open : ~ AtSendBound(s)
      /\ IF open = {} THEN UNCHANGED <<resv, budget>> ELSE Reserved(a, open, b)
      /\ \E row : row.state = "dispatched" /\ rows' = [rows EXCEPT ![a] = row]
  <2>1. DispatchedRow(NextRowid(rows, totals), b).state = "dispatched"
    BY DEF DispatchedRow
  <2>2. rows' = [rows EXCEPT ![a] = DispatchedRow(NextRowid(rows, totals), b)]
    BY DEF BeginSend
  <2>3. QED BY <2>1, <2>2 DEF BeginSend
<1>3. resv[a].scopes = {} /\ resv[a].state = "none"
  BY <1>1, <1>2 DEF Fresh, WorkInv, IInv, Core, RowsMatchReservations, ScopesAreReserved
<1>4. resv'[a].scopes \subseteq open
  <2>1. CASE open = {}
    BY <1>2, <1>3, <2>1
  <2>2. CASE open # {}
    BY <1>1, <1>2, <2>2 DEF Reserved
  <2>3. QED BY <2>1, <2>2
<1> HIDE DEF open
<1> SUFFICES ASSUME NEW c \in Attempt, NEW s \in Scope,
                    rows[c].state = "none", rows'[c].state = "dispatched",
                    s \in resv'[c].scopes
             PROVE  /\ work[s].state # "stopped"
                    /\ work[s].state # "none"
                         => Cardinality({ x \in Attempt \ lost : s \in resv[x].scopes })
                              < work[s].sends
  BY DEF DispatchIsAllowed
<1>5. c = a
  BY <1>1, <1>2
<1>6. s \in open /\ work[s].state # "stopped"
  BY <1>4, <1>5 DEF open
<1>7. work[s].state \in {"none", "open", "stopped"} /\ work[s].sends \in Int
  <2>1. work[s] \in WorkRow
    BY <1>1
  <2>2. QED BY <2>1 DEF WorkRow
<1>8. /\ Cardinality({ x \in Attempt \ lost : s \in resv[x].scopes }) <= SettledSends(s)
      /\ SettledSends(s) \in Nat
  BY <1>2, SettledAreAll DEF WorkInv
<1>9. work[s].state = "open" => SettledSends(s) < work[s].sends
  BY <1>2, <1>6, <1>7, <1>8 DEF AtSendBound
<1>10. Cardinality({ x \in Attempt \ lost : s \in resv[x].scopes }) \in Nat
  <2>1. IsFiniteSet(Attempt) /\ { x \in Attempt \ lost : s \in resv[x].scopes } \subseteq Attempt
    BY MaxIdNat, FS_Interval DEF Attempt
  <2>2. QED BY <2>1, FS_Subset, FS_CardinalityType
<1> DEFINE n == Cardinality({ x \in Attempt \ lost : s \in resv[x].scopes })
<1> HIDE DEF n
<1>11. work[s].state = "open" => n < work[s].sends
  BY <1>7, <1>8, <1>9, <1>10 DEF n
<1>12. QED BY <1>6, <1>7, <1>11 DEF n

\* The edits of the reservations: a row is kept, or is no longer unmade.
LEMMA ReservedScopes ==
  ASSUME ScopesAreReserved, \A i \in Id : resv'[i] = resv[i] \/ resv'[i].state # "none"
  PROVE  ScopesAreReserved'
BY DEF ScopesAreReserved

\* A step of the ledger that leaves the reservations as they are, the decision
\* step idle or as it was, and dispatches nothing.
LEMMA BoundKept ==
  ASSUME WorkInv, [Next]_vars, UNCHANGED resv,
         step' = Idle \/ (step' = step /\ UNCHANGED work),
         \A a \in Attempt : rows[a].state = "none" => rows'[a].state # "dispatched"
  PROVE  WorkInv' /\ DispatchIsAllowed
<1>1. IInv'
  BY NextIInv DEF WorkInv
<1>2. ScopesAreReserved'
  BY DEF WorkInv, ScopesAreReserved
<1>3. StepMayGo'
  BY DEF WorkInv, StepMayGo, Idle
<1>4. QED BY <1>1, <1>2, <1>3 DEF WorkInv, DispatchIsAllowed

\* A send of the step, or of a semantic action, keeps the invariant.
LEMMA SendKeeps ==
  ASSUME WorkInv, NEW a \in Attempt, NEW S, NEW b \in Bounds, tickets = {},
         \A s \in S \cap Scope : work[s].state # "stopped",
         BeginSend(a, S \cap Scope, b), UNCHANGED step
  PROVE  WorkInv' /\ DispatchIsAllowed
<1>1. DispatchIsAllowed
  BY SendIsAllowed
<1>2. [Next]_vars
  <2>1. S \cap Scope \in SUBSET Scope
    OBVIOUS
  <2> HIDE DEF BeginSend
  <2>2. QED BY <2>1 DEF Next
<1>3. IInv'
  BY <1>2, NextIInv DEF WorkInv
<1>4. \A i \in Id : resv'[i] = resv[i] \/ resv'[i].state # "none"
  <2>1. resv \in [Id -> ReservationRow]
    BY DEF WorkInv, IInv, Core, Tables
  <2> DEFINE open == { s \in S \cap Scope : budget[s].open }
  <2>2. UNCHANGED resv \/ Reserved(a, open, b)
    BY DEF BeginSend
  <2>3. CASE Reserved(a, open, b)
    BY <2>1, <2>3 DEF Reserved
  <2>4. QED BY <2>2, <2>3
<1>5. UNCHANGED work
  BY DEF BeginSend
<1>6. StepMayGo'
  BY <1>5 DEF WorkInv, StepMayGo
<1>7. QED BY <1>1, <1>3, <1>4, <1>6, ReservedScopes DEF WorkInv

\* finish_send keeps it: a row is settled and its reservation charged.
LEMMA EndKeeps ==
  ASSUME WorkInv, NEW a \in Attempt, NEW p \in OrNull(Tokens), NEW t \in OrNull(Tokens),
         EndLeg(a, p, t)
  PROVE  WorkInv' /\ DispatchIsAllowed
<1>1. FinishSend(a, p, t) /\ (step' = Idle \/ step' = step)
  BY DEF EndLeg
<1>2. [Next]_vars
  BY <1>1 DEF Next
<1>3. IInv'
  BY <1>2, NextIInv DEF WorkInv
<1>4. resv \in [Id -> ReservationRow] /\ rows \in [Attempt -> SettlementRow]
  BY DEF WorkInv, IInv, Core, Tables
<1>5. \A i \in Id : resv'[i] = resv[i] \/ resv'[i].state # "none"
  <2>1. UNCHANGED resv \/ Charged(a, ChargeOf(a, t))
    BY <1>1 DEF FinishSend
  <2>2. CASE Charged(a, ChargeOf(a, t))
    <3>1. Resolved(resv[a], "charged", ChargeOf(a, t)).state # "none"
      BY DEF Resolved
    <3>2. resv' = [resv EXCEPT ![a] = Resolved(resv[a], "charged", ChargeOf(a, t))]
      BY <2>2 DEF Charged
    <3>3. QED BY <1>4, <3>1, <3>2
  <2>3. QED BY <2>1, <2>2
<1>6. UNCHANGED work
  BY <1>1 DEF FinishSend
<1>7. StepMayGo'
  BY <1>1, <1>6 DEF WorkInv, StepMayGo, Idle
<1>8. DispatchIsAllowed
  <2>1. rows' = [rows EXCEPT ![a] = SettledRow(rows[a], p, t, ChargeOf(a, t))]
    BY <1>1 DEF FinishSend
  <2>2. SettledRow(rows[a], p, t, ChargeOf(a, t)).state = "settled"
    BY DEF SettledRow
  <2>3. \A c \in Attempt : rows[c].state = "none" => rows'[c].state # "dispatched"
    BY <1>4, <2>1, <2>2
  <2>4. QED BY <2>3 DEF DispatchIsAllowed
<1>9. QED BY <1>3, <1>5, <1>7, <1>8, ReservedScopes DEF WorkInv

\* The startup keeps it: what it reconciles is charged, and it dispatches nothing.
LEMMA StartupKeeps ==
  ASSUME WorkInv, WStartup
  PROVE  WorkInv' /\ DispatchIsAllowed
<1>1. Startup /\ UNCHANGED step
  BY DEF WStartup
<1>2. [Next]_vars
  BY <1>1 DEF Next
<1>3. IInv'
  BY <1>2, NextIInv DEF WorkInv
<1>4. UNCHANGED work
  BY <1>1 DEF Startup, Elect, ReconcileSends, PublishGeneration
<1>5. StepMayGo'
  BY <1>1, <1>4 DEF WorkInv, StepMayGo
<1>6. CASE UNCHANGED <<rows, resv>>
  <2>1. ScopesAreReserved'
    BY <1>6 DEF WorkInv, ScopesAreReserved
  <2>2. QED BY <1>3, <1>5, <1>6, <2>1 DEF WorkInv, DispatchIsAllowed
<1>7. CASE ReconcileSends
  <2> DEFINE open == InState(rows, "dispatched")
             held == { a \in open : resv[a].state = "reserved" }
  <2>1. /\ resv' = [i \in Id |-> IF i \in held
                                 THEN Resolved(resv[i], "charged", rows[i].bound)
                                 ELSE resv[i]]
        /\ rows' = [a \in Attempt |->
                      IF a \in open
                      THEN SettledRow(rows[a], Null, Null,
                                      IF a \in held THEN rows[a].bound ELSE Null)
                      ELSE rows[a]]
    BY <1>7 DEF ReconcileSends
  <2>2. \A i \in Id : Resolved(resv[i], "charged", rows[i].bound).state = "charged"
    BY DEF Resolved
  <2>3. \A a \in Attempt : SettledRow(rows[a], Null, Null,
                             IF a \in held THEN rows[a].bound ELSE Null).state = "settled"
    BY DEF SettledRow
  <2> HIDE DEF open, held
  <2>4. \A i \in Id : resv'[i] = resv[i] \/ resv'[i].state # "none"
    BY <2>1, <2>2
  <2>5. \A a \in Attempt : rows[a].state = "none" => rows'[a].state # "dispatched"
    BY <2>1, <2>3
  <2>6. QED BY <1>3, <1>5, <2>4, <2>5, ReservedScopes DEF WorkInv, DispatchIsAllowed
<1>8. QED BY <1>1, <1>6, <1>7 DEF Startup, Elect, PublishGeneration

\* The first open of a new store, with no step running.
LEMMA WorkInvInit == WInit => WorkInv
<1> SUFFICES ASSUME WInit PROVE WorkInv
  OBVIOUS
<1>1. IInv
  BY InitIInv DEF WInit
<1>2. ScopesAreReserved
  BY DEF WInit, Init, ScopesAreReserved
<1>3. StepMayGo
  BY DEF WInit, StepMayGo, Idle
<1>4. QED BY <1>1, <1>2, <1>3 DEF WorkInv

\* Every leg, gate, stop, client request, crash and startup keeps the invariant
\* and dispatches only what every worker of its scopes allows.
LEMMA WorkInvNext == WorkInv /\ [WNext]_wvars => WorkInv' /\ (DispatchIsAllowed \/ UNCHANGED wvars)
<1> SUFFICES ASSUME WorkInv, [WNext]_wvars PROVE WorkInv' /\ (DispatchIsAllowed \/ UNCHANGED wvars)
  OBVIOUS
<1>t. /\ resv \in [Id -> ReservationRow] /\ work \in [Scope -> WorkRow]
      /\ rows \in [Attempt -> SettlementRow]
  BY DEF WorkInv, IInv, Core, OpenTypes, Tables
\* Nothing of the ledger moves.
<1>k. ASSUME UNCHANGED vars, StepMayGo'
      PROVE  WorkInv' /\ DispatchIsAllowed
  <2>1. IInv'
    BY <1>k, NextIInv DEF WorkInv
  <2>2. QED BY <1>k, <2>1 DEF WorkInv, ScopesAreReserved, DispatchIsAllowed, vars
<1>1. ASSUME NEW c \in Chains, NEW e \in SUBSET Scope, GatePasses(c, e)
      PROVE  WorkInv' /\ DispatchIsAllowed
  <2>1. UNCHANGED vars /\ step' = Running(c) /\ \A s \in ScopesOf(c) : ~ Reached(s, e)
    BY <1>1 DEF GatePasses
  <2>2. \A s \in ScopesOf(c) : work'[s].state # "stopped"
    BY <2>1 DEF Reached, vars
  <2>3. StepMayGo'
    BY <2>1, <2>2 DEF StepMayGo, Running
  <2>4. QED BY <1>k, <2>1, <2>3
<1>2. ASSUME NEW c \in Chains, NEW e \in SUBSET Scope, GateStops(c, e)
      PROVE  WorkInv' /\ DispatchIsAllowed
  <2>1. PICK s : s \in Scope /\ StopWorkBudget(s)
    <3>1. c \in Seq(Scope)
      BY ChainsAssumption
    <3>2. PICK i \in DOMAIN c : StopWorkBudget(c[i])
      BY <1>2 DEF GateStops
    <3>3. c[i] \in Scope
      BY <3>1
    <3>4. QED BY <3>2, <3>3
  <2>2. [Next]_vars /\ UNCHANGED <<resv, rows>>
    BY <2>1 DEF Next, StopWorkBudget
  <2>3. step' = Idle
    <3>1. ~ step.on /\ step' = step
      BY <1>2 DEF GateStops, Quiet
    <3>2. QED BY <3>1 DEF WorkInv, StepMayGo, Running
  <2>4. QED BY <2>2, <2>3, BoundKept
<1>3. ASSUME NEW a \in Attempt, NEW b \in Bounds, SendLeg(a, b)
      PROVE  WorkInv' /\ DispatchIsAllowed
  <2>1. step.on /\ tickets = {} /\ UNCHANGED step /\ BeginSend(a, ScopesOf(step.chain), b)
    BY <1>3 DEF SendLeg
  <2>2. \A s \in ScopesOf(step.chain) : s \in Scope /\ work[s].state # "stopped"
    <3>1. PICK c \in Chains : step = Running(c)
      BY <2>1 DEF WorkInv, StepMayGo, Idle
    <3>2. step.chain \in Seq(Scope)
      BY <3>1, ChainsAssumption DEF Running
    <3>3. QED BY <2>1, <3>2 DEF WorkInv, StepMayGo, ScopesOf
  <2> DEFINE S == ScopesOf(step.chain)
  <2>3. S \cap Scope = S
    BY <2>2
  <2> HIDE DEF S
  <2>4. BeginSend(a, S \cap Scope, b)
    BY <2>1, <2>3 DEF S
  <2>5. \A s \in S \cap Scope : work[s].state # "stopped"
    BY <2>2 DEF S
  <2>6. QED BY <2>1, <2>4, <2>5, SendKeeps
<1>4. ASSUME NEW b \in Bounds, NEW s \in Scope, LegRefused(b, s)
      PROVE  WorkInv' /\ DispatchIsAllowed
  <2>1. step' = Idle /\ (StopWorkBudget(s) \/ UNCHANGED vars)
    BY <1>4 DEF LegRefused
  <2>2. [Next]_vars /\ UNCHANGED <<resv, rows>>
    BY <2>1 DEF Next, StopWorkBudget, vars
  <2>3. QED BY <2>1, <2>2, BoundKept
<1>5. CASE AnyEnd
  BY <1>5, EndKeeps DEF AnyEnd
<1>6. ASSUME NEW a \in Attempt, LegLost(a)
      PROVE  WorkInv' /\ DispatchIsAllowed
  <2>1. FinishLost(a) /\ step' = Idle
    BY <1>6 DEF LegLost
  <2>2. [Next]_vars /\ UNCHANGED <<resv, rows>>
    BY <2>1 DEF Next, FinishLost
  <2>3. QED BY <2>1, <2>2, BoundKept
<1>7. CASE StepEnds
  <2>1. step' = Idle /\ UNCHANGED vars
    BY <1>7 DEF StepEnds
  <2>2. StepMayGo'
    BY <2>1 DEF StepMayGo, Idle
  <2>3. QED BY <1>k, <2>1, <2>2
<1>8. ASSUME NEW a \in Attempt, NEW b \in Bounds, SemanticSend(a, b)
      PROVE  WorkInv' /\ DispatchIsAllowed
  <2>1. tickets = {} /\ UNCHANGED step /\ BeginSend(a, {}, b)
    BY <1>8 DEF SemanticSend, Quiet
  <2> DEFINE S == {}
  <2>2. S \cap Scope = {}
    OBVIOUS
  <2>3. BeginSend(a, S \cap Scope, b)
    BY <2>1, <2>2
  <2>4. \A s \in S \cap Scope : work[s].state # "stopped"
    OBVIOUS
  <2> HIDE DEF S
  <2>5. QED BY <2>1, <2>3, <2>4, SendKeeps
<1>9. CASE Client
  <2>1. /\ ~ step.on /\ step' = step
        /\ \/ \E s \in Scope, l \in Limits : OpenBudget(s, l)
           \/ \E s \in Scope, l \in Limits, n \in Sends : OpenWorkBudget(s, l, n)
           \/ \E s \in Scope : StopWorkBudget(s)
    BY <1>9 DEF Client, Quiet
  <2>2. step' = Idle
    BY <2>1 DEF WorkInv, StepMayGo, Running
  <2>3. [Next]_vars
    BY <2>1 DEF Next
  <2>4. UNCHANGED <<resv, rows>>
    BY <2>1 DEF OpenBudget, OpenWorkBudget, StopWorkBudget
  <2>5. QED BY <2>2, <2>3, <2>4, BoundKept
<1>10. CASE WCrash
  <2>1. Crash /\ step' = Idle
    BY <1>10 DEF WCrash
  <2>2. [Next]_vars /\ UNCHANGED <<resv, rows>>
    BY <2>1 DEF Next, Crash
  <2>3. QED BY <2>1, <2>2, BoundKept
<1>11. CASE WStartup
  BY <1>11, StartupKeeps
<1>12. CASE UNCHANGED wvars
  <2>1. UNCHANGED vars /\ UNCHANGED step
    BY <1>12 DEF wvars
  <2>2. StepMayGo'
    BY <2>1 DEF WorkInv, StepMayGo, vars
  <2>3. QED BY <1>k, <1>12, <2>1, <2>2
<1>13. QED BY <1>1, <1>2, <1>3, <1>4, <1>5, <1>6, <1>7, <1>8, <1>9, <1>10, <1>11, <1>12 DEF WNext

\* Whatever overlaps, is refused, is lost or crashes: no send is dispatched
\* against a worker its bound or a stop forbids, in any chain of scopes
\* (work_budget_gate, begin_send, WORK_BUDGET_SEND_STATE).
THEOREM WorkersSafe == WSpec => SendBoundHeld /\ StoppedNeverSends
<1>1. DispatchIsAllowed \/ UNCHANGED wvars =>
        /\ [\A a \in Attempt, s \in Scope :
                /\ rows[a].state = "none" /\ rows'[a].state = "dispatched"
                /\ s \in resv'[a].scopes /\ work[s].state # "none"
             => Cardinality({ b \in Attempt \ lost : s \in resv[b].scopes })
                  < work[s].sends]_wvars
        /\ [\A a \in Attempt, s \in Scope :
              rows[a].state = "none" /\ rows'[a].state = "dispatched" /\ s \in resv'[a].scopes
                 => work[s].state # "stopped"]_wvars
  BY DEF DispatchIsAllowed
<1>2. QED BY <1>1, WorkInvInit, WorkInvNext, PTL DEF WSpec, SendBoundHeld, StoppedNeverSends

-----------------------------------------------------------------------------
(***************************************************************************)
(* What a task has proved and what it resumes from (Evidence), for every   *)
(* set of obligations and any number of rows, compactions and steps.  A    *)
(* row's identifier keeps its obligation in the store and in the           *)
(* checkpoint's own copy, so that equal pins are equal inputs.             *)
(***************************************************************************)
EvidenceRow == [id : Nat \ {0}, ob : Obligation, valid : BOOLEAN]
IndexOf(records) == {<<r.id, r.valid>> : r \in records}
SameNames(A, B) == \A r \in A, q \in B : r.id = q.id => r.ob = q.ob

Checkpoint ==
    [ pins : Nat \X Nat \X SUBSET (Nat \X BOOLEAN), made : Nat \X Nat \X SUBSET EvidenceRow,
      folded : Nat, was : Nat ]

\* A checkpoint that shortened the history and whose pins are of what it was made from.
GoodCheckpoint(c) ==
    /\ c \in Checkpoint
    /\ c.pins = <<c.made[1], c.made[2], IndexOf(c.made[3])>>
    /\ FoldedLength(c.folded) < c.was

ProofTypes ==
    /\ proof \in [ execution : [Obligation -> {"pending", "satisfied", "stale"}],
                   rows : SUBSET EvidenceRow, made : Nat ]
    /\ IsFiniteSet(proof.rows)
    /\ pinned \in [intent : Nat, answer : Nat, attempts : Nat, blocked : BOOLEAN]
    /\ compactions \in Seq(Checkpoint)
    /\ inserting = NoRow \/ inserting \in proof.rows

\* Identifiers are given out in order and keep their obligation.
NamesAreKept ==
    /\ SameNames(proof.rows, proof.rows)
    /\ \A r \in proof.rows : r.id <= proof.made
    /\ \A i \in DOMAIN compactions :
          /\ SameNames(compactions[i].made[3], proof.rows)
          /\ \A r \in compactions[i].made[3] : r.id <= proof.made

CheckpointsAreGood == \A i \in DOMAIN compactions : GoodCheckpoint(compactions[i])

ContinuationInv ==
    ProofTypes /\ NamesAreKept /\ CheckpointsAreGood /\ SatisfiedIsSupported /\ ResumeRunsCurrent

\* The lengths are numbers.
LEMMA LengthsAreNat ==
  ASSUME ProofTypes
  PROVE  Folded \in Nat /\ HistoryLength \in Nat /\ \A n \in Nat : FoldedLength(n) \in Nat
<1>1. Cardinality(proof.rows) \in Nat /\ pinned.attempts \in Nat
  BY FS_CardinalityType DEF ProofTypes
<1>2. Folded \in Nat
  BY <1>1 DEF Folded
<1>3. FoldedLine \in Nat /\ TwoDigits \in Nat /\ RecordLine \in Nat
  BY ContinuationAssumption
<1>4. \A n \in Nat : FoldedLength(n) \in Nat
  BY <1>3 DEF FoldedLength
<1>5. CASE compactions = << >>
  <2>1. RecordLine * Folded \in Nat
    BY <1>2, <1>3
  <2>2. QED BY <1>2, <1>4, <1>5, <2>1 DEF HistoryLength
<1>6. CASE compactions # << >>
  <2>1. compactions[Len(compactions)] \in Checkpoint
    BY <1>6 DEF ProofTypes
  <2>2. compactions[Len(compactions)].folded \in Nat
    BY <2>1 DEF Checkpoint
  <2>3. QED BY <1>2, <1>4, <1>6, <2>2 DEF HistoryLength, continuation_checkpoint
<1>7. QED BY <1>5, <1>6

\* An edit of the evidence rows: those that are new have new identifiers, the
\* others are of a row that was there, and every satisfied obligation has one.
LEMMA RowsEdited ==
  ASSUME ContinuationInv, UNCHANGED compactions,
         proof' \in [ execution : [Obligation -> {"pending", "satisfied", "stale"}],
                      rows : SUBSET EvidenceRow, made : Nat ],
         IsFiniteSet(proof'.rows), proof.made <= proof'.made,
         \A r \in proof'.rows :
            \/ \E q \in proof.rows : q.id = r.id /\ q.ob = r.ob
            \/ r.id > proof.made /\ r.id <= proof'.made,
         \A r, q \in proof'.rows : r.id = q.id => r.ob = q.ob,
         \A o \in Obligation :
            proof'.execution[o] = "satisfied" => \E r \in proof'.rows : r.ob = o,
         inserting' = NoRow \/ inserting' \in proof'.rows,
         pinned' \in [intent : Nat, answer : Nat, attempts : Nat, blocked : BOOLEAN],
         resumed' = NoOutcome
  PROVE  ContinuationInv'
<1>1. ProofTypes'
  BY DEF ContinuationInv, ProofTypes
<1>2. /\ proof.made \in Nat /\ proof'.made \in Nat
      /\ \A r \in proof.rows : r.id \in Nat /\ r.id <= proof.made
      /\ \A r \in proof'.rows : r.id \in Nat
  BY DEF ContinuationInv, ProofTypes, NamesAreKept, EvidenceRow
<1>3. \A r \in proof'.rows : r.id <= proof'.made
  BY <1>2
<1>4. ASSUME NEW i \in DOMAIN compactions
      PROVE  /\ SameNames(compactions[i].made[3], proof'.rows)
             /\ \A r \in compactions[i].made[3] : r.id <= proof'.made
  <2>1. compactions[i] \in Checkpoint
    BY DEF ContinuationInv, ProofTypes
  <2>2. \A r \in compactions[i].made[3] : r.id \in Nat /\ r.id <= proof.made
    BY <2>1 DEF Checkpoint, EvidenceRow, ContinuationInv, NamesAreKept
  <2>3. SameNames(compactions[i].made[3], proof.rows)
    BY DEF ContinuationInv, NamesAreKept
  <2>4. ASSUME NEW r \in compactions[i].made[3], NEW q \in proof'.rows, r.id = q.id
        PROVE  r.ob = q.ob
    <3>1. ~ (q.id > proof.made)
      BY <1>2, <2>2, <2>4
    <3>2. PICK p \in proof.rows : p.id = q.id /\ p.ob = q.ob
      BY <3>1
    <3>3. QED BY <2>3, <2>4, <3>2 DEF SameNames
  <2>5. QED BY <1>2, <2>2, <2>4 DEF SameNames
<1>5. NamesAreKept'
  BY <1>3, <1>4 DEF NamesAreKept, SameNames
<1>6. CheckpointsAreGood'
  BY DEF ContinuationInv, CheckpointsAreGood, GoodCheckpoint, Checkpoint, IndexOf, FoldedLength,
         EvidenceRow
<1>7. SatisfiedIsSupported'
  BY DEF SatisfiedIsSupported
<1>8. ResumeRunsCurrent'
  BY DEF ResumeRunsCurrent, NoOutcome
<1>9. QED BY <1>1, <1>5, <1>6, <1>7, <1>8 DEF ContinuationInv

\* insert_evidence: its row, and the satisfaction of its obligation.
LEMMA InsertKeeps == ASSUME ContinuationInv, InsertEvidence PROVE ContinuationInv'
<1>0. /\ proof \in [ execution : [Obligation -> {"pending", "satisfied", "stale"}],
                     rows : SUBSET EvidenceRow, made : Nat ]
      /\ IsFiniteSet(proof.rows)
      /\ \A r \in proof.rows : r.id \in Nat /\ r.id <= proof.made
  BY DEF ContinuationInv, ProofTypes, NamesAreKept, EvidenceRow
<1>1. PICK o \in Obligation : inserting' = FreshRow(o) /\ proof' = InsertRow(o)
  BY DEF InsertEvidence
<1> DEFINE row == FreshRow(o)
<1>2. row \in EvidenceRow /\ row.id = proof.made + 1 /\ row.id > proof.made
  BY <1>0 DEF FreshRow, EvidenceRow
<1> HIDE DEF row
<1>3. /\ proof' = [proof EXCEPT !.rows = proof.rows \cup {row}, !.made = proof.made + 1]
      /\ inserting' = row
  BY <1>1 DEF InsertRow, row
<1>4. /\ proof' \in [ execution : [Obligation -> {"pending", "satisfied", "stale"}],
                      rows : SUBSET EvidenceRow, made : Nat ]
      /\ proof'.rows = proof.rows \cup {row} /\ proof'.made = proof.made + 1
      /\ proof'.execution = proof.execution
  <2> DEFINE rows2 == proof.rows \cup {row}
             made2 == proof.made + 1
  <2>1. rows2 \in SUBSET EvidenceRow
    BY <1>0, <1>2
  <2>2. made2 \in Nat
    BY <1>0
  <2>3. proof' = [proof EXCEPT !.rows = rows2, !.made = made2]
    BY <1>3
  <2> HIDE DEF rows2, made2
  <2>4. /\ proof' \in [ execution : [Obligation -> {"pending", "satisfied", "stale"}],
                        rows : SUBSET EvidenceRow, made : Nat ]
        /\ proof'.rows = rows2 /\ proof'.made = made2 /\ proof'.execution = proof.execution
    BY <1>0, <2>1, <2>2, <2>3
  <2>5. QED BY <2>4 DEF rows2, made2
<1>5. IsFiniteSet(proof'.rows)
  BY <1>0, <1>4, FS_AddElement
<1>6. \A r \in proof'.rows :
         \/ \E q \in proof.rows : q.id = r.id /\ q.ob = r.ob
         \/ r.id > proof.made /\ r.id <= proof'.made
  BY <1>0, <1>2, <1>4
<1>7. \A r, q \in proof'.rows : r.id = q.id => r.ob = q.ob
  <2>1. SameNames(proof.rows, proof.rows)
    BY DEF ContinuationInv, NamesAreKept
  <2>2. \A r \in proof.rows : r.id # row.id
    BY <1>0, <1>2
  <2>3. QED BY <1>4, <2>1, <2>2 DEF SameNames
<1>8. \A o2 \in Obligation :
         proof'.execution[o2] = "satisfied" => \E r \in proof'.rows : r.ob = o2
  BY <1>4 DEF ContinuationInv, SatisfiedIsSupported
<1>9. UNCHANGED <<compactions, pinned>> /\ resumed' = NoOutcome
  BY DEF InsertEvidence, BetweenCalls
<1>10. pinned' \in [intent : Nat, answer : Nat, attempts : Nat, blocked : BOOLEAN]
  BY <1>9 DEF ContinuationInv, ProofTypes
<1>11. inserting' \in proof'.rows /\ proof.made <= proof'.made
  BY <1>0, <1>3, <1>4
<1>12. QED BY <1>4, <1>5, <1>6, <1>7, <1>8, <1>9, <1>10, <1>11, RowsEdited

\* SATISFY_OBLIGATION, or a crash before it.
LEMMA SatisfyKeeps ==
  ASSUME ContinuationInv, SatisfyObligation \/ CrashInserting PROVE ContinuationInv'
<1>0. /\ proof \in [ execution : [Obligation -> {"pending", "satisfied", "stale"}],
                     rows : SUBSET EvidenceRow, made : Nat ]
      /\ IsFiniteSet(proof.rows) /\ SameNames(proof.rows, proof.rows)
      /\ inserting \in proof.rows
  BY DEF ContinuationInv, ProofTypes, NamesAreKept, SatisfyObligation, CrashInserting
<1>1. /\ proof' \in [ execution : [Obligation -> {"pending", "satisfied", "stale"}],
                      rows : SUBSET EvidenceRow, made : Nat ]
      /\ proof'.rows = proof.rows /\ proof'.made = proof.made
      /\ \A o \in Obligation : proof'.execution[o] = "satisfied" =>
            o = inserting.ob \/ proof.execution[o] = "satisfied"
  <2>1. CASE SatisfyObligation
    <3> DEFINE ex == Satisfied({inserting.ob})
    <3>1. ex \in [Obligation -> {"pending", "satisfied", "stale"}]
      BY <1>0 DEF Satisfied
    <3>2. \A o \in Obligation : ex[o] = "satisfied" =>
              o = inserting.ob \/ proof.execution[o] = "satisfied"
      BY DEF Satisfied
    <3>3. proof' = [proof EXCEPT !.execution = ex]
      BY <2>1 DEF SatisfyObligation
    <3> HIDE DEF ex
    <3>4. QED BY <1>0, <3>1, <3>2, <3>3
  <2>2. CASE CrashInserting
    BY <1>0, <2>2 DEF CrashInserting
  <2>3. QED BY <2>1, <2>2
<1>2. /\ UNCHANGED <<compactions, pinned>> /\ resumed' = NoOutcome /\ inserting' = NoRow
  BY DEF SatisfyObligation, CrashInserting
<1>3. pinned' \in [intent : Nat, answer : Nat, attempts : Nat, blocked : BOOLEAN]
  BY <1>2 DEF ContinuationInv, ProofTypes
<1>4. \A o \in Obligation :
         proof'.execution[o] = "satisfied" => \E r \in proof'.rows : r.ob = o
  BY <1>0, <1>1 DEF ContinuationInv, SatisfiedIsSupported
<1>5. \A r, q \in proof'.rows : r.id = q.id => r.ob = q.ob
  BY <1>0, <1>1 DEF SameNames
<1>6. \A r \in proof'.rows : \E q \in proof.rows : q.id = r.id /\ q.ob = r.ob
  BY <1>1
<1>7. IsFiniteSet(proof'.rows) /\ proof.made <= proof'.made
  BY <1>0, <1>1
<1>8. QED BY <1>1, <1>2, <1>3, <1>4, <1>5, <1>6, <1>7, RowsEdited

\* insert_evidence_for_task: identifiers of their own for every obligation.
LEMMA InsertForTaskKeeps == ASSUME ContinuationInv, InsertForTask PROVE ContinuationInv'
<1> DEFINE n == Cardinality(Obligation)
           ids == (proof.made + 1) .. (proof.made + n)
           f == CHOOSE g \in [Obligation -> ids] : IsInjective(g)
           news == {[id |-> f[o], ob |-> o, valid |-> TRUE] : o \in Obligation}
<1>0. /\ proof \in [ execution : [Obligation -> {"pending", "satisfied", "stale"}],
                     rows : SUBSET EvidenceRow, made : Nat ]
      /\ IsFiniteSet(proof.rows)
      /\ \A r \in proof.rows : r.id \in Nat /\ r.id <= proof.made
      /\ SameNames(proof.rows, proof.rows)
  BY DEF ContinuationInv, ProofTypes, NamesAreKept, EvidenceRow
<1>1. IsFiniteSet(Obligation) /\ n \in Nat /\ proof.made \in Nat
  BY <1>0, ContinuationAssumption, FS_CardinalityType
<1>2. f \in [Obligation -> ids] /\ IsInjective(f)
  <2>1. IsFiniteSet(ids) /\ Cardinality(ids) = n
    <3> HIDE DEF n
    <3> DEFINE lo == proof.made + 1
               hi == proof.made + n
    <3>1. lo \in Int /\ hi \in Int
      BY <1>1
    <3> HIDE DEF lo, hi
    <3>2. /\ IsFiniteSet(lo .. hi)
          /\ Cardinality(lo .. hi) = IF lo > hi THEN 0 ELSE hi - lo + 1
      BY <3>1, FS_Interval
    <3>3. (IF lo > hi THEN 0 ELSE hi - lo + 1) = n
      BY <1>1 DEF lo, hi
    <3>4. ids = lo .. hi
      BY DEF lo, hi
    <3>5. QED BY <3>2, <3>3, <3>4
  <2>2. ExistsBijection(Obligation, ids)
    BY <1>1, <2>1, FS_SameCardinalityBij
  <2> HIDE DEF ids
  <2>3. \E g \in [Obligation -> ids] : IsInjective(g)
    BY <2>2 DEF ExistsBijection, Bijection, Injection
  <2>4. QED BY <2>3
<1> HIDE DEF f
<1>3. \A o \in Obligation : f[o] \in Nat \ {0} /\ f[o] > proof.made /\ f[o] <= proof.made + n
  BY <1>1, <1>2
<1>4. \A o, p \in Obligation : f[o] = f[p] => o = p
  BY <1>2 DEF IsInjective
<1>5. news \subseteq EvidenceRow
  <2>1. ASSUME NEW r \in news PROVE r \in EvidenceRow
    <3>1. PICK o \in Obligation : r = [id |-> f[o], ob |-> o, valid |-> TRUE]
      OBVIOUS
    <3>2. f[o] \in Nat \ {0}
      BY <1>3
    <3>3. QED BY <3>1, <3>2 DEF EvidenceRow
  <2>2. QED BY <2>1
<1>6. \A r \in news : r.id > proof.made /\ r.id <= proof.made + n /\ r.id \in Nat
  BY <1>3
<1>7. \A r, q \in news : r.id = q.id => r.ob = q.ob
  BY <1>4
<1>8. ASSUME NEW o \in Obligation PROVE \E r \in news : r.ob = o
  <2>1. [id |-> f[o], ob |-> o, valid |-> TRUE] \in news
    OBVIOUS
  <2>2. [id |-> f[o], ob |-> o, valid |-> TRUE].ob = o
    OBVIOUS
  <2> HIDE DEF news
  <2>3. QED BY <2>1, <2>2
<1>9. IsFiniteSet(news)
  <2> DEFINE h == [o \in Obligation |-> [id |-> f[o], ob |-> o, valid |-> TRUE]]
  <2>1. h \in Surjection(Obligation, news)
    BY DEF Surjection
  <2>2. QED BY <1>1, <2>1, FS_Surjection
<1>10. proof' = [execution |-> Satisfied(Obligation), rows |-> proof.rows \cup news,
                 made |-> proof.made + n]
  BY DEF InsertForTask, f
<1> HIDE DEF news, n
<1>11. Satisfied(Obligation) \in [Obligation -> {"pending", "satisfied", "stale"}]
  BY <1>0 DEF Satisfied
<1>12. /\ proof' \in [ execution : [Obligation -> {"pending", "satisfied", "stale"}],
                       rows : SUBSET EvidenceRow, made : Nat ]
       /\ proof'.rows = proof.rows \cup news /\ proof'.made = proof.made + n
       /\ proof.made <= proof'.made
  BY <1>0, <1>1, <1>5, <1>10, <1>11
<1>13. IsFiniteSet(proof'.rows)
  <2>1. IsFiniteSet(proof.rows) /\ IsFiniteSet(news)
    BY <1>0, <1>9
  <2>2. IsFiniteSet(proof.rows \cup news)
    BY <2>1, FS_Union
  <2>3. QED BY <1>12, <2>2
<1>14. \A r \in proof'.rows :
          \/ \E q \in proof.rows : q.id = r.id /\ q.ob = r.ob
          \/ r.id > proof.made /\ r.id <= proof'.made
  BY <1>6, <1>12
<1>15. \A r, q \in proof'.rows : r.id = q.id => r.ob = q.ob
  <2>1. \A r \in proof.rows, q \in news : r.id # q.id
    BY <1>0, <1>1, <1>6
  <2>2. QED BY <1>0, <1>7, <1>12, <2>1 DEF SameNames
<1>16. \A o \in Obligation :
          proof'.execution[o] = "satisfied" => \E r \in proof'.rows : r.ob = o
  BY <1>8, <1>12
<1>17. UNCHANGED <<compactions, pinned, inserting>> /\ resumed' = NoOutcome /\ inserting = NoRow
  BY DEF InsertForTask, BetweenCalls
<1>18. pinned' \in [intent : Nat, answer : Nat, attempts : Nat, blocked : BOOLEAN]
  BY <1>17 DEF ContinuationInv, ProofTypes
<1>19. QED BY <1>12, <1>13, <1>14, <1>15, <1>16, <1>17, <1>18, RowsEdited

\* invalidate_evidence: the row keeps its name, its obligation is stale.
LEMMA InvalidateKeeps == ASSUME ContinuationInv, InvalidateEvidence PROVE ContinuationInv'
<1>0. /\ proof \in [ execution : [Obligation -> {"pending", "satisfied", "stale"}],
                     rows : SUBSET EvidenceRow, made : Nat ]
      /\ IsFiniteSet(proof.rows) /\ SameNames(proof.rows, proof.rows)
      /\ inserting = NoRow /\ inserting' = NoRow /\ UNCHANGED compactions /\ resumed' = NoOutcome
      /\ pinned \in [intent : Nat, answer : Nat, attempts : Nat, blocked : BOOLEAN]
      /\ pinned' = [pinned EXCEPT !.blocked = TRUE]
  BY DEF ContinuationInv, ProofTypes, NamesAreKept, InvalidateEvidence, BetweenCalls
<1>1. PICK r \in proof.rows :
         proof' = [proof EXCEPT !.rows = (proof.rows \ {r}) \cup {[r EXCEPT !.valid = FALSE]},
                                !.execution = [proof.execution EXCEPT ![r.ob] = "stale"]]
  BY DEF InvalidateEvidence
<1> DEFINE r2 == [r EXCEPT !.valid = FALSE]
           rows2 == (proof.rows \ {r}) \cup {r2}
           ex2 == [proof.execution EXCEPT ![r.ob] = "stale"]
<1>2. r \in EvidenceRow /\ r.ob \in Obligation
  BY <1>0 DEF EvidenceRow
<1>3. r2 \in EvidenceRow /\ r2.id = r.id /\ r2.ob = r.ob
  BY <1>2 DEF EvidenceRow
<1> HIDE DEF r2
<1>4. rows2 \in SUBSET EvidenceRow /\ IsFiniteSet(rows2)
  <2>1. IsFiniteSet(proof.rows \ {r})
    BY <1>0, FS_Subset
  <2>2. QED BY <1>0, <1>3, <2>1, FS_AddElement
<1>5. /\ ex2 \in [Obligation -> {"pending", "satisfied", "stale"}]
      /\ \A o \in Obligation : ex2[o] = "satisfied" => o # r.ob /\ proof.execution[o] = "satisfied"
  BY <1>0, <1>2
<1>6. /\ \A q \in rows2 : \E p \in proof.rows : p.id = q.id /\ p.ob = q.ob
      /\ \A q \in proof.rows : \E p \in rows2 : p.ob = q.ob
  BY <1>3
<1>7. proof' = [proof EXCEPT !.rows = rows2, !.execution = ex2]
  BY <1>1 DEF r2
<1> HIDE DEF rows2, ex2
<1>8. /\ proof' \in [ execution : [Obligation -> {"pending", "satisfied", "stale"}],
                      rows : SUBSET EvidenceRow, made : Nat ]
      /\ proof'.rows = rows2 /\ proof'.made = proof.made /\ proof'.execution = ex2
  BY <1>0, <1>4, <1>5, <1>7
<1>9. \A q \in proof'.rows : \E p \in proof.rows : p.id = q.id /\ p.ob = q.ob
  BY <1>6, <1>8
<1>10. \A p, q \in proof'.rows : p.id = q.id => p.ob = q.ob
  BY <1>0, <1>9 DEF SameNames
<1>11. \A o \in Obligation :
          proof'.execution[o] = "satisfied" => \E q \in proof'.rows : q.ob = o
  BY <1>5, <1>6, <1>8 DEF ContinuationInv, SatisfiedIsSupported
<1>12. pinned' \in [intent : Nat, answer : Nat, attempts : Nat, blocked : BOOLEAN]
  BY <1>0
<1>13. IsFiniteSet(proof'.rows) /\ proof.made <= proof'.made
  BY <1>0, <1>4, <1>8
<1>14. QED BY <1>0, <1>8, <1>9, <1>10, <1>11, <1>12, <1>13, RowsEdited

\* delete_scoped_record: its obligation is reopened when no row of it remains.
LEMMA DeleteKeeps == ASSUME ContinuationInv, DeleteScopedRecord PROVE ContinuationInv'
<1>0. /\ proof \in [ execution : [Obligation -> {"pending", "satisfied", "stale"}],
                     rows : SUBSET EvidenceRow, made : Nat ]
      /\ IsFiniteSet(proof.rows) /\ SameNames(proof.rows, proof.rows)
      /\ inserting = NoRow /\ inserting' = NoRow /\ UNCHANGED <<pinned, compactions>>
      /\ resumed' = NoOutcome
      /\ pinned \in [intent : Nat, answer : Nat, attempts : Nat, blocked : BOOLEAN]
  BY DEF ContinuationInv, ProofTypes, NamesAreKept, DeleteScopedRecord, BetweenCalls
<1>1. PICK r \in proof.rows :
         proof' = [proof EXCEPT !.rows = proof.rows \ {r},
                                !.execution = Reopened(proof.rows \ {r}, r.ob)]
  BY DEF DeleteScopedRecord
<1> DEFINE rows2 == proof.rows \ {r}
           ex2 == Reopened(rows2, r.ob)
<1>2. r.ob \in Obligation
  BY <1>0 DEF EvidenceRow
<1>3. rows2 \in SUBSET EvidenceRow /\ IsFiniteSet(rows2) /\ rows2 \subseteq proof.rows
  BY <1>0, FS_Subset
<1>4. ex2 \in [Obligation -> {"pending", "satisfied", "stale"}]
  BY <1>0, <1>2 DEF Reopened
<1>5. ASSUME NEW o \in Obligation, ex2[o] = "satisfied" PROVE \E q \in rows2 : q.ob = o
  <2>1. CASE \E q \in rows2 : q.ob = r.ob
    <3>1. proof.execution[o] = "satisfied"
      BY <1>5, <2>1 DEF Reopened
    <3>2. PICK q \in proof.rows : q.ob = o
      BY <3>1 DEF ContinuationInv, SatisfiedIsSupported
    <3>3. QED BY <2>1, <3>2
  <2>2. CASE ~ \E q \in rows2 : q.ob = r.ob
    <3>1. ex2 = [proof.execution EXCEPT ![r.ob] = "pending"]
      BY <2>2 DEF Reopened
    <3>2. o # r.ob /\ proof.execution[o] = "satisfied"
      BY <1>0, <1>2, <1>5, <3>1
    <3>3. PICK q \in proof.rows : q.ob = o
      BY <3>2 DEF ContinuationInv, SatisfiedIsSupported
    <3>4. QED BY <3>2, <3>3
  <2>3. QED BY <2>1, <2>2
<1>6. proof' = [proof EXCEPT !.rows = rows2, !.execution = ex2]
  BY <1>1
<1> HIDE DEF rows2, ex2
<1>7. /\ proof' \in [ execution : [Obligation -> {"pending", "satisfied", "stale"}],
                      rows : SUBSET EvidenceRow, made : Nat ]
      /\ proof'.rows = rows2 /\ proof'.made = proof.made /\ proof'.execution = ex2
  BY <1>0, <1>3, <1>4, <1>6
<1>8. \A q \in proof'.rows : \E p \in proof.rows : p.id = q.id /\ p.ob = q.ob
  BY <1>3, <1>7
<1>9. \A p, q \in proof'.rows : p.id = q.id => p.ob = q.ob
  BY <1>0, <1>3, <1>7 DEF SameNames
<1>10. \A o \in Obligation :
          proof'.execution[o] = "satisfied" => \E q \in proof'.rows : q.ob = o
  BY <1>5, <1>7
<1>11. IsFiniteSet(proof'.rows) /\ proof.made <= proof'.made
  BY <1>0, <1>3, <1>7
<1>12. QED BY <1>0, <1>7, <1>8, <1>9, <1>10, <1>11, RowsEdited

\* force_compaction: refused unless it shortens; it pins what it was made from.
LEMMA CompactKeeps == ASSUME ContinuationInv, ForceCompaction PROVE ContinuationInv'
<1> DEFINE c == [pins |-> PinnedInputs, made |-> Inputs, folded |-> Folded, was |-> HistoryLength]
<1>1. /\ compactions' = Append(compactions, c) /\ UNCHANGED <<proof, pinned, inserting>>
      /\ resumed' = NoOutcome /\ ~ NotShorter(FoldedLength(Folded))
  BY DEF ForceCompaction
<1>2. /\ proof.rows \subseteq EvidenceRow /\ pinned.intent \in Nat /\ pinned.answer \in Nat
      /\ compactions \in Seq(Checkpoint)
  BY DEF ContinuationInv, ProofTypes
<1>3. Folded \in Nat /\ HistoryLength \in Nat /\ FoldedLength(Folded) \in Nat
  BY LengthsAreNat DEF ContinuationInv
<1>4. GoodCheckpoint(c)
  <2>1. EvidenceIndex = IndexOf(proof.rows) /\ IndexOf(proof.rows) \in SUBSET (Nat \X BOOLEAN)
    BY <1>2 DEF EvidenceIndex, IndexOf, EvidenceRow
  <2>2. PinnedInputs \in Nat \X Nat \X SUBSET (Nat \X BOOLEAN)
    BY <1>2, <2>1 DEF PinnedInputs
  <2>3. Inputs \in Nat \X Nat \X SUBSET EvidenceRow
    BY <1>2 DEF Inputs
  <2>4. c \in Checkpoint
    BY <1>3, <2>2, <2>3 DEF Checkpoint
  <2>5. c.pins = <<c.made[1], c.made[2], IndexOf(c.made[3])>>
    BY <2>1 DEF PinnedInputs, Inputs
  <2>6. FoldedLength(c.folded) < c.was
    BY <1>1, <1>3 DEF NotShorter
  <2>7. QED BY <2>4, <2>5, <2>6 DEF GoodCheckpoint
<1>5. c \in Checkpoint /\ c.made[3] = proof.rows
  BY <1>4 DEF GoodCheckpoint, Inputs
<1> HIDE DEF c
<1>6. /\ compactions' \in Seq(Checkpoint)
      /\ \A i \in DOMAIN compactions' :
            \/ i \in DOMAIN compactions /\ compactions'[i] = compactions[i]
            \/ compactions'[i] = c
  BY <1>1, <1>2, <1>5
<1>7. ProofTypes'
  BY <1>1, <1>6 DEF ContinuationInv, ProofTypes
<1>8. NamesAreKept'
  BY <1>1, <1>5, <1>6 DEF ContinuationInv, NamesAreKept, SameNames
<1>9. CheckpointsAreGood'
  <2>1. \A i \in DOMAIN compactions' : GoodCheckpoint(compactions'[i])
    BY <1>4, <1>6 DEF ContinuationInv, CheckpointsAreGood
  <2>2. QED BY <2>1 DEF CheckpointsAreGood, GoodCheckpoint, Checkpoint, IndexOf, FoldedLength,
                        EvidenceRow
<1>10. SatisfiedIsSupported' /\ ResumeRunsCurrent'
  BY <1>1 DEF ContinuationInv, SatisfiedIsSupported, ResumeRunsCurrent, NoOutcome
<1>11. QED BY <1>7, <1>8, <1>9, <1>10 DEF ContinuationInv

\* Equal pins are equal inputs: a checkpoint's rows and the store's have the same
\* obligation under the same identifier.
LEMMA PinsTellInputs ==
  ASSUME ContinuationInv, compactions # << >>, continuation_checkpoint.pins = PinnedInputs
  PROVE  continuation_checkpoint.made = Inputs
<1> DEFINE c == continuation_checkpoint
<1>1. /\ Len(compactions) \in DOMAIN compactions
      /\ c = compactions[Len(compactions)]
  BY DEF ContinuationInv, ProofTypes, continuation_checkpoint
<1>2. GoodCheckpoint(c) /\ SameNames(c.made[3], proof.rows) /\ proof.rows \subseteq EvidenceRow
  BY <1>1 DEF ContinuationInv, ProofTypes, CheckpointsAreGood, NamesAreKept
<1> HIDE DEF c
<1>3. c.pins = PinnedInputs /\ PinnedInputs = <<pinned.intent, pinned.answer, IndexOf(proof.rows)>>
  BY DEF c, PinnedInputs, EvidenceIndex, IndexOf
<1>4. /\ c.made[1] = pinned.intent /\ c.made[2] = pinned.answer
      /\ IndexOf(c.made[3]) = IndexOf(proof.rows)
  BY <1>2, <1>3 DEF GoodCheckpoint
<1>5. c.made \in Nat \X Nat \X SUBSET EvidenceRow
  BY <1>2 DEF GoodCheckpoint, Checkpoint
<1>6. c.made[3] \subseteq EvidenceRow
  BY <1>5
<1>7. ASSUME NEW A \in SUBSET EvidenceRow, NEW B \in SUBSET EvidenceRow,
             IndexOf(A) = IndexOf(B), SameNames(A, B), NEW r \in A
      PROVE  r \in B
  <2>1. <<r.id, r.valid>> \in IndexOf(B)
    BY <1>7 DEF IndexOf
  <2>2. PICK q \in B : <<r.id, r.valid>> = <<q.id, q.valid>>
    BY <2>1 DEF IndexOf
  <2>3. q.id = r.id /\ q.valid = r.valid /\ q.ob = r.ob
    BY <1>7, <2>2 DEF SameNames
  <2>4. r = [id |-> r.id, ob |-> r.ob, valid |-> r.valid]
        /\ q = [id |-> q.id, ob |-> q.ob, valid |-> q.valid]
    BY DEF EvidenceRow
  <2>5. QED BY <2>3, <2>4
<1>8. SameNames(proof.rows, c.made[3])
  BY <1>2 DEF SameNames
<1>9. c.made[3] = proof.rows
  <2>1. \A r \in c.made[3] : r \in proof.rows
    BY <1>2, <1>4, <1>6, <1>7
  <2>2. \A r \in proof.rows : r \in c.made[3]
    BY <1>2, <1>4, <1>6, <1>7, <1>8
  <2>3. QED BY <2>1, <2>2
<1>10. c.made = <<pinned.intent, pinned.answer, proof.rows>>
  BY <1>4, <1>5, <1>9
<1>11. QED BY <1>10 DEF c, Inputs

\* A continuation, or a step, a steer or an answer outside of one.
LEMMA ResumeKeeps ==
  ASSUME ContinuationInv, ResumeContinuation \/ OtherStep PROVE ContinuationInv'
<1>0. pinned \in [intent : Nat, answer : Nat, attempts : Nat, blocked : BOOLEAN]
  BY DEF ContinuationInv, ProofTypes
<1>1. UNCHANGED <<proof, compactions, inserting>>
  BY DEF ResumeContinuation, OtherStep, BetweenCalls
<1>2. pinned' \in [intent : Nat, answer : Nat, attempts : Nat, blocked : BOOLEAN]
  <2>1. CASE ResumeContinuation
    <3>1. UNCHANGED pinned \/ pinned' = [pinned EXCEPT !.attempts = @ + 1]
      BY <2>1 DEF ResumeContinuation
    <3>2. QED BY <1>0, <3>1
  <2>2. CASE OtherStep
    <3>1. \/ pinned' = [pinned EXCEPT !.attempts = @ + 1]
          \/ pinned' = [pinned EXCEPT !.intent = @ + 1, !.blocked = FALSE]
          \/ pinned' = [pinned EXCEPT !.answer = 1]
      BY <2>2 DEF OtherStep
    <3>2. pinned.attempts + 1 \in Nat /\ pinned.intent + 1 \in Nat
      BY <1>0
    <3>3. CASE pinned' = [pinned EXCEPT !.attempts = @ + 1]
      BY <1>0, <3>3
    <3>4. CASE pinned' = [pinned EXCEPT !.intent = @ + 1, !.blocked = FALSE]
      <4> DEFINE up == pinned.intent + 1
      <4>1. up \in Nat /\ pinned' = [pinned EXCEPT !.intent = up, !.blocked = FALSE]
        BY <3>2, <3>4
      <4> HIDE DEF up
      <4>2. QED BY <1>0, <4>1
    <3>5. CASE pinned' = [pinned EXCEPT !.answer = 1]
      BY <1>0, <3>5
    <3>6. QED BY <3>1, <3>3, <3>4, <3>5
  <2>3. QED BY <2>1, <2>2
<1>3. resumed'.kind = "resumed" => resumed'.same
  <2>1. CASE ResumeContinuation
    <3>1. CASE /\ compactions # << >> /\ continuation_checkpoint.pins = PinnedInputs
               /\ resumed' = [kind |-> "resumed", same |-> continuation_checkpoint.made = Inputs]
      <4>1. continuation_checkpoint.made = Inputs
        BY <3>1, PinsTellInputs
      <4>2. QED BY <3>1, <4>1
    <3>2. CASE \/ resumed' = [NoOutcome EXCEPT !.kind = "no_continuation"]
               \/ resumed' = [NoOutcome EXCEPT !.kind = "stale"]
      BY <3>2 DEF NoOutcome
    <3>3. QED BY <2>1, <3>1, <3>2 DEF ResumeContinuation
  <2>2. CASE OtherStep
    BY <2>2 DEF OtherStep, BetweenCalls, NoOutcome
  <2>3. QED BY <2>1, <2>2
<1>4. ProofTypes'
  BY <1>1, <1>2 DEF ContinuationInv, ProofTypes
<1>5. NamesAreKept' /\ CheckpointsAreGood' /\ SatisfiedIsSupported'
  BY <1>1 DEF ContinuationInv, NamesAreKept, CheckpointsAreGood, GoodCheckpoint, Checkpoint,
              IndexOf, FoldedLength, EvidenceRow, SatisfiedIsSupported, SameNames
<1>6. QED BY <1>3, <1>4, <1>5 DEF ContinuationInv, ResumeRunsCurrent

\* The invariant of the continuation, at its start and after every step.
LEMMA ContinuationHolds == ContinuationSpec => []ContinuationInv
<1>1. ContinuationInit => ContinuationInv
  <2> SUFFICES ASSUME ContinuationInit PROVE ContinuationInv
    OBVIOUS
  <2>1. ProofTypes
    BY FS_EmptySet DEF ContinuationInit, ProofTypes
  <2>2. NamesAreKept /\ CheckpointsAreGood /\ SatisfiedIsSupported /\ ResumeRunsCurrent
    BY DEF ContinuationInit, NamesAreKept, CheckpointsAreGood, SatisfiedIsSupported,
           ResumeRunsCurrent, SameNames, NoOutcome
  <2>3. QED BY <2>1, <2>2 DEF ContinuationInv
<1>2. ContinuationInv /\ [ContinuationNext]_continuationVars => ContinuationInv'
  <2> SUFFICES ASSUME ContinuationInv, [ContinuationNext]_continuationVars PROVE ContinuationInv'
    OBVIOUS
  <2>1. CASE UNCHANGED continuationVars
    <3>1. UNCHANGED <<proof, pinned, compactions, resumed, inserting>>
      BY <2>1 DEF continuationVars
    <3>2. ProofTypes'
      BY <3>1 DEF ContinuationInv, ProofTypes
    <3>3. NamesAreKept' /\ CheckpointsAreGood'
      BY <3>1 DEF ContinuationInv, NamesAreKept, CheckpointsAreGood, GoodCheckpoint, Checkpoint,
                  IndexOf, FoldedLength, EvidenceRow, SameNames
    <3>4. SatisfiedIsSupported' /\ ResumeRunsCurrent'
      BY <3>1 DEF ContinuationInv, SatisfiedIsSupported, ResumeRunsCurrent
    <3>5. QED BY <3>2, <3>3, <3>4 DEF ContinuationInv
  <2>2. CASE ContinuationNext
    <3> QED BY <2>2, InsertKeeps, SatisfyKeeps, InsertForTaskKeeps, InvalidateKeeps, DeleteKeeps,
                 CompactKeeps, ResumeKeeps DEF ContinuationNext
  <2>3. QED BY <2>1, <2>2
<1>3. QED BY <1>1, <1>2, PTL DEF ContinuationSpec

\* What the invariant says of a context and of a compaction: a checkpoint's record is
\* served only while the store has it, and every checkpoint shortened the history.
LEMMA ContinuationIsTrue ==
  ContinuationInv => SatisfiedIsSupported /\ ResumeRunsCurrent /\ DeletedNeverServed
                     /\ CompactionShortens
<1> SUFFICES ASSUME ContinuationInv PROVE DeletedNeverServed /\ CompactionShortens
  BY DEF ContinuationInv
<1>1. CompactionShortens
  BY DEF ContinuationInv, CheckpointsAreGood, GoodCheckpoint, CompactionShortens
<1>2. ASSUME NEW r \in ScopedIndex PROVE \E l \in proof.rows : l.id = r.id /\ l.ob = r.ob
  <2>1. compactions # << >>
    BY DEF ScopedIndex
  <2>2. Len(compactions) \in DOMAIN compactions
    BY <2>1 DEF ContinuationInv, ProofTypes
  <2>3. SameNames(continuation_checkpoint.made[3], proof.rows)
    BY <2>2 DEF ContinuationInv, NamesAreKept, continuation_checkpoint
  <2>4. r \in continuation_checkpoint.made[3] /\ \E l \in proof.rows : l.id = r.id
    BY <2>1 DEF ScopedIndex
  <2>5. QED BY <2>3, <2>4 DEF SameNames
<1>3. QED BY <1>1, <1>2 DEF DeletedNeverServed

\* Checks and restores: what a check expects is a recorded field, its evidence is
\* retained with its result, and a restore goes through its announcement.
RestorePc == {"none", "announce", "admit", "execute", "completed", "denied", "failed"}
NamedCheck == Check \cup {"none"}
RestoreRow == [pc : RestorePc, check : NamedCheck, attempt : Nat, gap : BOOLEAN]
HasRow(held, boundary) == \E r \in held : r.boundary = boundary
WasRestored(check, attempt) == \E w \in restored : w.check = check /\ w.attempt = attempt

RestoreTypes ==
    /\ checks = [c \in Check |-> checks[c]]
    /\ restore \in RestoreRow /\ restored \subseteq RestoreRow

\* A restore past its announcement has its row, and a completed one wrote.
RestoreFollows ==
    /\ restore.pc # "none" => restore.gap
    /\ restore.pc \notin {"none", "announce"} =>
          HasRow(retained, <<restore.check, <<"pre", restore.attempt>>>>)
    /\ restore.pc = "completed" => WasRestored(restore.check, restore.attempt)

RestoresInv == RestoreTypes /\ RestoreFollows /\ EvidenceStands /\ RestoresAreAccounted

\* A restore moves on with its check, its attempt and its reason.
LEMMA RestoreMoves ==
  ASSUME NEW r \in RestoreRow, NEW pc \in RestorePc
  PROVE  /\ [r EXCEPT !.pc = pc] \in RestoreRow
         /\ [r EXCEPT !.pc = pc].pc = pc /\ [r EXCEPT !.pc = pc].gap = r.gap
         /\ [r EXCEPT !.pc = pc].check = r.check /\ [r EXCEPT !.pc = pc].attempt = r.attempt
BY DEF RestoreRow

\* A result is one of four classes, and none of them is a completed restore.
LEMMA ClassesAreNoOutcome ==
  ASSUME NEW expected \in {"Pass", "Fail"}, NEW o \in Observations
  PROVE  classify_assumption(expected, o) # <<"completed">>
<1>1. CASE o = <<"passed">>
  BY <1>1 DEF classify_assumption
<1>2. CASE o = <<"failed">>
  BY <1>2 DEF classify_assumption
<1>3. CASE o \in {<<"gap", c>> : c \in GapCause}
  <2>1. PICK c \in GapCause : o = <<"gap", c>>
    BY <1>3
  <2>2. classify_assumption(expected, o) = <<"gap", c>>
    BY <2>1 DEF classify_assumption
  <2>3. QED BY <2>2
<1>4. QED BY <1>1, <1>2, <1>3 DEF Observations

\* Rows are only added, and one of a completed restore only after its write.
LEMMA RowsAdded ==
  ASSUME RestoresInv, retained \subseteq retained', restored \subseteq restored',
         restored' \subseteq RestoreRow,
         \A r \in retained' \ retained : r.cause = <<"completed">> =>
            \E w \in restored' : r.boundary = <<w.check, <<"terminal", w.attempt>>>>,
         \A w \in restored' \ restored :
            w.gap /\ \E r \in retained : r.boundary = <<w.check, <<"pre", w.attempt>>>>
  PROVE  RestoresAreAccounted'
<1>1. ASSUME NEW w \in restored'
      PROVE  w.gap /\ \E r \in retained' : r.boundary = <<w.check, <<"pre", w.attempt>>>>
  BY DEF RestoresInv, RestoresAreAccounted
<1>2. ASSUME NEW r \in retained', r.cause = <<"completed">>
      PROVE  \E w \in restored' : r.boundary = <<w.check, <<"terminal", w.attempt>>>>
  <2>1. CASE r \in retained
    BY <1>2, <2>1 DEF RestoresInv, RestoresAreAccounted
  <2>2. QED BY <1>2, <2>1
<1>3. QED BY <1>1, <1>2 DEF RestoresAreAccounted

\* test_assumption: the record and its evidence together, or neither.
LEMMA TestKeeps ==
  ASSUME RestoresInv, TestAssumption
  PROVE  /\ RestoresInv'
         /\ \A c \in Check : checks[c] # NoCheck =>
               checks'[c].expected = checks[c].expected
               /\ checks'[c].assertion = checks[c].assertion
<1>1. PICK check \in Check, expected \in {"Pass", "Fail"}, a \in Assertion, o \in Observations :
         LET class == classify_assumption(expected, o)
             record == [expected |-> expected, assertion |-> a, class |-> class]
             evidence == IF class = <<"confirmed">> THEN {} ELSE {Evidence(check, class)}
         IN Upserts(check, expected, a) /\ record_assumption(check, record, evidence)
  BY DEF TestAssumption
<1> DEFINE class == classify_assumption(expected, o)
           record == [expected |-> expected, assertion |-> a, class |-> class]
           evidence == IF class = <<"confirmed">> THEN {} ELSE {Evidence(check, class)}
<1>2. class # <<"completed">>
  BY ClassesAreNoOutcome
<1> HIDE DEF class
<1>3. UNCHANGED <<restore, restored>>
  BY DEF TestAssumption
<1>4. checks = [c \in Check |-> checks[c]]
  BY DEF RestoresInv, RestoreTypes
<1>5. CASE UNCHANGED <<checks, retained>>
  BY <1>3, <1>5 DEF RestoresInv, RestoreTypes, RestoreFollows, EvidenceStands,
                    RestoresAreAccounted, HasRow, WasRestored, RestoreRow, Boundary
<1>6. CASE checks' = [checks EXCEPT ![check] = record] /\ retained' = retained \cup evidence
  <2>1. /\ checks'[check] = record
        /\ \A c \in Check \ {check} : checks'[c] = checks[c]
        /\ checks' = [c \in Check |-> checks'[c]]
    BY <1>4, <1>6
  <2>2. \A r \in evidence : r.boundary = <<check, class>> /\ r.cause = class
    BY DEF Evidence, Boundary
  <2>3. class # <<"confirmed">> => \E r \in evidence : r.boundary = <<check, class>>
    BY DEF Evidence, Boundary
  <2>4. EvidenceStands'
    <3>1. ASSUME NEW c \in Check, checks'[c].class \notin {<<"none">>, <<"confirmed">>}
          PROVE  \E r \in retained' : r.boundary = <<c, checks'[c].class>>
      <4>1. CASE c = check
        <5>1. checks'[c].class = class
          BY <2>1, <4>1
        <5>2. QED BY <1>6, <2>3, <3>1, <4>1, <5>1
      <4>2. CASE c # check
        <5>1. checks'[c] = checks[c]
          BY <2>1, <4>2
        <5>2. QED BY <1>6, <3>1, <5>1 DEF RestoresInv, EvidenceStands, Boundary
      <4>3. QED BY <4>1, <4>2
    <3>2. QED BY <3>1 DEF EvidenceStands, Boundary
  <2>5. RestoresAreAccounted'
    <3>1. restored' \subseteq RestoreRow
      BY <1>3 DEF RestoresInv, RestoreTypes
    <3> HIDE DEF evidence
    <3>2. \A r \in retained' \ retained : r.cause # <<"completed">>
      BY <1>2, <1>6, <2>2
    <3>3. QED BY <1>3, <1>6, <3>1, <3>2, RowsAdded
  <2>6. RestoreTypes' /\ RestoreFollows'
    <3> HIDE DEF evidence
    <3>1. HasRow(retained, <<restore.check, <<"pre", restore.attempt>>>>) =>
          HasRow(retained', <<restore.check, <<"pre", restore.attempt>>>>)
      BY <1>6 DEF HasRow
    <3>2. QED BY <1>3, <2>1, <3>1 DEF RestoresInv, RestoreTypes, RestoreFollows, RestoreRow,
                                      WasRestored
  <2>7. ASSUME NEW c \in Check, checks[c] # NoCheck
        PROVE  checks'[c].expected = checks[c].expected
               /\ checks'[c].assertion = checks[c].assertion
    <3>1. CASE c = check
      <4>1. checks[check].expected = expected /\ checks[check].assertion = a
        BY <1>1, <2>7, <3>1 DEF Upserts
      <4>2. QED BY <2>1, <3>1, <4>1
    <3>2. CASE c # check
      BY <2>1, <3>2
    <3>3. QED BY <3>1, <3>2
  <2>8. QED BY <2>4, <2>5, <2>6, <2>7 DEF RestoresInv
<1>7. QED BY <1>1, <1>5, <1>6 DEF record_assumption, class

\* What every other step leaves of the checks, and the evidence that stands with them.
LEMMA ChecksStay ==
  ASSUME RestoresInv, UNCHANGED checks, retained \subseteq retained'
  PROVE  /\ EvidenceStands'
         /\ checks' = [c \in Check |-> checks'[c]]
         /\ \A boundary : HasRow(retained, boundary) => HasRow(retained', boundary)
         /\ \A c \in Check : checks[c] # NoCheck =>
               checks'[c].expected = checks[c].expected
               /\ checks'[c].assertion = checks[c].assertion
<1>1. EvidenceStands'
  BY DEF RestoresInv, EvidenceStands, Boundary
<1>2. \A boundary : HasRow(retained, boundary) => HasRow(retained', boundary)
  BY DEF HasRow
<1>3. QED BY <1>1, <1>2 DEF RestoresInv, RestoreTypes

\* The steps of a restore, and a build's start.
LEMMA RestoreKeeps ==
  ASSUME RestoresInv,
         RefuseUngranted \/ RequestRestore \/ Announce \/ AdmitRestore \/ ExecuteRestore
         \/ RetainOutcome \/ CrashRestore \/ NewBuild
  PROVE  /\ RestoresInv'
         /\ \A c \in Check : checks[c] # NoCheck =>
               checks'[c].expected = checks[c].expected
               /\ checks'[c].assertion = checks[c].assertion
<1>0. /\ restore \in RestoreRow /\ restored \subseteq RestoreRow
      /\ UNCHANGED checks /\ retained \subseteq retained'
  BY DEF RestoresInv, RestoreTypes, RefuseUngranted, RequestRestore, Announce, AdmitRestore,
         ExecuteRestore, RetainOutcome, CrashRestore, NewBuild, Announced
<1>1. /\ EvidenceStands'
      /\ checks' = [c \in Check |-> checks'[c]]
      /\ \A boundary : HasRow(retained, boundary) => HasRow(retained', boundary)
      /\ \A c \in Check : checks[c] # NoCheck =>
            checks'[c].expected = checks[c].expected /\ checks'[c].assertion = checks[c].assertion
  BY <1>0, ChecksStay
<1>2. /\ restore' \in RestoreRow /\ restored \subseteq restored' /\ restored' \subseteq RestoreRow
      /\ RestoreFollows' /\ RestoresAreAccounted'
  <2>1. CASE RefuseUngranted
    <3>1. PICK check \in Check :
             retained' = retained \cup {Evidence(check, <<"prepare_environment">>)}
      BY <2>1 DEF RefuseUngranted
    <3>2. Evidence(check, <<"prepare_environment">>).cause # <<"completed">>
      BY DEF Evidence
    <3>3. UNCHANGED <<restore, restored>> /\ restore.pc = "none"
      BY <2>1 DEF RefuseUngranted
    <3>4. RestoresAreAccounted'
      BY <1>0, <3>1, <3>2, <3>3, RowsAdded
    <3>5. RestoreFollows'
      BY <3>3 DEF RestoreFollows
    <3>6. QED BY <1>0, <3>3, <3>4, <3>5 DEF RestoreRow
  <2>2. CASE RequestRestore
    <3>1. PICK check \in Check :
             NeedsRestore(check)
             /\ restore' = [pc |-> "announce", check |-> check, attempt |-> restore.attempt + 1,
                            gap |-> checks[check].class[1] = "gap"]
      BY <2>2 DEF RequestRestore
    <3>2. restore' = [pc |-> "announce", check |-> check, attempt |-> restore.attempt + 1,
                      gap |-> TRUE]
      BY <3>1 DEF NeedsRestore
    <3>3. restore.attempt + 1 \in Nat
      BY <1>0 DEF RestoreRow
    <3>4. restore' \in RestoreRow
      <4>1. check \in NamedCheck /\ "announce" \in RestorePc
        BY DEF NamedCheck, RestorePc
      <4>2. QED BY <3>2, <3>3, <4>1 DEF RestoreRow
    <3>5. UNCHANGED <<retained, restored>>
      BY <2>2 DEF RequestRestore
    <3>6. RestoresAreAccounted'
      BY <3>5 DEF RestoresInv, RestoresAreAccounted
    <3>7. RestoreFollows'
      BY <3>2 DEF RestoreFollows
    <3>8. QED BY <1>0, <3>4, <3>5, <3>6, <3>7 DEF RestoreRow
  <2>3. CASE Announce
    <3>1. /\ restore.pc = "announce" /\ restore' = [restore EXCEPT !.pc = "admit"]
          /\ retained' = retained \cup {PreEffect(restore)} /\ UNCHANGED restored
      BY <2>3 DEF Announce, Announced
    <3>2. /\ restore' \in RestoreRow /\ restore'.pc = "admit" /\ restore'.gap = restore.gap
          /\ restore'.check = restore.check /\ restore'.attempt = restore.attempt
      BY <1>0, <3>1, RestoreMoves DEF RestorePc
    <3>3. /\ PreEffect(restore).boundary = <<restore.check, <<"pre", restore.attempt>>>>
          /\ PreEffect(restore).cause # <<"completed">>
      BY DEF PreEffect
    <3>4. RestoresAreAccounted'
      BY <1>0, <3>1, <3>3, RowsAdded
    <3>5. RestoreFollows'
      BY <3>1, <3>2, <3>3 DEF RestoresInv, RestoreFollows, HasRow
    <3>6. QED BY <1>0, <3>1, <3>2, <3>4, <3>5
  <2>4. CASE AdmitRestore
    <3>1. UNCHANGED restored /\ restore.pc = "admit"
      BY <2>4 DEF AdmitRestore
    <3>2. CASE restore' = [restore EXCEPT !.pc = "execute"] /\ UNCHANGED retained
      <4>1. /\ restore' \in RestoreRow /\ restore'.pc = "execute" /\ restore'.gap = restore.gap
            /\ restore'.check = restore.check /\ restore'.attempt = restore.attempt
        BY <1>0, <3>2, RestoreMoves DEF RestorePc
      <4>2. RestoresAreAccounted'
        BY <3>1, <3>2 DEF RestoresInv, RestoresAreAccounted
      <4>3. RestoreFollows'
        BY <3>1, <3>2, <4>1 DEF RestoresInv, RestoreFollows, HasRow
      <4>4. QED BY <1>0, <3>1, <4>1, <4>2, <4>3
    <3>3. CASE /\ restore' = [restore EXCEPT !.pc = "none"]
               /\ retained' = retained \cup {Outcome(restore, "refused")}
      <4>1. restore' \in RestoreRow /\ restore'.pc = "none"
        BY <1>0, <3>3, RestoreMoves DEF RestorePc
      <4>2. Outcome(restore, "refused").cause # <<"completed">>
        BY DEF Outcome
      <4>3. RestoresAreAccounted'
        BY <1>0, <3>1, <3>3, <4>2, RowsAdded
      <4>4. RestoreFollows'
        BY <4>1 DEF RestoreFollows
      <4>5. QED BY <1>0, <3>1, <4>1, <4>3, <4>4
    <3>4. QED BY <2>4, <3>2, <3>3 DEF AdmitRestore
  <2>5. CASE ExecuteRestore
    <3>1. PICK end \in {"completed", "denied", "failed"} :
             /\ restore' = [restore EXCEPT !.pc = end]
             /\ \/ end # "denied" /\ restored' = restored \cup {restore}
                \/ end # "completed" /\ UNCHANGED restored
      BY <2>5 DEF ExecuteRestore
    <3>2. UNCHANGED retained /\ restore.pc = "execute"
      BY <2>5 DEF ExecuteRestore
    <3>3. /\ restore' \in RestoreRow /\ restore'.pc = end /\ restore'.gap = restore.gap
          /\ restore'.check = restore.check /\ restore'.attempt = restore.attempt
      <4>1. end \in RestorePc /\ restore' = [restore EXCEPT !.pc = end]
        BY <3>1 DEF RestorePc
      <4>2. QED BY <1>0, <4>1, RestoreMoves
    <3>4. restore.gap /\ HasRow(retained, <<restore.check, <<"pre", restore.attempt>>>>)
      BY <3>2 DEF RestoresInv, RestoreFollows
    <3>5. restored \subseteq restored' /\ restored' \subseteq restored \cup {restore}
      BY <3>1
    <3>6. end = "completed" => restore \in restored'
      BY <3>1
    <3>7. RestoresAreAccounted'
      BY <1>0, <3>2, <3>4, <3>5, RowsAdded DEF HasRow
    <3>8. RestoreFollows'
      BY <3>2, <3>3, <3>4, <3>6 DEF RestoreFollows, HasRow, WasRestored
    <3>9. QED BY <1>0, <3>3, <3>5, <3>7, <3>8
  <2>6. CASE RetainOutcome
    <3>1. /\ UNCHANGED restored /\ restore.pc \in {"completed", "denied", "failed"}
          /\ restore' = [restore EXCEPT !.pc = "none"]
          /\ retained' = retained \cup {Outcome(restore, restore.pc)}
      BY <2>6 DEF RetainOutcome, OutcomeOf
    <3>2. restore' \in RestoreRow /\ restore'.pc = "none"
      BY <1>0, <3>1, RestoreMoves DEF RestorePc
    <3>3. /\ Outcome(restore, restore.pc).cause = <<restore.pc>>
          /\ Outcome(restore, restore.pc).boundary =
                 <<restore.check, <<"terminal", restore.attempt>>>>
      BY DEF Outcome
    <3>4. Outcome(restore, restore.pc).cause = <<"completed">> =>
             \E w \in restored' :
                Outcome(restore, restore.pc).boundary = <<w.check, <<"terminal", w.attempt>>>>
      <4>1. SUFFICES ASSUME Outcome(restore, restore.pc).cause = <<"completed">>
                     PROVE  \E w \in restored : Outcome(restore, restore.pc).boundary =
                                                   <<w.check, <<"terminal", w.attempt>>>>
        BY <3>1
      <4>2. restore.pc = "completed"
        BY <3>3, <4>1
      <4>3. PICK w \in restored : w.check = restore.check /\ w.attempt = restore.attempt
        BY <4>2 DEF RestoresInv, RestoreFollows, WasRestored
      <4>4. QED BY <3>3, <4>3
    <3>5. RestoresAreAccounted'
      BY <1>0, <3>1, <3>4, RowsAdded
    <3>6. RestoreFollows'
      BY <3>2 DEF RestoreFollows
    <3>7. QED BY <1>0, <3>1, <3>2, <3>5, <3>6
  <2>7. CASE CrashRestore \/ NewBuild
    <3>1. UNCHANGED <<retained, restored>>
      BY <2>7 DEF CrashRestore, NewBuild
    <3>2. restore' \in RestoreRow /\ restore'.pc = "none"
      <4>1. "none" \in RestorePc
        BY DEF RestorePc
      <4>2. CASE CrashRestore
        BY <1>0, <4>1, <4>2, RestoreMoves DEF CrashRestore
      <4>3. CASE NewBuild
        BY <1>0, <4>3 DEF NewBuild
      <4>4. QED BY <2>7, <4>2, <4>3
    <3>3. RestoresAreAccounted'
      BY <3>1 DEF RestoresInv, RestoresAreAccounted
    <3>4. RestoreFollows'
      BY <3>2 DEF RestoreFollows
    <3>5. QED BY <1>0, <3>1, <3>2, <3>3, <3>4
  <2>8. QED BY <2>1, <2>2, <2>3, <2>4, <2>5, <2>6, <2>7
<1>3. RestoreTypes'
  <2>1. restore' \in RestoreRow' /\ restored' \subseteq RestoreRow'
    BY <1>2 DEF RestoreRow
  <2>2. QED BY <1>1, <2>1 DEF RestoreTypes
<1>4. QED BY <1>1, <1>2, <1>3 DEF RestoresInv

\* The invariant of the checks and restores, at their start and after every step, and
\* what a check expects.
LEMMA RestoresHold ==
  AssumptionsSpec => [](EvidenceStands /\ RestoresAreAccounted) /\ ExpectationIsFixed
<1> DEFINE Fixed == \A c \in Check : checks[c] # NoCheck =>
                       /\ checks'[c].expected = checks[c].expected
                       /\ checks'[c].assertion = checks[c].assertion
<1>1. AssumptionsInit => RestoresInv
  <2> SUFFICES ASSUME AssumptionsInit PROVE RestoresInv
    OBVIOUS
  <2>1. RestoreTypes
    <3>1. restore \in RestoreRow
      BY DEF AssumptionsInit, RestoreRow, NoRestore, RestorePc, NamedCheck
    <3>2. QED BY <3>1 DEF AssumptionsInit, RestoreTypes
  <2>2. RestoreFollows /\ EvidenceStands /\ RestoresAreAccounted
    BY DEF AssumptionsInit, RestoreFollows, EvidenceStands, RestoresAreAccounted, NoRestore,
           NoCheck
  <2>3. QED BY <2>1, <2>2 DEF RestoresInv
<1>2. RestoresInv /\ [AssumptionsNext]_assumptionVars => RestoresInv' /\ [Fixed]_assumptionVars
  <2> SUFFICES ASSUME RestoresInv, [AssumptionsNext]_assumptionVars
               PROVE  RestoresInv' /\ [Fixed]_assumptionVars
    OBVIOUS
  <2>1. CASE UNCHANGED assumptionVars
    BY <2>1 DEF assumptionVars, RestoresInv, RestoreTypes, RestoreFollows, EvidenceStands,
                RestoresAreAccounted, HasRow, WasRestored, RestoreRow, Boundary
  <2>2. CASE AssumptionsNext
    BY <2>2, TestKeeps, RestoreKeeps DEF AssumptionsNext
  <2>3. QED BY <2>1, <2>2
<1>3. RestoresInv => EvidenceStands /\ RestoresAreAccounted
  BY DEF RestoresInv
<1>4. [Fixed]_assumptionVars =>
         [\A c \in Check : checks[c] # NoCheck =>
             /\ checks'[c].expected = checks[c].expected
             /\ checks'[c].assertion = checks[c].assertion]_assumptionVars
  OBVIOUS
<1> HIDE DEF Fixed
<1>5. QED BY <1>1, <1>2, <1>3, <1>4, PTL DEF AssumptionsSpec, ExpectationIsFixed

\* A satisfied obligation is supported by a row, a continuation runs only from the inputs
\* of its checkpoint, nothing deleted is served and every compaction shortens; a check's
\* evidence is retained, a restore is announced and written before it is reported, and
\* what a check expects never changes (insert_evidence, resume_continuation,
\* force_compaction, record_assumption, prepare_environment).
THEOREM EvidenceSafe == ContinuationSpec /\ AssumptionsSpec => EvidenceHolds
<1>1. ContinuationSpec =>
         [](SatisfiedIsSupported /\ ResumeRunsCurrent /\ DeletedNeverServed /\ CompactionShortens)
  BY ContinuationHolds, ContinuationIsTrue, PTL
<1>2. QED BY <1>1, RestoresHold DEF EvidenceHolds
=============================================================================
