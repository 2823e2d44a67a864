----------------------------- MODULE RootProofs -----------------------------
(***************************************************************************)
(* Proofs about what guards a data root: the claim that runs a check once, *)
(* the admission of one writer to a file, the generation a project's index *)
(* calls fresh, the credential store with its login sessions, the lineages *)
(* a turn's request is bound to, the configuration file with its journal   *)
(* and its document, and the requests of a client.  Each has an inductive  *)
(* invariant that says where an actor stands beside the rows and the locks *)
(* it took.                                                                *)
(***************************************************************************)
EXTENDS Claims, Writers, ProjectIndex, Credentials, Lineages, Configuration, Clients,
        ProofLemmas

-----------------------------------------------------------------------------
(***************************************************************************)
(* The claim of a check.                                                   *)
(***************************************************************************)
\* Where a claim stands, beside its rows.
ClaimsTypeOK ==
    /\ marker \subseteq Attempt /\ commitRow \subseteq Attempt
    /\ claimed \in Attempt \cup {NoAttempt} /\ held \in Attempt \cup {NoAttempt}
    /\ dispatched \in [Attempt -> Nat]

\* A check about to dispatch has its marker, was not dispatched before, and no
\* COMMIT of it was ambiguous.
ClaimedIsFresh ==
    claimed # NoAttempt =>
        claimed \in marker /\ claimed \notin commitRow /\ claimed # held /\ dispatched[claimed] = 0

\* What was dispatched was claimed, and once.
DispatchedIsMarked ==
    \A a \in Attempt : dispatched[a] <= 1 /\ (dispatched[a] # 0 => a \in marker)

\* An attempt whose COMMIT was ambiguous was not dispatched.
AmbiguousIsIdle == \A a \in Attempt : a \in commitRow \/ a = held => dispatched[a] = 0

ClaimsInv ==
    ClaimsTypeOK /\ ClaimedIsFresh /\ DispatchedIsMarked /\ AmbiguousIsIdle /\ WaitRestoredOrEmpty

\* No check is claimed at first.
LEMMA ClaimsInvInit == ClaimsInit => ClaimsInv
BY ClaimsAssumption DEF ClaimsInit, ClaimsInv, ClaimsTypeOK, ClaimedIsFresh, DispatchedIsMarked,
   AmbiguousIsIdle, WaitRestoredOrEmpty

\* Every step of claim_check, of its ambiguous COMMIT and of a restart keeps the invariant.
LEMMA ClaimsInvNext == ClaimsInv /\ [ClaimsNext]_claimsVars => ClaimsInv'
<1> SUFFICES ASSUME ClaimsInv, [ClaimsNext]_claimsVars PROVE ClaimsInv'
  OBVIOUS
<1> USE ClaimsAssumption DEF ClaimsInv, ClaimsTypeOK, ClaimedIsFresh, DispatchedIsMarked,
        AmbiguousIsIdle, WaitRestoredOrEmpty, claimRows
<1>1. ASSUME NEW a \in Attempt, NEW native \in BOOLEAN, ClaimWaitRestore(a, native)
      PROVE  ClaimsInv'
  BY <1>1 DEF ClaimWaitRestore
<1>2. ASSUME NEW a \in Attempt, NEW native \in BOOLEAN, ClaimCommits(a, native)
      PROVE  ClaimsInv'
  BY <1>2 DEF ClaimCommits, SlotUsable, Quarantined, Claimable, CommitClaim
<1>3. ASSUME NEW a \in Attempt, NEW native \in BOOLEAN, ClaimReported(a, native)
      PROVE  ClaimsInv'
  BY <1>3 DEF ClaimReported, SlotUsable, Quarantined, Claimable, CommitClaim
<1>4. CASE ClaimRefused
  BY <1>4 DEF ClaimRefused, RestoreOrQuarantine
<1>5. CASE DispatchCheck
  BY <1>5 DEF DispatchCheck
<1>6. CASE PreClaimRejection
  BY <1>6 DEF PreClaimRejection, RestoreOrQuarantine
<1>7. CASE ReopenStore
  BY <1>7 DEF ReopenStore
<1>8. CASE CloseStore
  BY <1>8 DEF CloseStore
<1>9. CASE StoreRestarts
  BY <1>9 DEF StoreRestarts
<1>10. CASE TaskMoves
  BY <1>10 DEF TaskMoves
<1>11. CASE UNCHANGED claimsVars
  BY <1>11 DEF claimsVars
<1>12. QED
  BY <1>1, <1>2, <1>3, <1>4, <1>5, <1>6, <1>7, <1>8, <1>9, <1>10, <1>11 DEF ClaimsNext

\* Whatever COMMIT reports, however often the store is closed and opened again: an attempt
\* is dispatched at most once, under its marker and never after an ambiguous COMMIT, and a
\* connection is kept only with its wait put back.
THEOREM ClaimsOnce == ClaimsSpec => []ClaimRunsOnce
<1>1. ClaimsInv => ClaimRunsOnce
  BY ClaimsAssumption DEF ClaimsInv, ClaimsTypeOK, ClaimedIsFresh, DispatchedIsMarked,
     AmbiguousIsIdle, ClaimRunsOnce, FirstOnly, AmbiguousNeverRuns
<1>2. QED
  BY ClaimsInvInit, ClaimsInvNext, <1>1, PTL DEF ClaimsSpec

-----------------------------------------------------------------------------
(***************************************************************************)
(* The admission of a writer.  Its invariant ties every store to the       *)
(* registry of its process and to the lock of the inode it stands for.     *)
(***************************************************************************)
Phases == {"none", "placing", "admitted", "open", "empty"}

StoreRecord == [phase : Phases, writer : 0 .. MaxInodes, id : 0 .. MaxInodes,
                conn : 0 .. MaxInodes, kept : BOOLEAN]
RegistryRecord == [held : SUBSET LockInode, parked : [LockInode -> Nat],
                   unidentified : Nat, guard : BOOLEAN]

WritersTypeOK ==
    /\ dbPath \in 0 .. MaxInodes /\ inodes \in 0 .. MaxInodes
    /\ election \in Process \cup {"free", "child"}
    /\ ofd \in [LockInode -> Process \cup {"free", "child"}]
    /\ registry \in [Process -> RegistryRecord]
    /\ store \in [Stores -> StoreRecord]

\* What each phase of a store keeps, its record locks included.
StoreStands(s) ==
    /\ store[s].phase = "none" => store[s].writer = 0
    /\ store[s].phase \in {"open", "empty"} => store[s].writer # 0
    /\ store[s].phase \in {"placing", "admitted"} => store[s].id # 0
    /\ store[s].conn = IF store[s].phase = "open" THEN store[s].writer ELSE 0
    /\ store[s].kept

\* The inodes a store stands for: its writer's, and the one it was admitted to.
LocksOf(s) ==
    ({store[s].writer} \cup (IF store[s].phase = "admitted" THEN {store[s].id} ELSE {})) \ {0}

\* An inode a store stands for is in its process' registry, under the lock of that process.
OwnedIsHeld ==
    \A s \in Stores, i \in LockInode :
        i \in LocksOf(s) => i \in registry[ProcessOf(s)].held /\ ofd[i] = ProcessOf(s)

OwnedByOne == \A s, t \in Stores : s # t => LocksOf(s) \cap LocksOf(t) = {}

\* The mutex of a registry is held by the one admission being placed.
OnePlaces ==
    /\ \A s \in Stores : store[s].phase = "placing" => registry[ProcessOf(s)].guard
    /\ \A s, t \in Stores :
          store[s].phase = "placing" /\ store[t].phase = "placing" /\ ProcessOf(s) = ProcessOf(t)
          => s = t

\* An admission being placed found room, and nothing else parks meanwhile.
PlacingHasRoom ==
    \A s \in Stores : store[s].phase = "placing" => ~ Saturated(ProcessOf(s))

WritersInv ==
    /\ WritersTypeOK
    /\ \A s \in Stores : StoreStands(s)
    /\ OwnedIsHeld /\ OwnedByOne /\ OnePlaces /\ PlacingHasRoom
    /\ ParkedBounded /\ ElectionOutlivesStore

\* A store is one of a process.
LEMMA StoresProcess == \A s \in Stores : ProcessOf(s) \in Process /\ s = <<s[1], s[2]>>
BY DEF Stores, ProcessOf

\* At first no store stands for a file.
LEMMA WritersInvInit == WritersInit => WritersInv
<1> SUFFICES ASSUME WritersInit PROVE WritersInv
  OBVIOUS
<1> USE WritersAssumption, StoresProcess
<1>1. WritersTypeOK
  BY DEF WritersInit, WritersTypeOK, NoStore, EmptyRegistry, StoreRecord, RegistryRecord, Phases, LockInode
<1>2. \A s \in Stores : store[s] = NoStore
  BY DEF WritersInit
<1>3. (\A s \in Stores : StoreStands(s)) /\ OwnedIsHeld /\ OwnedByOne
  BY <1>2 DEF StoreStands, OwnedIsHeld, OwnedByOne, LocksOf, NoStore, LockInode
<1>4. OnePlaces /\ PlacingHasRoom
  BY <1>2 DEF OnePlaces, PlacingHasRoom, NoStore
<1>5. ElectionOutlivesStore
  BY <1>2 DEF ElectionOutlivesStore, NoStore, Stores
<1>6. ParkedBounded
  <2> SUFFICES ASSUME NEW p \in Process PROVE Parked(p) + registry[p].unidentified <= STORE_PARKED_MAX
    BY DEF ParkedBounded
  <2>1. registry[p].unidentified = 0 /\ \A i \in 1 .. MaxInodes : registry[p].parked[i] = 0
    BY DEF WritersInit, EmptyRegistry, LockInode
  <2>2. Parked(p) = 0
    BY <2>1, SumZero DEF Parked
  <2>3. QED BY <2>1, <2>2
<1>7. QED BY <1>1, <1>3, <1>4, <1>5, <1>6 DEF WritersInv

\* The descriptors parked, when those of one inode become k.
LEMMA ParkedChange ==
  ASSUME NEW f, NEW g, NEW i \in 1 .. MaxInodes,
         \A j \in 1 .. MaxInodes : f[j] \in Nat /\ g[j] \in Nat,
         \A j \in 1 .. MaxInodes : j # i => g[j] = f[j]
  PROVE  /\ SumTo(f, MaxInodes) \in Nat /\ SumTo(g, MaxInodes) \in Nat
         /\ SumTo(g, MaxInodes) + f[i] = SumTo(f, MaxInodes) + g[i]
<1>1. MaxInodes \in Nat
  BY WritersAssumption
<1>2. SumTo(f, MaxInodes) \in Nat /\ SumTo(g, MaxInodes) \in Nat
  BY <1>1, SumNat
<1>3. QED BY <1>1, <1>2, SumChange

\* The descriptors a process parked are a number.
LEMMA ParkedNat ==
  ASSUME WritersTypeOK, NEW p \in Process
  PROVE  Parked(p) \in Nat
BY WritersAssumption, SumNat DEF WritersTypeOK, RegistryRecord, Parked, LockInode

\* The types a step of one store keeps.
LEMMA StoreTyped ==
  ASSUME WritersTypeOK, NEW s \in Stores, NEW r \in StoreRecord, store' = [store EXCEPT ![s] = r]
  PROVE  /\ store' \in [Stores -> StoreRecord]
         /\ store'[s] = r /\ \A t \in Stores \ {s} : store'[t] = store[t]
BY DEF WritersTypeOK

\* A step that takes nothing: the registries grow no entry, a store that is not
\* being placed is in a phase it may be in, and stands for no further inode.
TakesNothing(s) ==
    /\ store' \in [Stores -> StoreRecord]
    /\ \A t \in Stores \ {s} : store'[t] = store[t]
    /\ StoreStands(s)' /\ LocksOf(s)' \subseteq LocksOf(s)
    /\ store'[s].phase # "placing" /\ store[s].phase # "none"

\* A step that takes nothing and leaves locks and registries alone keeps the invariant.
LEMMA StoreOnlyStep ==
  ASSUME WritersInv, NEW s \in Stores, TakesNothing(s),
         UNCHANGED <<dbPath, inodes, ofd, registry, election>>
  PROVE  WritersInv'
<1> USE StoresProcess DEF WritersInv, TakesNothing
<1>1. WritersTypeOK'
  BY DEF WritersTypeOK
<1>3. \A t \in Stores : StoreStands(t)'
  BY DEF StoreStands
<1>4. \A t \in Stores : LocksOf(t)' \subseteq LocksOf(t)
  BY DEF LocksOf
<1>5. OwnedIsHeld'
  BY <1>4 DEF OwnedIsHeld
<1>6. OwnedByOne'
  BY <1>4 DEF OwnedByOne
<1>7. \A t \in Stores : store'[t].phase = "placing" => store[t].phase = "placing"
  OBVIOUS
<1>8. OnePlaces'
  BY <1>7 DEF OnePlaces
<1>9. PlacingHasRoom'
  BY <1>7 DEF PlacingHasRoom, Saturated, Parked
<1>10. ParkedBounded'
  BY DEF ParkedBounded, Parked
<1>11. ElectionOutlivesStore'
  BY DEF ElectionOutlivesStore, Stores
<1>12. QED BY <1>1, <1>3, <1>5, <1>6, <1>8, <1>9, <1>10, <1>11

\* A step of one store that also retires an entry the store stood for.
LEMMA RetiringStep ==
  ASSUME WritersInv, NEW s \in Stores, TakesNothing(s), NEW i \in LockInode,
         i \in LocksOf(s), i \notin LocksOf(s)', ~ registry[ProcessOf(s)].guard,
         RetireWriter(ProcessOf(s), i), UNCHANGED <<dbPath, inodes, election>>
  PROVE  WritersInv'
<1> DEFINE p == ProcessOf(s)
<1> USE StoresProcess DEF WritersInv, TakesNothing
<1>1. p \in Process /\ registry[p] \in RegistryRecord
  BY DEF WritersTypeOK
<1>2. registry' = [registry EXCEPT ![p] =
                     [registry[p] EXCEPT !.held = registry[p].held \ {i},
                                         !.parked = [registry[p].parked EXCEPT ![i] = 0]]]
  BY DEF RetireWriter
<1>3. PICK rest \in Process \cup {"free", "child"} : ofd' = [ofd EXCEPT ![i] = rest]
  BY DEF RetireWriter, LocksDropped
<1>4. [registry[p] EXCEPT !.held = registry[p].held \ {i},
                          !.parked = [registry[p].parked EXCEPT ![i] = 0]] \in RegistryRecord
  BY <1>1 DEF RegistryRecord
<1>5. /\ registry' \in [Process -> RegistryRecord]
      /\ \A q \in Process \ {p} : registry'[q] = registry[q]
      /\ registry'[p] = [registry[p] EXCEPT !.held = registry[p].held \ {i},
                                            !.parked = [registry[p].parked EXCEPT ![i] = 0]]
  BY <1>1, <1>2, <1>4 DEF WritersTypeOK
<1>6. /\ registry'[p].held = registry[p].held \ {i}
      /\ registry'[p].parked = [registry[p].parked EXCEPT ![i] = 0]
      /\ registry'[p].unidentified = registry[p].unidentified
      /\ registry'[p].guard = registry[p].guard
  BY <1>1, <1>5 DEF RegistryRecord
<1>7. ofd' \in [LockInode -> Process \cup {"free", "child"}] /\ \A j \in LockInode \ {i} : ofd'[j] = ofd[j]
  BY <1>3 DEF WritersTypeOK
<1> HIDE DEF p
<1>8. WritersTypeOK'
  BY <1>5, <1>7 DEF WritersTypeOK
<1>9. \A t \in Stores : StoreStands(t)'
  BY DEF StoreStands
<1>10. \A t \in Stores : LocksOf(t)' \subseteq LocksOf(t) /\ i \notin LocksOf(t)'
  <2>1. \A t \in Stores \ {s} : LocksOf(t)' = LocksOf(t)
    BY DEF LocksOf
  <2>2. QED BY <2>1 DEF OwnedByOne
<1>11. OwnedIsHeld'
  <2> SUFFICES ASSUME NEW t \in Stores, NEW j \in LockInode, j \in LocksOf(t)'
               PROVE  j \in registry'[ProcessOf(t)].held /\ ofd'[j] = ProcessOf(t)
    BY DEF OwnedIsHeld
  <2>1. j # i /\ j \in LocksOf(t)
    BY <1>10
  <2>2. j \in registry[ProcessOf(t)].held /\ ofd[j] = ProcessOf(t)
    BY <2>1 DEF OwnedIsHeld
  <2>3. QED BY <2>1, <2>2, <1>5, <1>6, <1>7
<1>12. OwnedByOne'
  BY <1>10 DEF OwnedByOne
<1>13. \A t \in Stores : store'[t].phase = "placing" => store[t].phase = "placing" /\ ProcessOf(t) # p
  BY DEF OnePlaces, p
<1>14. OnePlaces'
  BY <1>13, <1>5 DEF OnePlaces
<1>15. PlacingHasRoom'
  BY <1>13, <1>5 DEF PlacingHasRoom, Saturated, Parked
<1>16. ParkedBounded'
  <2> DEFINE f == registry[p].parked
             g == registry'[p].parked
  <2>a. f \in [LockInode -> Nat] /\ g \in [LockInode -> Nat]
    BY <1>1, <1>5 DEF RegistryRecord
  <2>b. i \in 1 .. MaxInodes /\ \A j \in 1 .. MaxInodes : f[j] \in Nat /\ g[j] \in Nat
    BY <2>a DEF LockInode
  <2>c. g[i] = 0 /\ \A j \in 1 .. MaxInodes : j # i => g[j] = f[j]
    BY <1>6, <2>a DEF LockInode
  <2>d. Parked(p) = SumTo(f, MaxInodes) /\ Parked(p)' = SumTo(g, MaxInodes)
    BY DEF Parked
  <2> HIDE DEF f, g
  <2>1. f[i] \in Nat /\ Parked(p)' \in Nat /\ Parked(p) \in Nat
    BY <2>b, <2>c, <2>d, ParkedChange
  <2>2. Parked(p)' + f[i] = Parked(p) + 0
    BY <2>b, <2>c, <2>d, ParkedChange
  <2>3. \A q \in Process \ {p} : Parked(q)' = Parked(q)
    BY <1>5 DEF Parked
  <2>4. registry[p].unidentified \in Nat
    BY <1>1 DEF RegistryRecord
  <2>5. Parked(p)' + registry'[p].unidentified <= STORE_PARKED_MAX
    BY <2>1, <2>2, <2>4, <1>1, <1>6, WritersAssumption DEF ParkedBounded
  <2>6. QED BY <2>3, <2>5, <1>5 DEF ParkedBounded
<1>17. ElectionOutlivesStore'
  BY DEF ElectionOutlivesStore, Stores
<1>18. QED BY <1>8, <1>9, <1>11, <1>12, <1>14, <1>15, <1>16, <1>17

\* CloseConnection.
LEMMA CloseConnectionStep ==
  ASSUME WritersInv, NEW s \in Stores, CloseConnection(s)
  PROVE  WritersInv'
<1> DEFINE r == [store[s] EXCEPT !.phase = "empty", !.conn = 0, !.kept = TRUE]
<1>a. store[s] \in StoreRecord /\ WritersTypeOK /\ StoreStands(s)
  BY DEF WritersInv, WritersTypeOK
<1>b. 0 \in 0 .. MaxInodes
  BY WritersAssumption
<1>1. r \in StoreRecord
  BY <1>a, <1>b DEF StoreRecord, Phases
<1>2. store' = [store EXCEPT ![s] = r]
  BY DEF CloseConnection
<1>3. store'[s] = r /\ store' \in [Stores -> StoreRecord] /\ \A t \in Stores \ {s} : store'[t] = store[t]
  BY <1>1, <1>2, <1>a, StoreTyped
<1>4. StoreStands(s)' /\ LocksOf(s)' \subseteq LocksOf(s)
  BY <1>3, <1>a DEF StoreRecord, StoreStands, LocksOf, CloseConnection
<1>5. TakesNothing(s)
  BY <1>3, <1>4, <1>a DEF TakesNothing, CloseConnection, StoreRecord
<1>6. UNCHANGED <<dbPath, inodes, ofd, registry, election>>
  BY DEF CloseConnection
<1>7. QED BY <1>5, <1>6, StoreOnlyStep

\* DropStore: a store without a connection is dropped, and its entry retired.
LEMMA DropStoreStep ==
  ASSUME WritersInv, NEW s \in Stores, DropStore(s)
  PROVE  WritersInv'
<1> DEFINE i == store[s].writer
<1>a. store[s] \in StoreRecord /\ WritersTypeOK /\ StoreStands(s) /\ store[s].phase = "empty"
  BY DEF WritersInv, WritersTypeOK, DropStore
<1>b. NoStore \in StoreRecord
  BY WritersAssumption DEF NoStore, StoreRecord, Phases
<1>1. i \in LockInode /\ i \in LocksOf(s)
  BY <1>a DEF StoreRecord, StoreStands, LocksOf, LockInode
<1>2. store'[s] = NoStore /\ store' \in [Stores -> StoreRecord] /\ \A t \in Stores \ {s} : store'[t] = store[t]
  BY <1>a, <1>b, StoreTyped DEF DropStore
<1>3. StoreStands(s)' /\ LocksOf(s)' = {}
  BY <1>2 DEF StoreStands, LocksOf, NoStore
<1>4. TakesNothing(s)
  BY <1>2, <1>3, <1>a DEF TakesNothing, NoStore
<1>5. ~ registry[ProcessOf(s)].guard /\ RetireWriter(ProcessOf(s), i) /\ UNCHANGED <<dbPath, inodes, election>>
  BY DEF DropStore
<1> HIDE DEF i
<1>6. QED BY <1>1, <1>3, <1>4, <1>5, RetiringStep

\* The store of an admission that did not come through.
LEMMA StoreRefusedStands ==
  ASSUME WritersInv, NEW s \in Stores, store' = StoreRefused(s)
  PROVE  /\ store' \in [Stores -> StoreRecord]
         /\ \A t \in Stores \ {s} : store'[t] = store[t]
         /\ StoreStands(s)' \/ store[s].phase = "open"
         /\ store'[s].phase \in {"none", "empty"} /\ store'[s].writer = store[s].writer
         /\ store[s].writer = 0 => store'[s].phase = "none"
         /\ LocksOf(s)' = {store[s].writer} \ {0}
<1> DEFINE r == [store[s] EXCEPT !.phase = IF store[s].writer = 0 THEN "none" ELSE "empty", !.id = 0]
<1>a. store[s] \in StoreRecord /\ WritersTypeOK /\ StoreStands(s) /\ 0 \in 0 .. MaxInodes
  BY WritersAssumption DEF WritersInv, WritersTypeOK
<1>1. r \in StoreRecord
  BY <1>a DEF StoreRecord, Phases
<1>2. store' = [store EXCEPT ![s] = r]
  BY DEF StoreRefused
<1>3. store'[s] = r /\ store' \in [Stores -> StoreRecord] /\ \A t \in Stores \ {s} : store'[t] = store[t]
  BY <1>1, <1>2, <1>a, StoreTyped
<1>4. QED BY <1>3, <1>a DEF StoreRecord, StoreStands, LocksOf

\* SettleFails.
LEMMA SettleFailsStep ==
  ASSUME WritersInv, NEW s \in Stores, SettleFails(s)
  PROVE  WritersInv'
<1> DEFINE i == store[s].id
<1>a. store[s] \in StoreRecord /\ StoreStands(s) /\ store[s].phase = "admitted"
  BY DEF WritersInv, WritersTypeOK, SettleFails
<1>1. store' = StoreRefused(s) /\ ~ registry[ProcessOf(s)].guard /\ UNCHANGED <<dbPath, inodes, election>>
  BY DEF SettleFails
<1>2. i \in LockInode /\ i \in LocksOf(s) /\ LocksOf(s)' \subseteq LocksOf(s)
  BY <1>a, <1>1, StoreRefusedStands DEF StoreRecord, StoreStands, LocksOf, LockInode
<1>3. TakesNothing(s)
  BY <1>a, <1>1, <1>2, StoreRefusedStands DEF TakesNothing
<1>4. CASE store[s].writer = i
  <2>1. UNCHANGED <<registry, ofd>>
    BY <1>4 DEF SettleFails
  <2>2. QED BY <1>1, <1>3, <2>1, StoreOnlyStep
<1>5. CASE store[s].writer # i
  <2>1. RetireWriter(ProcessOf(s), i)
    BY <1>5 DEF SettleFails
  <2>2. i \notin LocksOf(s)'
    BY <1>1, <1>5, StoreRefusedStands
  <2> HIDE DEF i
  <2>3. QED BY <1>1, <1>2, <1>3, <2>1, <2>2, RetiringStep
<1>6. QED BY <1>4, <1>5

\* SettleAdmitted, with or without another entry to retire.
LEMMA SettleAdmittedStep ==
  ASSUME WritersInv, NEW s \in Stores, SettleAdmitted(s)
  PROVE  WritersInv'
<1> DEFINE i == store[s].writer
           r == [phase |-> "open", writer |-> dbPath, id |-> 0, conn |-> dbPath, kept |-> TRUE]
<1>a. /\ store[s] \in StoreRecord /\ WritersTypeOK /\ StoreStands(s)
      /\ store[s].phase = "admitted" /\ dbPath = store[s].id
  BY DEF WritersInv, WritersTypeOK, SettleAdmitted, Settled
<1>b. r \in StoreRecord /\ store' = [store EXCEPT ![s] = r]
  <2>1. dbPath \in 0 .. MaxInodes /\ 0 \in 0 .. MaxInodes
    BY <1>a, WritersAssumption DEF WritersTypeOK
  <2>2. QED BY <2>1 DEF StoreRecord, Phases, SettleAdmitted
<1>1. store'[s] = r /\ store' \in [Stores -> StoreRecord] /\ \A t \in Stores \ {s} : store'[t] = store[t]
  BY <1>a, <1>b, StoreTyped
<1>2. StoreStands(s)' /\ LocksOf(s)' = {dbPath} /\ dbPath \in LocksOf(s) /\ store'[s].phase = "open"
  BY <1>1, <1>a DEF StoreStands, LocksOf, NoStore
<1> HIDE DEF r
<1>3. TakesNothing(s)
  BY <1>1, <1>2, <1>a DEF TakesNothing
<1>4. UNCHANGED <<dbPath, inodes, election>>
  BY DEF SettleAdmitted
<1>5. CASE i \in {0, dbPath}
  <2>1. UNCHANGED <<registry, ofd>>
    BY <1>5 DEF SettleAdmitted
  <2>2. QED BY <1>3, <1>4, <2>1, StoreOnlyStep
<1>6. CASE i \notin {0, dbPath}
  <2>1. ~ registry[ProcessOf(s)].guard /\ RetireWriter(ProcessOf(s), i)
    BY <1>6 DEF SettleAdmitted
  <2>2. i \in LockInode /\ i \in LocksOf(s) /\ i \notin LocksOf(s)'
    BY <1>2, <1>6, <1>a DEF LocksOf, StoreRecord, LockInode
  <2> HIDE DEF i
  <2>3. QED BY <1>3, <1>4, <2>1, <2>2, RetiringStep
<1>7. QED BY <1>5, <1>6

\* An admission being placed that is refused: the mutex is free again, the store is as
\* it was, and at most one more descriptor is kept.
LEMMA RefusalStep ==
  ASSUME WritersInv, NEW s \in Stores, store[s].phase = "placing", store' = StoreRefused(s),
         NEW r \in RegistryRecord, registry' = [registry EXCEPT ![ProcessOf(s)] = r],
         r.held = registry[ProcessOf(s)].held,
         (Parked(ProcessOf(s)) + registry[ProcessOf(s)].unidentified <= STORE_PARKED_MAX)',
         UNCHANGED <<dbPath, inodes, ofd, election>>
  PROVE  WritersInv'
<1> DEFINE p == ProcessOf(s)
<1> USE StoresProcess DEF WritersInv
<1>1. p \in Process /\ registry' \in [Process -> RegistryRecord] /\ registry'[p] = r
      /\ \A q \in Process \ {p} : registry'[q] = registry[q]
  BY DEF WritersTypeOK
<1>2. store' \in [Stores -> StoreRecord] /\ \A t \in Stores \ {s} : store'[t] = store[t]
  BY StoreRefusedStands
<1>3. /\ StoreStands(s)' /\ LocksOf(s)' \subseteq LocksOf(s)
      /\ store'[s].phase \in {"none", "empty"} /\ store[s].phase # "none"
  BY StoreRefusedStands DEF LocksOf
<1> HIDE DEF p
<1>4. WritersTypeOK'
  BY <1>1, <1>2 DEF WritersTypeOK
<1>5. \A t \in Stores : StoreStands(t)'
  BY <1>2, <1>3 DEF StoreStands
<1>6. \A t \in Stores : LocksOf(t)' \subseteq LocksOf(t)
  BY <1>2, <1>3 DEF LocksOf
<1>7. \A q \in Process : registry'[q].held = registry[q].held
  BY <1>1 DEF p
<1>8. OwnedIsHeld'
  BY <1>6, <1>7 DEF OwnedIsHeld
<1>9. OwnedByOne'
  BY <1>6 DEF OwnedByOne
<1>10. \A t \in Stores : store'[t].phase = "placing" => store[t].phase = "placing" /\ ProcessOf(t) # p
  BY <1>2, <1>3 DEF OnePlaces, p
<1>11. OnePlaces'
  BY <1>1, <1>10 DEF OnePlaces
<1>12. PlacingHasRoom'
  BY <1>1, <1>10 DEF PlacingHasRoom, Saturated, Parked
<1>13. ParkedBounded'
  <2>1. \A q \in Process \ {p} : (Parked(q) + registry[q].unidentified)' = Parked(q) + registry[q].unidentified
    BY <1>1 DEF Parked
  <2>2. QED BY <2>1, <1>1 DEF ParkedBounded, p
<1>14. ElectionOutlivesStore'
  BY <1>2, <1>3 DEF ElectionOutlivesStore, Stores
<1>15. QED BY <1>4, <1>5, <1>8, <1>9, <1>11, <1>12, <1>13, <1>14

\* What a store being placed knows of its process' registry.
LEMMA PlacingFacts ==
  ASSUME WritersInv, NEW s \in Stores, store[s].phase = "placing"
  PROVE  /\ registry[ProcessOf(s)] \in RegistryRecord /\ ProcessOf(s) \in Process
         /\ Parked(ProcessOf(s)) \in Nat /\ registry[ProcessOf(s)].unidentified \in Nat
         /\ Parked(ProcessOf(s)) + registry[ProcessOf(s)].unidentified + 1 <= STORE_PARKED_MAX
<1>1. registry[ProcessOf(s)] \in RegistryRecord /\ ProcessOf(s) \in Process
  BY StoresProcess DEF WritersInv, WritersTypeOK
<1>2. Parked(ProcessOf(s)) \in Nat /\ registry[ProcessOf(s)].unidentified \in Nat
  BY <1>1, ParkedNat DEF WritersInv, RegistryRecord
<1>3. QED BY <1>1, <1>2, WritersAssumption DEF WritersInv, PlacingHasRoom, Saturated

\* PlacePark.
LEMMA PlaceParkStep ==
  ASSUME WritersInv, NEW s \in Stores, PlacePark(s)
  PROVE  WritersInv'
<1> DEFINE p == ProcessOf(s)
           f == registry[p].parked
           g == [f EXCEPT ![dbPath] = f[dbPath] + 1]
           r == [registry[p] EXCEPT !.guard = FALSE, !.parked = g]
<1>1. store[s].phase = "placing" /\ store' = StoreRefused(s) /\ UNCHANGED <<dbPath, inodes, ofd, election>>
  BY DEF PlacePark
<1>2. /\ registry[p] \in RegistryRecord /\ Parked(p) \in Nat /\ registry[p].unidentified \in Nat
      /\ Parked(p) + registry[p].unidentified + 1 <= STORE_PARKED_MAX /\ p \in Process
  BY <1>1, PlacingFacts
<1>3. dbPath \in LockInode
  BY DEF PlacePark, WritersInv, WritersTypeOK, LockInode
<1>4. f \in [LockInode -> Nat]
  BY <1>2 DEF RegistryRecord
<1>5. g \in [LockInode -> Nat] /\ g[dbPath] = f[dbPath] + 1 /\ \A j \in LockInode : j # dbPath => g[j] = f[j]
  BY <1>3, <1>4
<1>6. r \in RegistryRecord
  BY <1>2, <1>5 DEF RegistryRecord
<1>7. r.held = registry[p].held /\ r.parked = g /\ r.unidentified = registry[p].unidentified
  BY <1>2 DEF RegistryRecord
<1>8. registry' = [registry EXCEPT ![p] = r]
  BY DEF PlacePark
<1>9. registry'[p] = r
  BY <1>2, <1>8 DEF WritersInv, WritersTypeOK
<1>10. SumTo(g, MaxInodes) = SumTo(f, MaxInodes) + 1
  <2>1. dbPath \in 1 .. MaxInodes /\ \A j \in 1 .. MaxInodes : f[j] \in Nat /\ g[j] \in Nat
    BY <1>3, <1>4, <1>5 DEF LockInode
  <2>2. g[dbPath] = f[dbPath] + 1 /\ \A j \in 1 .. MaxInodes : j # dbPath => g[j] = f[j]
    BY <1>5 DEF LockInode
  <2> HIDE DEF f, g
  <2>3. QED BY <2>1, <2>2, ParkedChange
<1>11. Parked(p)' = Parked(p) + 1
  BY <1>7, <1>9, <1>10 DEF Parked
<1> HIDE DEF r, f, g
<1>12. (Parked(p) + registry[p].unidentified <= STORE_PARKED_MAX)'
  BY <1>2, <1>7, <1>9, <1>11, WritersAssumption
<1> HIDE DEF p
<1>13. QED BY <1>1, <1>6, <1>7, <1>8, <1>12, RefusalStep DEF p

\* PlaceUnidentified.
LEMMA PlaceUnidentifiedStep ==
  ASSUME WritersInv, NEW s \in Stores, PlaceUnidentified(s)
  PROVE  WritersInv'
<1> DEFINE p == ProcessOf(s)
           r == [registry[p] EXCEPT !.guard = FALSE, !.unidentified = registry[p].unidentified + 1]
<1>1. store[s].phase = "placing" /\ store' = StoreRefused(s) /\ UNCHANGED <<dbPath, inodes, ofd, election>>
  BY DEF PlaceUnidentified
<1>2. /\ registry[p] \in RegistryRecord /\ Parked(p) \in Nat /\ registry[p].unidentified \in Nat
      /\ Parked(p) + registry[p].unidentified + 1 <= STORE_PARKED_MAX /\ p \in Process
  BY <1>1, PlacingFacts
<1>3. r \in RegistryRecord
  <2> DEFINE k == registry[p].unidentified + 1
  <2>1. k \in Nat
    BY <1>2
  <2> HIDE DEF k
  <2>2. [registry[p] EXCEPT !.guard = FALSE, !.unidentified = k] \in RegistryRecord
    BY <1>2, <2>1 DEF RegistryRecord
  <2>3. QED BY <2>2 DEF k
<1>4. /\ r.held = registry[p].held /\ r.parked = registry[p].parked
      /\ r.unidentified = registry[p].unidentified + 1
  BY <1>2 DEF RegistryRecord
<1>5. registry' = [registry EXCEPT ![p] = r]
  BY DEF PlaceUnidentified
<1>6. registry'[p] = r
  BY <1>2, <1>5 DEF WritersInv, WritersTypeOK
<1>7. Parked(p)' = Parked(p)
  BY <1>4, <1>6 DEF Parked
<1> HIDE DEF r
<1>8. (Parked(p) + registry[p].unidentified <= STORE_PARKED_MAX)'
  BY <1>2, <1>4, <1>6, <1>7, WritersAssumption
<1>9. QED BY <1>1, <1>3, <1>4, <1>5, <1>8, RefusalStep

\* PlaceRefused: the descriptor it closes is of an inode no store of the process stands
\* for, so no connection has its locks dropped.
LEMMA PlaceRefusedStep ==
  ASSUME WritersInv, NEW s \in Stores, PlaceRefused(s)
  PROVE  WritersInv'
<1> DEFINE p == ProcessOf(s)
           r == [registry[p] EXCEPT !.guard = FALSE]
           refused == StoreRefused(s)
<1>1. store[s].phase = "placing" /\ UNCHANGED <<dbPath, inodes, ofd, election>> /\ dbPath \notin registry[p].held
  BY DEF PlaceRefused
<1>2. /\ registry[p] \in RegistryRecord /\ Parked(p) \in Nat /\ registry[p].unidentified \in Nat
      /\ Parked(p) + registry[p].unidentified + 1 <= STORE_PARKED_MAX /\ p \in Process
  BY <1>1, PlacingFacts
<1>3. r \in RegistryRecord
  BY <1>2 DEF RegistryRecord
<1>4. r.held = registry[p].held /\ r.parked = registry[p].parked /\ r.unidentified = registry[p].unidentified
  BY <1>2 DEF RegistryRecord
<1>5. registry' = [registry EXCEPT ![p] = r]
  BY DEF PlaceRefused
<1>6. registry'[p] = r
  BY <1>2, <1>5 DEF WritersInv, WritersTypeOK
<1>7. Parked(p)' = Parked(p)
  BY <1>4, <1>6 DEF Parked
<1>8. (Parked(p) + registry[p].unidentified <= STORE_PARKED_MAX)'
  BY <1>2, <1>4, <1>6, <1>7, WritersAssumption
<1>9. store' = Closes(refused, p, dbPath)
  BY DEF PlaceRefused
<1>10. \A t \in Stores : refused[t].conn = store[t].conn
  BY DEF StoreRefused, WritersInv, WritersTypeOK, StoreRecord
<1>11. \A t \in Stores : ~ (dbPath # 0 /\ ProcessOf(t) = p /\ store[t].conn = dbPath)
  <2> SUFFICES ASSUME NEW t \in Stores, dbPath # 0, ProcessOf(t) = p, store[t].conn = dbPath PROVE FALSE
    OBVIOUS
  <2>1. store[t] \in StoreRecord /\ StoreStands(t)
    BY DEF WritersInv, WritersTypeOK
  <2>2. store[t].phase = "open" /\ store[t].writer = dbPath
    BY <2>1 DEF StoreStands
  <2>3. dbPath \in LockInode /\ dbPath \in LocksOf(t)
    BY <2>1, <2>2 DEF StoreRecord, LockInode, LocksOf
  <2>4. QED BY <1>1, <2>3 DEF WritersInv, OwnedIsHeld
<1>12. refused = [t \in Stores |-> refused[t]]
  BY DEF StoreRefused, WritersInv, WritersTypeOK
<1> HIDE DEF refused
<1>13. store' = [t \in Stores |-> refused[t]]
  BY <1>9, <1>10, <1>11 DEF Closes
<1>14. store' = StoreRefused(s)
  BY <1>12, <1>13 DEF refused
<1> HIDE DEF r
<1>15. QED BY <1>1, <1>3, <1>4, <1>5, <1>8, <1>14, RefusalStep

\* What guard_database_file leaves at the path.
LEMMA GuardedPath ==
  ASSUME WritersTypeOK, GuardDatabaseFile
  PROVE  dbPath' \in LockInode /\ inodes' \in 0 .. MaxInodes
BY WritersAssumption DEF WritersTypeOK, GuardDatabaseFile, LockInode

\* AdmitWriter on the inode the store has an entry for already.
LEMMA AdmitOwnStep ==
  ASSUME WritersInv, NEW s \in Stores, GuardDatabaseFile,
         store[s].phase = "empty", store[s].writer = dbPath',
         store' = [store EXCEPT ![s] = [@ EXCEPT !.phase = "admitted", !.id = dbPath']],
         UNCHANGED <<registry, election, ofd>>
  PROVE  WritersInv'
<1> DEFINE r == [store[s] EXCEPT !.phase = "admitted", !.id = dbPath']
<1> USE StoresProcess DEF WritersInv
<1>a. store[s] \in StoreRecord /\ StoreStands(s) /\ WritersTypeOK
  BY DEF WritersTypeOK
<1>1. dbPath' \in LockInode /\ inodes' \in 0 .. MaxInodes /\ dbPath' \in 0 .. MaxInodes
  BY <1>a, GuardedPath, WritersAssumption DEF LockInode
<1>2. r \in StoreRecord
  BY <1>a, <1>1 DEF StoreRecord, Phases
<1>3. store'[s] = r /\ store' \in [Stores -> StoreRecord] /\ \A t \in Stores \ {s} : store'[t] = store[t]
  BY <1>a, <1>2, StoreTyped
<1>4. /\ store'[s].phase = "admitted" /\ store'[s].id = dbPath' /\ store'[s].writer = dbPath'
      /\ store'[s].conn = store[s].conn /\ store'[s].kept = store[s].kept
  BY <1>a, <1>3 DEF StoreRecord
<1>5. StoreStands(s)' /\ LocksOf(s)' = LocksOf(s)
  BY <1>a, <1>1, <1>4 DEF StoreStands, LocksOf, LockInode
<1>6. WritersTypeOK'
  BY <1>1, <1>3 DEF WritersTypeOK
<1>7. (\A t \in Stores : StoreStands(t))' /\ \A t \in Stores : LocksOf(t)' = LocksOf(t)
  BY <1>3, <1>5 DEF StoreStands, LocksOf
<1>8. OwnedIsHeld' /\ OwnedByOne'
  BY <1>7 DEF OwnedIsHeld, OwnedByOne
<1>9. \A t \in Stores : store'[t].phase = "placing" => store[t].phase = "placing"
  BY <1>3, <1>4
<1>10. OnePlaces' /\ PlacingHasRoom' /\ ParkedBounded'
  BY <1>9 DEF OnePlaces, PlacingHasRoom, Saturated, Parked, ParkedBounded
<1>11. ElectionOutlivesStore'
  BY <1>3, <1>a DEF ElectionOutlivesStore, Stores
<1>12. QED BY <1>6, <1>7, <1>8, <1>10, <1>11

\* AdmitWriter of another inode: the store takes the mutex of its registry.
LEMMA AdmitPlacingStep ==
  ASSUME WritersInv, NEW s \in Stores, GuardDatabaseFile,
         store[s].phase \in {"none", "empty"}, s[2] = "owner" => election = ProcessOf(s),
         ~ registry[ProcessOf(s)].guard, ~ Saturated(ProcessOf(s)),
         store' = [store EXCEPT ![s] = [@ EXCEPT !.phase = "placing", !.id = dbPath']],
         registry' = [registry EXCEPT ![ProcessOf(s)] = [@ EXCEPT !.guard = TRUE]],
         UNCHANGED <<election, ofd>>
  PROVE  WritersInv'
<1> DEFINE p == ProcessOf(s)
           r == [store[s] EXCEPT !.phase = "placing", !.id = dbPath']
           q == [registry[p] EXCEPT !.guard = TRUE]
<1> USE StoresProcess DEF WritersInv
<1>a. /\ store[s] \in StoreRecord /\ StoreStands(s) /\ WritersTypeOK
      /\ p \in Process /\ registry[p] \in RegistryRecord
  BY DEF WritersTypeOK
<1>1. dbPath' \in LockInode /\ inodes' \in 0 .. MaxInodes /\ dbPath' \in 0 .. MaxInodes
  BY <1>a, GuardedPath, WritersAssumption DEF LockInode
<1>2. r \in StoreRecord
  BY <1>a, <1>1 DEF StoreRecord, Phases
<1>3. store'[s] = r /\ store' \in [Stores -> StoreRecord] /\ \A t \in Stores \ {s} : store'[t] = store[t]
  BY <1>a, <1>2, StoreTyped
<1>4. /\ store'[s].phase = "placing" /\ store'[s].id = dbPath' /\ store'[s].writer = store[s].writer
      /\ store'[s].conn = store[s].conn /\ store'[s].kept = store[s].kept
  BY <1>a, <1>3 DEF StoreRecord
<1>5. StoreStands(s)' /\ LocksOf(s)' = LocksOf(s)
  BY <1>a, <1>1, <1>4 DEF StoreStands, LocksOf, LockInode
<1>6. q \in RegistryRecord /\ q.guard /\ q.held = registry[p].held
      /\ q.parked = registry[p].parked /\ q.unidentified = registry[p].unidentified
  BY <1>a DEF RegistryRecord
<1>7. /\ registry' \in [Process -> RegistryRecord] /\ registry'[p] = q
      /\ \A o \in Process \ {p} : registry'[o] = registry[o]
  BY <1>a, <1>6 DEF WritersTypeOK
<1>8. \A o \in Process : /\ registry'[o].held = registry[o].held
                         /\ registry'[o].parked = registry[o].parked
                         /\ registry'[o].unidentified = registry[o].unidentified
  BY <1>6, <1>7
<1>9. \A o \in Process : Parked(o)' = Parked(o) /\ Saturated(o)' = Saturated(o)
  BY <1>8 DEF Parked, Saturated
<1> HIDE DEF r, q
<1>10. WritersTypeOK'
  BY <1>1, <1>3, <1>7 DEF WritersTypeOK
<1>11. (\A t \in Stores : StoreStands(t))' /\ \A t \in Stores : LocksOf(t)' = LocksOf(t)
  BY <1>3, <1>5 DEF StoreStands, LocksOf
<1>12. OwnedIsHeld'
  BY <1>8, <1>11 DEF OwnedIsHeld
<1>13. OwnedByOne'
  BY <1>11 DEF OwnedByOne
<1>14. \A t \in Stores \ {s} : store'[t].phase = "placing" => store[t].phase = "placing" /\ ProcessOf(t) # p
  BY <1>3 DEF OnePlaces
<1>15. OnePlaces'
  BY <1>6, <1>7, <1>14 DEF OnePlaces
<1>16. PlacingHasRoom'
  BY <1>9, <1>14 DEF PlacingHasRoom
<1>17. ParkedBounded'
  BY <1>8, <1>9 DEF ParkedBounded
<1>18. ElectionOutlivesStore'
  BY <1>3 DEF ElectionOutlivesStore, Stores, ProcessOf
<1>19. QED BY <1>10, <1>11, <1>12, <1>13, <1>15, <1>16, <1>17, <1>18

\* AdmitWriter.
LEMMA AdmitWriterStep ==
  ASSUME WritersInv, NEW s \in Stores, AdmitWriter(s)
  PROVE  WritersInv'
<1>1. CASE /\ store[s].phase = "empty" /\ store[s].writer = dbPath'
           /\ store' = [store EXCEPT ![s] = [@ EXCEPT !.phase = "admitted", !.id = dbPath']]
           /\ UNCHANGED registry
  BY <1>1, AdmitOwnStep DEF AdmitWriter
<1>2. CASE /\ dbPath' \notin registry[ProcessOf(s)].held
           /\ store' = [store EXCEPT ![s] = [@ EXCEPT !.phase = "placing", !.id = dbPath']]
           /\ registry' = [registry EXCEPT ![ProcessOf(s)] = [@ EXCEPT !.guard = TRUE]]
  BY <1>2, AdmitPlacingStep DEF AdmitWriter
<1>3. QED BY <1>1, <1>2 DEF AdmitWriter

\* PlaceWriter: the lock is free, so no store stands for the inode yet.
LEMMA PlaceWriterStep ==
  ASSUME WritersInv, NEW s \in Stores, PlaceWriter(s)
  PROVE  WritersInv'
<1> DEFINE p == ProcessOf(s)
           r == [store[s] EXCEPT !.phase = "admitted"]
           q == [registry[p] EXCEPT !.guard = FALSE, !.held = registry[p].held \union {dbPath}]
<1> USE StoresProcess DEF WritersInv
<1>a. /\ store[s] \in StoreRecord /\ StoreStands(s) /\ WritersTypeOK
      /\ p \in Process /\ registry[p] \in RegistryRecord
  BY DEF WritersTypeOK
<1>b. /\ store[s].phase = "placing" /\ dbPath = store[s].id /\ ofd[dbPath] = "free"
      /\ ofd' = [ofd EXCEPT ![dbPath] = p] /\ UNCHANGED <<dbPath, inodes, election>>
  BY DEF PlaceWriter
<1>1. dbPath \in LockInode
  BY <1>a, <1>b DEF StoreStands, StoreRecord, LockInode
<1>2. r \in StoreRecord /\ store' = [store EXCEPT ![s] = r]
  BY <1>a DEF StoreRecord, Phases, PlaceWriter
<1>3. store'[s] = r /\ store' \in [Stores -> StoreRecord] /\ \A t \in Stores \ {s} : store'[t] = store[t]
  BY <1>a, <1>2, StoreTyped
<1>4. /\ store'[s].phase = "admitted" /\ store'[s].id = dbPath /\ store'[s].writer = store[s].writer
      /\ store'[s].conn = store[s].conn /\ store'[s].kept = store[s].kept
  BY <1>a, <1>b, <1>3 DEF StoreRecord
<1>5. StoreStands(s)' /\ LocksOf(s)' = LocksOf(s) \cup {dbPath}
  BY <1>a, <1>b, <1>1, <1>4 DEF StoreStands, LocksOf, LockInode
<1>6. q \in RegistryRecord /\ ~ q.guard /\ q.held = registry[p].held \cup {dbPath}
      /\ q.parked = registry[p].parked /\ q.unidentified = registry[p].unidentified
  BY <1>a, <1>1 DEF RegistryRecord
<1>7. /\ registry' \in [Process -> RegistryRecord] /\ registry'[p] = q
      /\ \A o \in Process \ {p} : registry'[o] = registry[o]
  BY <1>a, <1>6 DEF WritersTypeOK, PlaceWriter
<1>8. \A o \in Process : /\ registry[o].held \subseteq registry'[o].held
                         /\ registry'[o].parked = registry[o].parked
                         /\ registry'[o].unidentified = registry[o].unidentified
  BY <1>6, <1>7
<1>9. \A o \in Process : Parked(o)' = Parked(o) /\ Saturated(o)' = Saturated(o)
  BY <1>8 DEF Parked, Saturated
<1>10. dbPath \in registry'[p].held
  BY <1>6, <1>7
<1>11. /\ ofd' \in [LockInode -> Process \cup {"free", "child"}] /\ ofd'[dbPath] = p
       /\ \A j \in LockInode \ {dbPath} : ofd'[j] = ofd[j]
  BY <1>a, <1>b, <1>1 DEF WritersTypeOK
<1>12. \A t \in Stores : dbPath \notin LocksOf(t)
  BY <1>b, <1>1, WritersAssumption DEF OwnedIsHeld
<1> HIDE DEF r, q
<1>13. WritersTypeOK'
  BY <1>b, <1>3, <1>7, <1>11 DEF WritersTypeOK
<1>14. (\A t \in Stores : StoreStands(t))' /\ \A t \in Stores \ {s} : LocksOf(t)' = LocksOf(t)
  BY <1>3, <1>5 DEF StoreStands, LocksOf
<1>15. OwnedIsHeld'
  <2> SUFFICES ASSUME NEW t \in Stores, NEW j \in LockInode, j \in LocksOf(t)'
               PROVE  j \in registry'[ProcessOf(t)].held /\ ofd'[j] = ProcessOf(t)
    BY DEF OwnedIsHeld
  <2>1. CASE j = dbPath
    BY <2>1, <1>10, <1>11, <1>12, <1>14
  <2>2. CASE j # dbPath
    <3>1. j \in LocksOf(t)
      BY <2>2, <1>5, <1>14
    <3>2. j \in registry[ProcessOf(t)].held /\ ofd[j] = ProcessOf(t)
      BY <3>1 DEF OwnedIsHeld
    <3>3. QED BY <2>2, <3>2, <1>8, <1>11
  <2>3. QED BY <2>1, <2>2
<1>16. OwnedByOne'
  BY <1>5, <1>12, <1>14 DEF OwnedByOne
<1>17. \A t \in Stores : store'[t].phase = "placing" => store[t].phase = "placing" /\ ProcessOf(t) # p
  BY <1>b, <1>3, <1>4 DEF OnePlaces
<1>18. OnePlaces'
  BY <1>7, <1>17 DEF OnePlaces
<1>19. PlacingHasRoom'
  BY <1>9, <1>17 DEF PlacingHasRoom
<1>20. ParkedBounded'
  BY <1>8, <1>9 DEF ParkedBounded
<1>21. ElectionOutlivesStore'
  BY <1>b, <1>3 DEF ElectionOutlivesStore, Stores
<1>22. QED BY <1>13, <1>14, <1>15, <1>16, <1>18, <1>19, <1>20, <1>21

\* ElectLock and DropElection: whoever has the election, an owner's store outlives none.
LEMMA ElectionStep ==
  ASSUME WritersInv, NEW p \in Process, ElectLock(p) \/ DropElection(p)
  PROVE  WritersInv'
<1> USE DEF WritersInv
<1>1. UNCHANGED <<dbPath, inodes, ofd, registry, store>>
  BY DEF ElectLock, DropElection
<1>2. WritersTypeOK'
  BY <1>1 DEF WritersTypeOK, ElectLock, DropElection, LocksDropped
<1>3. (\A t \in Stores : StoreStands(t))' /\ OwnedIsHeld' /\ OwnedByOne' /\ OnePlaces'
  BY <1>1 DEF StoreStands, OwnedIsHeld, OwnedByOne, LocksOf, OnePlaces
<1>4. PlacingHasRoom' /\ ParkedBounded'
  BY <1>1 DEF PlacingHasRoom, ParkedBounded, Saturated, Parked
<1>5. ElectionOutlivesStore'
  BY <1>1, WritersAssumption DEF ElectionOutlivesStore, ElectLock, DropElection
<1>6. QED BY <1>2, <1>3, <1>4, <1>5

\* ProcessDies: nothing stands for an inode in its name any more.
LEMMA ProcessDiesStep ==
  ASSUME WritersInv, NEW p \in Process, ProcessDies(p)
  PROVE  WritersInv'
<1> USE StoresProcess DEF WritersInv
<1>1. EmptyRegistry \in RegistryRecord /\ NoStore \in StoreRecord
  BY WritersAssumption DEF EmptyRegistry, RegistryRecord, NoStore, StoreRecord, Phases
<1>2. /\ registry' \in [Process -> RegistryRecord] /\ registry'[p] = EmptyRegistry
      /\ \A o \in Process \ {p} : registry'[o] = registry[o]
  BY <1>1 DEF ProcessDies, WritersTypeOK
<1>3. store' \in [Stores -> StoreRecord]
  BY <1>1 DEF ProcessDies, WritersTypeOK
<1>4. \A t \in Stores : store'[t] = IF ProcessOf(t) = p THEN NoStore ELSE store[t]
  BY DEF ProcessDies
<1>5. /\ ofd' \in [LockInode -> Process \cup {"free", "child"}]
      /\ \A j \in LockInode : ofd[j] # p => ofd'[j] = ofd[j]
  BY DEF ProcessDies, WritersTypeOK
<1>6. WritersTypeOK'
  BY <1>2, <1>3, <1>5 DEF WritersTypeOK, ProcessDies
<1>7. \A t \in Stores : StoreStands(t)' /\ LocksOf(t)' \subseteq LocksOf(t) /\ (ProcessOf(t) = p => LocksOf(t)' = {})
  BY <1>4 DEF StoreStands, LocksOf, NoStore
<1>8. OwnedIsHeld'
  <2> SUFFICES ASSUME NEW t \in Stores, NEW j \in LockInode, j \in LocksOf(t)'
               PROVE  j \in registry'[ProcessOf(t)].held /\ ofd'[j] = ProcessOf(t)
    BY DEF OwnedIsHeld
  <2>1. ProcessOf(t) # p /\ j \in LocksOf(t)
    BY <1>7
  <2>2. j \in registry[ProcessOf(t)].held /\ ofd[j] = ProcessOf(t)
    BY <2>1 DEF OwnedIsHeld
  <2>3. QED BY <2>1, <2>2, <1>2, <1>5
<1>9. OwnedByOne'
  BY <1>7 DEF OwnedByOne
<1>10. \A t \in Stores : store'[t].phase = "placing" => store[t].phase = "placing" /\ ProcessOf(t) # p
  BY <1>4 DEF NoStore
<1>11. OnePlaces'
  BY <1>2, <1>10 DEF OnePlaces
<1>12. PlacingHasRoom'
  BY <1>2, <1>10 DEF PlacingHasRoom, Saturated, Parked
<1>13. ParkedBounded'
  <2>1. Parked(p)' = 0
    <3>1. \A i \in 1 .. MaxInodes : registry'[p].parked[i] = 0
      BY <1>2 DEF EmptyRegistry, LockInode
    <3>2. QED BY <3>1, SumZero, WritersAssumption DEF Parked
  <2>2. registry'[p].unidentified = 0
    BY <1>2 DEF EmptyRegistry
  <2>3. QED BY <2>1, <2>2, <1>2, WritersAssumption DEF ParkedBounded, Parked
<1>14. ElectionOutlivesStore'
  BY <1>4 DEF ElectionOutlivesStore, Stores, ProcessOf, NoStore, ProcessDies
<1>15. QED BY <1>6, <1>7, <1>8, <1>9, <1>11, <1>12, <1>13, <1>14

\* ChildExits and Replace: what others do to the locks and to the path.
LEMMA OutsideStep ==
  ASSUME WritersInv, ChildExits \/ Replace
  PROVE  WritersInv'
<1> USE DEF WritersInv
<1>1. UNCHANGED <<registry, store>>
  BY DEF ChildExits, Replace
<1>2. WritersTypeOK'
  BY <1>1, WritersAssumption DEF WritersTypeOK, ChildExits, Replace
<1>3. (\A t \in Stores : StoreStands(t))' /\ OwnedByOne' /\ OnePlaces'
  BY <1>1 DEF StoreStands, OwnedByOne, LocksOf, OnePlaces
<1>4. \A j \in LockInode : ofd[j] \in Process => ofd'[j] = ofd[j]
  BY WritersAssumption DEF ChildExits, Replace, WritersTypeOK
<1>5. OwnedIsHeld'
  BY <1>1, <1>4, StoresProcess DEF OwnedIsHeld, LocksOf
<1>6. PlacingHasRoom' /\ ParkedBounded'
  BY <1>1 DEF PlacingHasRoom, ParkedBounded, Saturated, Parked
<1>7. \A p \in Process : election = p => election' = p
  BY WritersAssumption DEF ChildExits, Replace
<1>8. ElectionOutlivesStore'
  BY <1>1, <1>7 DEF ElectionOutlivesStore
<1>9. QED BY <1>2, <1>3, <1>5, <1>6, <1>8

\* Every step of a store, a process or the world keeps the invariant.
LEMMA WritersInvNext == WritersInv /\ [WritersNext]_writersVars => WritersInv'
<1> SUFFICES ASSUME WritersInv, [WritersNext]_writersVars PROVE WritersInv'
  OBVIOUS
<1>1. CASE \E p \in Process : ElectLock(p) \/ DropElection(p) \/ ProcessDies(p)
  BY <1>1, ElectionStep, ProcessDiesStep
<1>2. ASSUME NEW s \in Stores,
             \/ AdmitWriter(s) \/ PlacePark(s) \/ PlaceUnidentified(s)
             \/ PlaceRefused(s) \/ PlaceWriter(s) \/ SettleAdmitted(s)
             \/ SettleFails(s) \/ CloseConnection(s) \/ DropStore(s)
      PROVE  WritersInv'
  BY <1>2, AdmitWriterStep, PlaceParkStep, PlaceUnidentifiedStep, PlaceRefusedStep, PlaceWriterStep,
     SettleAdmittedStep, SettleFailsStep, CloseConnectionStep, DropStoreStep
<1>3. CASE ChildExits \/ Replace
  BY <1>3, OutsideStep
<1>4. CASE UNCHANGED writersVars
  BY <1>4 DEF writersVars, WritersInv, WritersTypeOK, StoreStands, OwnedIsHeld, OwnedByOne, LocksOf,
              OnePlaces, PlacingHasRoom, Saturated, Parked, ParkedBounded, ElectionOutlivesStore
<1>5. QED BY <1>1, <1>2, <1>3, <1>4 DEF WritersNext

\* The invariant answers for writer admission: an inode two stores had as their writer
\* would be owned by both.
LEMMA WritersInvHolds == WritersInv => OneWriterHolds
<1> SUFFICES ASSUME WritersInv PROVE OneWriterHolds
  OBVIOUS
<1>1. \A s \in Stores : store[s].writer # 0 => store[s].writer \in LockInode /\ store[s].writer \in LocksOf(s)
  BY DEF WritersInv, WritersTypeOK, StoreRecord, LockInode, LocksOf
<1>2. OneWriter
  <2>1. \A s \in Stores : store[s].writer # 0 => /\ store[s].writer \in registry[ProcessOf(s)].held
                                                 /\ ofd[store[s].writer] = ProcessOf(s)
    BY <1>1 DEF WritersInv, OwnedIsHeld
  <2>2. \A s, t \in Stores : store[s].writer # 0 /\ store[s].writer = store[t].writer => s = t
    BY <1>1 DEF WritersInv, OwnedByOne
  <2>3. QED BY <2>1, <2>2 DEF OneWriter
<1>3. SqliteLocksKept
  BY DEF WritersInv, StoreStands, SqliteLocksKept
<1>4. QED BY <1>2, <1>3 DEF OneWriterHolds, WritersInv

\* Whatever processes open, reopen, close, fork and die, and however the database is replaced
\* under them: a file has one writer, no admission drops the record locks of a connection,
\* the descriptors that may not close stay below their cap, and an owner's store never
\* outlives its election.
THEOREM WritersSafe == WritersSpec => []OneWriterHolds
<1>1. WritersInit => WritersInv
  BY WritersInvInit
<1>2. WritersInv /\ [WritersNext]_writersVars => WritersInv'
  BY WritersInvNext
<1>3. WritersInv => OneWriterHolds
  BY WritersInvHolds
<1>4. QED BY <1>1, <1>2, <1>3, PTL DEF WritersSpec

-----------------------------------------------------------------------------
(***************************************************************************)
(* The index of a project.  A generation's rows were each read at some     *)
(* moment of its run, and a narrowed run carries the rows of an earlier    *)
(* one; the invariant says, for the generation served, for the one a run   *)
(* will carry from and for what the run has read so far, that each row is  *)
(* of what is on disk or the change is held by the watch or dropped.       *)
(***************************************************************************)
RowRec == [version : Int, among : SUBSET File]
RowMap == UNION {[S -> RowRec] : S \in SUBSET File}
GenState == {"interrupted", "fresh", "superseded", "partial_coverage", "isolated_run",
             "source_changed", "watcher_missed"}
GenRec == [state : GenState, rows : RowMap, docs : SUBSET File]
RunRec == [at : {"enumerate", "read"}, gen : Nat, changed : SUBSET File, moved : BOOLEAN,
           docs : SUBSET File, full : BOOLEAN, found : SUBSET File, got : RowMap]

IndexTypeOK ==
    /\ disk \in [File -> Int]
    /\ batch \in [paths : SUBSET File, missed : BOOLEAN, moved : BOOLEAN]
    /\ watching \in BOOLEAN
    /\ DOMAIN generations \subseteq 1 .. MaxGeneration
    /\ \A g \in DOMAIN generations : generations[g] \in GenRec
    /\ run = NoRun \/ run \in RunRec
    /\ discarded \subseteq File

\* A change of f that no row shows: the watch holds it, or the code dropped it.
CoveredFile(f) == f \in batch.paths \cup discarded \/ batch.missed \/ batch.moved
\* The same of a file that joined or left the file set.
CoveredSet == batch.missed \/ batch.moved \/ discarded = File

\* The row of f is of what is on disk, and resolved among these files.
RowStands(rows, f, version, among) ==
    f \in DOMAIN rows /\ rows[f] = [version |-> version, among |-> among]

\* Between two runs: the newest generation, and when it is served as fresh its file set.
NewestStands ==
    run.at = "none" /\ DOMAIN generations # {} =>
        LET gen == generations[Newest(generations)]
        IN  /\ \A f \in gen.docs : RowStands(gen.rows, f, disk[f], gen.docs) \/ CoveredFile(f)
            /\ watching /\ gen.state = "fresh" => gen.docs = Present \/ CoveredSet

\* A run's own generation is a stub until it is sealed, and nothing is read before the
\* enumeration.
StubStands ==
    run.at # "none" =>
        /\ run.at = "enumerate" => DOMAIN run.got = {}
        /\ run.gen \in DOMAIN generations /\ \A g \in DOMAIN generations : g <= run.gen
        /\ generations[run.gen].state # "fresh" /\ generations[run.gen].docs = {}

\* Before the enumeration: the generation a narrowed cut would carry from.
BaseStands ==
    run.at = "enumerate" /\ ~ run.moved /\ run.docs # {} /\ run.changed # {} =>
        /\ DOMAIN generations # {run.gen}
        /\ LET base == generations[Previous(generations, run.gen)]
           IN  /\ base.docs = run.docs
               /\ \A f \in base.docs :
                     RowStands(base.rows, f, disk[f], base.docs) \/ CoveredFile(f) \/ f \in run.changed

\* After it: what was read, the file set, and the rows a narrowed cut carries.
ReadStands ==
    run.at = "read" =>
        /\ DOMAIN run.got \subseteq Wanted
        /\ \A f \in DOMAIN run.got : RowStands(run.got, f, disk[f], run.found) \/ CoveredFile(f)
        /\ watching => run.found = Present \/ CoveredSet
        /\ ~ run.full =>
             /\ DOMAIN generations # {run.gen}
             /\ LET base == generations[Previous(generations, run.gen)]
                IN  \A f \in run.found \ run.changed :
                        RowStands(base.rows, f, disk[f], run.found) \/ CoveredFile(f)

IndexInv == IndexTypeOK /\ NewestStands /\ StubStands /\ BaseStands /\ ReadStands

\* The newest of some generations is one of them and the greatest.
LEMMA NewestIs ==
  ASSUME NEW gs, DOMAIN gs \subseteq 1 .. MaxGeneration, DOMAIN gs # {}
  PROVE  Newest(gs) \in DOMAIN gs /\ \A h \in DOMAIN gs : h <= Newest(gs)
<1>1. MaxGeneration \in Nat
  BY IndexAssumption
<1>2. \E g \in DOMAIN gs : \A h \in DOMAIN gs : h <= g
  BY <1>1, GreatestInInterval
<1>3. QED BY <1>2, Zenon DEF Newest

\* Only the numbers matter, so a generation no other exceeds is the newest.
LEMMA NewestOf ==
  ASSUME NEW gs, DOMAIN gs \subseteq 1 .. MaxGeneration,
         NEW g \in DOMAIN gs, \A h \in DOMAIN gs : h <= g
  PROVE  Newest(gs) = g
<1>1. Newest(gs) \in DOMAIN gs /\ \A h \in DOMAIN gs : h <= Newest(gs)
  BY NewestIs
<1>2. Newest(gs) <= g /\ g <= Newest(gs) /\ g \in Nat /\ Newest(gs) \in Nat
  BY <1>1
<1>3. QED BY <1>2

\* The generation before the newest is the newest of the others.
LEMMA PreviousIs ==
  ASSUME NEW gs, NEW hs, NEW gen, DOMAIN hs = DOMAIN gs \ {gen},
         DOMAIN gs \subseteq 1 .. MaxGeneration, DOMAIN hs # {}
  PROVE  /\ Previous(gs, gen) = Newest(hs)
         /\ Previous(gs, gen) \in DOMAIN gs \ {gen}
<1> DEFINE old == [g \in DOMAIN gs \ {gen} |-> gs[g]]
<1>1. DOMAIN old = DOMAIN hs /\ DOMAIN hs \subseteq 1 .. MaxGeneration
  OBVIOUS
<1>2. Newest(hs) \in DOMAIN hs /\ \A h \in DOMAIN hs : h <= Newest(hs)
  BY <1>1, NewestIs
<1>3. Newest(old) = Newest(hs)
  <2> HIDE DEF old
  <2>1. Newest(hs) \in DOMAIN old /\ \A h \in DOMAIN old : h <= Newest(hs)
    BY <1>1, <1>2
  <2>2. DOMAIN old \subseteq 1 .. MaxGeneration
    BY <1>1
  <2>3. QED BY <2>1, <2>2, NewestOf
<1>4. QED BY <1>2, <1>3 DEF Previous

\* There is no index before the first project.init.
LEMMA IndexInvInit == IndexInit => IndexInv
<1> SUFFICES ASSUME IndexInit PROVE IndexInv
  OBVIOUS
<1>1. run.at = "none"
  BY DEF IndexInit, NoRun
<1>2. DOMAIN generations = {}
  BY DEF IndexInit
<1>3. IndexTypeOK
  <2>1. disk \in [File -> Int]
    BY DEF IndexInit
  <2>2. QED BY <2>1, <1>2 DEF IndexTypeOK, IndexInit, NoBatch
<1>4. QED BY <1>1, <1>2, <1>3 DEF IndexInv, NewestStands, StubStands, BaseStands, ReadStands

\* Whatever drops or records a change keeps the invariant: rows and runs stay, a
\* generation may only be marked stale, and every file that was covered still is.
LEMMA IndexDrifts ==
  ASSUME IndexInv, IndexTypeOK', run' = run, watching' = watching,
         DOMAIN generations' = DOMAIN generations,
         \A g \in DOMAIN generations :
            /\ generations'[g].rows = generations[g].rows
            /\ generations'[g].docs = generations[g].docs
            /\ generations'[g].state = "fresh" => generations[g].state = "fresh",
         \A f \in File : CoveredFile(f) => CoveredFile(f)',
         \A f \in File : disk'[f] = disk[f] \/ CoveredFile(f)',
         CoveredSet => CoveredSet',
         watching => Present' = Present \/ CoveredSet'
  PROVE  IndexInv'
<1> USE DEF IndexInv
<1>a. DOMAIN generations \subseteq 1 .. MaxGeneration
      /\ \A g \in DOMAIN generations : generations[g] \in GenRec
  BY DEF IndexTypeOK
<1>r. \A rows, among : \A f \in File :
        RowStands(rows, f, disk[f], among) \/ CoveredFile(f) => RowStands(rows, f, disk'[f], among) \/ CoveredFile(f)'
  BY DEF RowStands
<1>1. NewestStands'
  <2>1. SUFFICES ASSUME run.at = "none", DOMAIN generations # {}
                 PROVE  LET gen == generations'[Newest(generations)']
                        IN  /\ \A f \in gen.docs : RowStands(gen.rows, f, disk'[f], gen.docs) \/ CoveredFile(f)'
                            /\ watching /\ gen.state = "fresh" => gen.docs = Present' \/ CoveredSet'
    BY DEF NewestStands
  <2> DEFINE n == Newest(generations)
  <2>2. n \in DOMAIN generations /\ \A h \in DOMAIN generations : h <= n
    BY <1>a, <2>1, NewestIs
  <2>3. Newest(generations)' = n
    <3>1. DOMAIN generations' \subseteq 1 .. MaxGeneration /\ n \in DOMAIN generations'
          /\ \A h \in DOMAIN generations' : h <= n
      BY <1>a, <2>2
    <3>2. QED BY <3>1, NewestOf
  <2> HIDE DEF n
  <2>4. \A f \in generations[n].docs :
           RowStands(generations[n].rows, f, disk[f], generations[n].docs) \/ CoveredFile(f)
    BY <2>1 DEF NewestStands, n
  <2>5. watching /\ generations[n].state = "fresh" => generations[n].docs = Present \/ CoveredSet
    BY <2>1 DEF NewestStands, n
  <2>6. generations[n].docs \subseteq File
    BY <1>a, <2>2 DEF GenRec
  <2>7. /\ generations'[n].rows = generations[n].rows
        /\ generations'[n].docs = generations[n].docs
        /\ generations'[n].state = "fresh" => generations[n].state = "fresh"
    BY <2>2
  <2>8. QED BY <2>3, <2>4, <2>5, <2>6, <2>7, <1>r
<1>2. StubStands'
  BY DEF StubStands
<1>p. ASSUME run.gen \in DOMAIN generations, DOMAIN generations # {run.gen}
      PROVE  /\ Previous(generations', run.gen) = Previous(generations, run.gen)
             /\ Previous(generations, run.gen) \in DOMAIN generations
  <2> DEFINE old == [g \in DOMAIN generations \ {run.gen} |-> generations[g]]
  <2>1. DOMAIN old = DOMAIN generations \ {run.gen} /\ DOMAIN old # {}
    BY <1>p
  <2> HIDE DEF old
  <2>2. Previous(generations, run.gen) = Newest(old) /\ Previous(generations, run.gen) \in DOMAIN generations
    BY <2>1, <1>a, PreviousIs
  <2>3. Previous(generations', run.gen) = Newest(old)
    <3>1. DOMAIN old = DOMAIN generations' \ {run.gen} /\ DOMAIN generations' \subseteq 1 .. MaxGeneration
      BY <2>1, <1>a
    <3>2. QED BY <2>1, <3>1, PreviousIs
  <2>4. QED BY <2>2, <2>3
<1>3. BaseStands'
  <2>1. SUFFICES ASSUME run.at = "enumerate", ~ run.moved, run.docs # {}, run.changed # {}
                 PROVE  BaseStands'
    BY DEF BaseStands
  <2> DEFINE p == Previous(generations, run.gen)
  <2>2. run.gen \in DOMAIN generations
    BY <2>1 DEF StubStands
  <2>3. /\ DOMAIN generations # {run.gen}
        /\ generations[p].docs = run.docs
        /\ \A f \in generations[p].docs :
              RowStands(generations[p].rows, f, disk[f], generations[p].docs) \/ CoveredFile(f) \/ f \in run.changed
    BY <2>1 DEF BaseStands
  <2>4. p \in DOMAIN generations /\ Previous(generations', run.gen) = p
    BY <2>2, <2>3, <1>p
  <2>5. generations[p].docs \subseteq File
    BY <1>a, <2>4 DEF GenRec
  <2> HIDE DEF p
  <2>6. \A f \in generations[p].docs :
              RowStands(generations[p].rows, f, disk'[f], generations[p].docs) \/ CoveredFile(f)' \/ f \in run.changed
    <3>1. \A f \in generations[p].docs : f \in File
      BY <2>5
    <3>2. generations'[p].rows = generations[p].rows /\ generations'[p].docs = generations[p].docs
      BY <2>4
    <3>3. p' = p
      BY <2>4 DEF p
    <3>4. QED BY <3>1, <3>2, <3>3, <2>3, <1>r DEF RowStands
  <2>7. QED BY <2>3, <2>4, <2>6 DEF BaseStands, RowStands
<1>4. ReadStands'
  <2>1. SUFFICES ASSUME run.at = "read" PROVE ReadStands'
    BY DEF ReadStands
  <2>2. run \in RunRec /\ run.gen \in DOMAIN generations
    BY <2>1 DEF StubStands, IndexTypeOK, NoRun
  <2>3. run.found \subseteq File
    BY <2>2 DEF RunRec
  <2>4. DOMAIN run.got \subseteq Wanted /\ Wanted \subseteq File
    BY <2>1, <2>3 DEF ReadStands, Wanted
  <2>5. \A f \in DOMAIN run.got : RowStands(run.got, f, disk'[f], run.found) \/ CoveredFile(f)'
    BY <2>1, <2>4 DEF ReadStands, RowStands
  <2>6. watching => run.found = Present' \/ CoveredSet'
    BY <2>1 DEF ReadStands
  <2>7. ASSUME ~ run.full
        PROVE  /\ DOMAIN generations' # {run.gen}
               /\ \A f \in run.found \ run.changed :
                    RowStands(generations'[Previous(generations', run.gen)].rows, f, disk'[f], run.found)
                    \/ CoveredFile(f)'
    <3> DEFINE p == Previous(generations, run.gen)
    <3>1. /\ DOMAIN generations # {run.gen}
          /\ \A f \in run.found \ run.changed : RowStands(generations[p].rows, f, disk[f], run.found) \/ CoveredFile(f)
      BY <2>1, <2>7 DEF ReadStands
    <3>2. p \in DOMAIN generations /\ Previous(generations', run.gen) = p
      BY <2>2, <3>1, <1>p
    <3> HIDE DEF p
    <3>3. generations'[p].rows = generations[p].rows
      BY <3>2
    <3>4. \A f \in run.found \ run.changed : f \in File
      BY <2>3
    <3>5. \A f \in run.found \ run.changed :
             RowStands(generations[p].rows, f, disk'[f], run.found) \/ CoveredFile(f)'
      BY <3>1, <3>4, <1>r
    <3>6. QED BY <3>1, <3>2, <3>3, <3>5
  <2>8. Wanted' = Wanted
    BY DEF Wanted
  <2>9. QED BY <2>1, <2>4, <2>5, <2>6, <2>7, <2>8 DEF ReadStands
<1>5. QED BY <1>1, <1>2, <1>3, <1>4

\* Rows of some of the files.
LEMMA RowMapIs ==
  /\ \A rows \in RowMap : DOMAIN rows \subseteq File /\ \A f \in DOMAIN rows : rows[f] \in RowRec
  /\ \A S \in SUBSET File : \A rows \in [S -> RowRec] : rows \in RowMap
BY DEF RowMap

\* A batch taken marks the newest generation stale and touches nothing else.
LEMMA MarkedIs ==
  ASSUME IndexTypeOK
  PROVE  /\ DOMAIN MarkedStale = DOMAIN generations
         /\ \A g \in DOMAIN generations :
               /\ MarkedStale[g] \in GenRec
               /\ MarkedStale[g].rows = generations[g].rows
               /\ MarkedStale[g].docs = generations[g].docs
               /\ MarkedStale[g].state = "fresh" => generations[g].state = "fresh"
<1> DEFINE why == IF batch.missed THEN "watcher_missed" ELSE "source_changed"
           marked == [g \in DOMAIN generations |->
                        IF g = Newest(generations) THEN [generations[g] EXCEPT !.state = why]
                        ELSE generations[g]]
<1>1. MarkedStale = generations \/ MarkedStale = marked
  BY DEF MarkedStale
<1>2. \A g \in DOMAIN generations : generations[g] \in GenRec
  BY DEF IndexTypeOK
<1>3. why \in GenState /\ why # "fresh"
  BY DEF GenState
<1> HIDE DEF why
<1>4. ASSUME NEW gen \in GenRec
      PROVE  /\ [gen EXCEPT !.state = why] \in GenRec
             /\ [gen EXCEPT !.state = why].rows = gen.rows
             /\ [gen EXCEPT !.state = why].docs = gen.docs
             /\ [gen EXCEPT !.state = why].state = why
  BY <1>3 DEF GenRec
<1>5. DOMAIN marked = DOMAIN generations
      /\ \A g \in DOMAIN generations :
            marked[g] = generations[g] \/ marked[g] = [generations[g] EXCEPT !.state = why]
  OBVIOUS
<1> HIDE DEF marked
<1>6. CASE MarkedStale = marked
  <2>1. ASSUME NEW g \in DOMAIN generations
        PROVE  /\ marked[g] \in GenRec
               /\ marked[g].rows = generations[g].rows
               /\ marked[g].docs = generations[g].docs
               /\ marked[g].state = "fresh" => generations[g].state = "fresh"
    <3>1. CASE marked[g] = generations[g]
      BY <1>2, <3>1
    <3>2. CASE marked[g] = [generations[g] EXCEPT !.state = why]
      <4>1. generations[g] \in GenRec
        BY <1>2
      <4>2. QED BY <1>3, <1>4, <3>2, <4>1
    <3>3. QED BY <1>5, <3>1, <3>2
  <2>2. QED BY <1>5, <1>6, <2>1
<1>7. CASE MarkedStale = generations
  BY <1>2, <1>7
<1>8. QED BY <1>1, <1>6, <1>7

\* A file changes: the watch records it, or nobody notices.
LEMMA IndexChange ==
  ASSUME IndexInv, NEW f \in File, NEW v \in -1 .. MaxVersion, Change(f, v)
  PROVE  IndexInv'
<1> USE DEF IndexInv
<1>1. /\ disk \in [File -> Int] /\ v \in Int /\ disk' = [disk EXCEPT ![f] = v]
      /\ generations' = generations /\ run' = run /\ watching' = watching
      /\ batch \in [paths : SUBSET File, missed : BOOLEAN, moved : BOOLEAN]
      /\ discarded \subseteq File
  BY IndexAssumption DEF Change, IndexTypeOK
<1> DEFINE fits == f \in batch.paths \/ Cardinality(batch.paths) < WATCH_PATH_CAPACITY
           moves == disk[f] = 0 \/ v = -1
<1>2. watching => /\ discarded' = discarded
                  /\ batch' = [paths |-> IF fits THEN batch.paths \cup {f} ELSE batch.paths,
                               missed |-> batch.missed \/ ~ fits, moved |-> batch.moved \/ moves]
  BY DEF Change, Recorded
<1>3. ~ watching => discarded' = discarded \cup {f} /\ batch' = batch
  BY DEF Change
<1>m. /\ watching => /\ batch'.paths = IF fits THEN batch.paths \cup {f} ELSE batch.paths
                     /\ batch'.missed = (batch.missed \/ ~ fits)
                     /\ batch'.moved = (batch.moved \/ moves)
  BY <1>2
<1>n. watching => /\ batch.paths \subseteq batch'.paths
                  /\ f \in batch'.paths \/ batch'.missed
                  /\ batch.missed => batch'.missed
                  /\ batch.moved \/ moves => batch'.moved
  BY <1>1, <1>m
<1>4. IndexTypeOK'
  <2>1. batch' \in [paths : SUBSET File, missed : BOOLEAN, moved : BOOLEAN] /\ discarded' \subseteq File
    <3> DEFINE paths == IF fits THEN batch.paths \cup {f} ELSE batch.paths
               missed == batch.missed \/ ~ fits
               moved == batch.moved \/ moves
    <3>1. paths \in SUBSET File /\ missed \in BOOLEAN /\ moved \in BOOLEAN
      BY <1>1
    <3>2. watching => batch' = [paths |-> paths, missed |-> missed, moved |-> moved]
      BY <1>2
    <3> HIDE DEF paths, missed, moved
    <3>3. QED BY <1>1, <1>2, <1>3, <3>1, <3>2
  <2>2. QED BY <1>1, <2>1 DEF IndexTypeOK
<1> HIDE DEF fits
<1>5. \A g \in File : CoveredFile(g) => CoveredFile(g)'
  BY <1>1, <1>2, <1>3, <1>n DEF CoveredFile
<1>6. CoveredFile(f)'
  BY <1>1, <1>2, <1>3, <1>n DEF CoveredFile
<1>7. \A g \in File : disk'[g] = disk[g] \/ CoveredFile(g)'
  BY <1>1, <1>6
<1>8. CoveredSet => CoveredSet'
  BY <1>1, <1>2, <1>3, <1>n DEF CoveredSet
<1>9. watching => Present' = Present \/ CoveredSet'
  <2>1. SUFFICES ASSUME watching, ~ moves PROVE Present' = Present
    BY <1>n DEF CoveredSet
  <2>2. disk[f] > 0 /\ v > 0
    BY <2>1, <1>1 DEF Change
  <2>3. QED BY <1>1, <2>2 DEF Present
<1>10. QED BY <1>1, <1>4, <1>5, <1>7, <1>8, <1>9, IndexDrifts

\* The backend drops events: the batch says it missed some.
LEMMA IndexOverflow ==
  ASSUME IndexInv, NEW f \in File, Overflow(f)
  PROVE  IndexInv'
<1> USE DEF IndexInv
<1>1. /\ disk' = [disk EXCEPT ![f] = disk[f] + 1] /\ disk \in [File -> Int]
      /\ generations' = generations /\ run' = run /\ watching' = watching /\ discarded' = discarded
      /\ batch \in [paths : SUBSET File, missed : BOOLEAN, moved : BOOLEAN]
      /\ batch' = [batch EXCEPT !.missed = TRUE]
  BY DEF Overflow, IndexTypeOK
<1>2. batch'.missed /\ batch' \in [paths : SUBSET File, missed : BOOLEAN, moved : BOOLEAN]
  BY <1>1
<1>3. IndexTypeOK'
  BY <1>1, <1>2 DEF IndexTypeOK
<1>4. CoveredSet' /\ \A g \in File : CoveredFile(g)'
  BY <1>2 DEF CoveredSet, CoveredFile
<1>5. QED BY <1>1, <1>3, <1>4, IndexDrifts

\* A batch taken and not used: what it told is dropped, the newest generation stale.
LEMMA IndexDrops ==
  ASSUME IndexInv, generations' = MarkedStale, batch' = NoBatch,
         discarded' = discarded \cup LostAll, UNCHANGED <<disk, watching, run>>
  PROVE  IndexInv'
<1> USE DEF IndexInv
<1>1. /\ batch \in [paths : SUBSET File, missed : BOOLEAN, moved : BOOLEAN]
      /\ discarded \subseteq File
      /\ batch' = [paths |-> {}, missed |-> FALSE, moved |-> FALSE]
      /\ DOMAIN generations \subseteq 1 .. MaxGeneration
  BY DEF IndexTypeOK, NoBatch
<1>2. discarded' \subseteq File /\ discarded \subseteq discarded'
  BY <1>1 DEF LostAll
<1>3. \A g \in File : CoveredFile(g) => g \in discarded'
  BY <1>1 DEF CoveredFile, LostAll
<1>4. CoveredSet => discarded' = File
  BY <1>1 DEF CoveredSet, LostAll
<1>5. IndexTypeOK'
  <2>1. batch' \in [paths : SUBSET File, missed : BOOLEAN, moved : BOOLEAN]
    BY <1>1
  <2>2. DOMAIN generations' \subseteq 1 .. MaxGeneration
        /\ \A g \in DOMAIN generations' : generations'[g] \in GenRec
    BY <1>1, MarkedIs
  <2>3. QED BY <1>2, <2>1, <2>2 DEF IndexTypeOK
<1>6. /\ DOMAIN generations' = DOMAIN generations
      /\ \A g \in DOMAIN generations :
            /\ generations'[g].rows = generations[g].rows
            /\ generations'[g].docs = generations[g].docs
            /\ generations'[g].state = "fresh" => generations[g].state = "fresh"
  BY MarkedIs
<1>7. \A g \in File : CoveredFile(g) => CoveredFile(g)'
  BY <1>3 DEF CoveredFile
<1>8. CoveredSet => CoveredSet'
  BY <1>4 DEF CoveredSet
<1>9. disk' = disk /\ watching' = watching /\ run' = run /\ Present' = Present
  BY DEF Present
<1>10. QED BY <1>5, <1>6, <1>7, <1>8, <1>9, IndexDrifts

\* A run starts: its narrowed cut may carry what the newest generation holds of the
\* other files.
LEMMA IndexReserves ==
  ASSUME IndexInv, run.at = "none", NEW changed \in SUBSET File, NEW moved \in BOOLEAN,
         Reserve(MarkedStale, changed, moved), batch' = NoBatch, UNCHANGED <<disk, watching>>,
         discarded' \subseteq File,
         ~ moved /\ changed # {} => \A f \in File : CoveredFile(f) => f \in discarded' \cup changed
  PROVE  IndexInv'
<1> USE DEF IndexInv
<1> DEFINE gs == MarkedStale
           next == IF DOMAIN gs = {} THEN 1 ELSE Newest(gs) + 1
           docs == IF DOMAIN gs = {} THEN {} ELSE gs[Newest(gs)].docs
<1>1. /\ next <= MaxGeneration
      /\ generations' = [g \in DOMAIN gs \cup {next} |-> IF g = next THEN Stub ELSE gs[g]]
      /\ run' = [at |-> "enumerate", gen |-> next, changed |-> changed, moved |-> moved,
                 docs |-> docs, full |-> FALSE, found |-> {}, got |-> NoRows]
  BY DEF Reserve
<1>2. DOMAIN gs = DOMAIN generations /\ DOMAIN gs \subseteq 1 .. MaxGeneration
      /\ \A g \in DOMAIN gs : /\ gs[g] \in GenRec
                              /\ gs[g].rows = generations[g].rows
                              /\ gs[g].docs = generations[g].docs
  BY MarkedIs DEF IndexTypeOK
<1> HIDE DEF gs
<1>3. DOMAIN gs # {} => Newest(gs) \in DOMAIN gs /\ \A h \in DOMAIN gs : h <= Newest(gs)
  BY <1>2, NewestIs
<1>4. /\ next \in 1 .. MaxGeneration /\ next \notin DOMAIN gs
      /\ \A h \in DOMAIN gs : h <= next
  BY <1>1, <1>2, <1>3, IndexAssumption
<1>5. docs \in SUBSET File
  BY <1>2, <1>3 DEF GenRec
<1>n. NoRows \in RowMap /\ Stub \in GenRec /\ Stub.state # "fresh" /\ Stub.docs = {}
  <2>1. NoRows \in [{} -> RowRec]
    BY DEF NoRows
  <2>2. NoRows \in RowMap
    BY <2>1, RowMapIs
  <2>3. "interrupted" \in GenState /\ "interrupted" # "fresh"
    BY DEF GenState
  <2>4. QED BY <2>2, <2>3 DEF Stub, GenRec
<1> HIDE DEF next, docs
<1>6. IndexTypeOK'
  <2>1. batch' \in [paths : SUBSET File, missed : BOOLEAN, moved : BOOLEAN]
    BY DEF NoBatch
  <2>2. run' \in RunRec
    BY <1>1, <1>4, <1>5, <1>n DEF RunRec
  <2>3. DOMAIN generations' \subseteq 1 .. MaxGeneration
    BY <1>1, <1>2, <1>4
  <2>4. \A g \in DOMAIN generations' : generations'[g] \in GenRec
    BY <1>1, <1>2, <1>n
  <2>5. QED BY <2>1, <2>2, <2>3, <2>4 DEF IndexTypeOK
<1>7. run'.at = "enumerate" /\ run'.gen = next /\ run'.docs = docs /\ run'.changed = changed
      /\ run'.moved = moved
  BY <1>1
<1>8. NewestStands' /\ ReadStands'
  BY <1>7 DEF NewestStands, ReadStands
<1>9. StubStands'
  <2>1. next \in DOMAIN generations' /\ generations'[next] = Stub
    BY <1>1
  <2>2. \A g \in DOMAIN generations' : g <= next
    BY <1>1, <1>4
  <2>3. DOMAIN run'.got = {}
    BY <1>1 DEF NoRows
  <2>4. QED BY <1>7, <1>n, <2>1, <2>2, <2>3 DEF StubStands
<1>10. BaseStands'
  <2>1. SUFFICES ASSUME ~ moved, docs # {}, changed # {} PROVE BaseStands'
    BY <1>7 DEF BaseStands
  <2>2. DOMAIN gs # {} /\ docs = gs[Newest(gs)].docs
    BY <2>1 DEF docs
  <2> DEFINE p == Newest(gs)
  <2>3. p \in DOMAIN gs /\ p # next
    BY <2>2, <1>3, <1>4
  <2>4. Previous(generations', next) = p /\ DOMAIN generations' # {next}
    <3>1. DOMAIN gs = DOMAIN generations' \ {next}
      BY <1>1, <1>4
    <3>2. DOMAIN generations' \subseteq 1 .. MaxGeneration
      BY <1>1, <1>2, <1>4
    <3>3. QED BY <3>1, <3>2, <2>2, PreviousIs
  <2>5. Newest(generations) = p
    <3>1. p \in DOMAIN generations /\ DOMAIN generations \subseteq 1 .. MaxGeneration
          /\ \A h \in DOMAIN generations : h <= p
      BY <1>2, <1>3, <2>2
    <3>2. QED BY <3>1, NewestOf
  <2> HIDE DEF p
  <2>6. \A f \in generations[p].docs :
           RowStands(generations[p].rows, f, disk[f], generations[p].docs) \/ CoveredFile(f)
    BY <2>2, <2>5, <1>2 DEF NewestStands
  <2>7. generations'[p] = gs[p] /\ gs[p].rows = generations[p].rows /\ gs[p].docs = generations[p].docs
    BY <1>1, <1>2, <2>3
  <2>8. docs = generations'[p].docs /\ generations'[p].docs \subseteq File
    BY <2>2, <2>7, <1>5 DEF p
  <2>9. \A f \in generations'[p].docs :
           RowStands(generations'[p].rows, f, disk'[f], generations'[p].docs)
           \/ CoveredFile(f)' \/ f \in changed
    <3>1. \A f \in File : CoveredFile(f) => CoveredFile(f)' \/ f \in changed
      BY <2>1 DEF CoveredFile
    <3>2. QED BY <2>6, <2>7, <2>8, <3>1
  <2>10. QED BY <1>7, <2>4, <2>8, <2>9 DEF BaseStands
<1>11. QED BY <1>6, <1>8, <1>9, <1>10

\* project.init: a run starts, or while one is in flight the batch is taken for nothing.
LEMMA IndexInits ==
  ASSUME IndexInv, NEW named \in SUBSET File, ProjectInit(named)
  PROVE  IndexInv'
<1> USE DEF IndexInv
<1> DEFINE changed == IF named = {} THEN batch.paths ELSE named
<1>1. /\ batch \in [paths : SUBSET File, missed : BOOLEAN, moved : BOOLEAN] /\ discarded \subseteq File
  BY DEF IndexTypeOK
<1>2. changed \in SUBSET File /\ batch.moved \in BOOLEAN
  BY <1>1
<1>3. batch' = NoBatch /\ UNCHANGED <<disk, watching>>
  BY DEF ProjectInit
<1>4. CASE run.at # "none"
  BY <1>3, <1>4, IndexDrops DEF ProjectInit
<1>5. CASE run.at = "none"
  <2>1. Reserve(MarkedStale, changed, batch.moved) /\ discarded' = discarded \cup Lost(changed, batch.moved)
    BY <1>5 DEF ProjectInit
  <2>2. discarded' \subseteq File
    BY <2>1, <1>1 DEF Lost
  <2>3. ASSUME ~ batch.moved, changed # {}, NEW f \in File, CoveredFile(f)
        PROVE  f \in discarded' \cup changed
    BY <2>1, <2>3, <1>1 DEF Lost, CoveredFile, NoBatch
  <2> HIDE DEF changed
  <2>4. QED BY <1>2, <1>3, <1>5, <2>1, <2>2, <2>3, IndexReserves
<1>6. QED BY <1>4, <1>5

\* The pump starts a repair of what the batch names, or of everything.
LEMMA IndexPumps ==
  ASSUME IndexInv, Pump
  PROVE  IndexInv'
<1> USE DEF IndexInv
<1> DEFINE changed == IF NeedsFullRebuild(batch) THEN {} ELSE batch.paths
<1>1. /\ batch \in [paths : SUBSET File, missed : BOOLEAN, moved : BOOLEAN] /\ discarded \subseteq File
  BY DEF IndexTypeOK
<1>2. changed \in SUBSET File /\ batch.moved \in BOOLEAN
  BY <1>1
<1>3. /\ run.at = "none" /\ Reserve(MarkedStale, changed, batch.moved)
      /\ batch' = NoBatch /\ UNCHANGED <<disk, watching>> /\ discarded' = discarded
  BY DEF Pump
<1>4. ASSUME changed # {}, NEW f \in File, CoveredFile(f)
      PROVE  f \in discarded' \cup changed
  BY <1>1, <1>3, <1>4 DEF NeedsFullRebuild, CoveredFile
<1> HIDE DEF changed
<1>5. QED BY <1>1, <1>2, <1>3, <1>4, IndexReserves

\* The enumeration settles whether the cut is narrowed; where the file set is not the
\* one the carried rows resolved among, all of them are dropped.
LEMMA IndexEnumerates ==
  ASSUME IndexInv, Enumerate
  PROVE  IndexInv'
<1> USE DEF IndexInv
<1> DEFINE full == \/ run.moved \/ run.docs = {} \/ run.changed = {}
                   \/ ~FileSetHeld(run.docs, Present, run.changed)
<1>1. /\ run.at = "enumerate" /\ run' = [run EXCEPT !.at = "read", !.found = Present, !.full = full]
      /\ discarded' = IF full \/ run.docs = Present THEN discarded ELSE File
      /\ disk' = disk /\ batch' = batch /\ watching' = watching /\ generations' = generations
  BY DEF Enumerate
<1>2. run \in RunRec
  BY <1>1 DEF IndexTypeOK, NoRun
<1>3. Present \in SUBSET File /\ Present' = Present
  BY <1>1 DEF Present
<1>4. full \in BOOLEAN
  <2>1. run.moved \in BOOLEAN
    BY <1>2 DEF RunRec
  <2>2. QED BY <2>1
<1>5. ~ full => ~ run.moved /\ run.docs # {} /\ run.changed # {}
  OBVIOUS
<1> HIDE DEF full
<1>6. /\ run' \in RunRec /\ run'.at = "read" /\ run'.found = Present /\ run'.full = full
      /\ run'.gen = run.gen /\ run'.changed = run.changed /\ run'.got = run.got
  BY <1>1, <1>2, <1>3, <1>4 DEF RunRec
<1>7. DOMAIN run'.got = {}
  BY <1>1, <1>6 DEF StubStands
<1>8. discarded \subseteq discarded' /\ discarded' \subseteq File
  BY <1>1 DEF IndexTypeOK
<1>9. IndexTypeOK'
  BY <1>1, <1>6, <1>8 DEF IndexTypeOK
<1>10. \A f \in File : CoveredFile(f) => CoveredFile(f)'
  BY <1>1, <1>8 DEF CoveredFile
<1>11. NewestStands' /\ BaseStands'
  BY <1>6 DEF NewestStands, BaseStands
<1>12. StubStands'
  BY <1>1, <1>6 DEF StubStands
<1>13. ReadStands'
  <2>1. DOMAIN run'.got \subseteq Wanted'
    BY <1>7
  <2>2. \A f \in DOMAIN run'.got : RowStands(run'.got, f, disk'[f], run'.found) \/ CoveredFile(f)'
    BY <1>7
  <2>3. run'.found = Present'
    BY <1>3, <1>6
  <2>4. ASSUME ~ full
        PROVE  /\ DOMAIN generations' # {run'.gen}
               /\ \A f \in run'.found \ run'.changed :
                    RowStands(generations'[Previous(generations', run'.gen)].rows, f, disk'[f], run'.found)
                    \/ CoveredFile(f)'
    <3> DEFINE base == generations[Previous(generations, run.gen)]
    <3>1. DOMAIN generations # {run.gen} /\ base.docs = run.docs
          /\ \A f \in base.docs :
                RowStands(base.rows, f, disk[f], base.docs) \/ CoveredFile(f) \/ f \in run.changed
      BY <1>1, <1>5, <2>4 DEF BaseStands
    <3> HIDE DEF base
    <3>2. CASE run.docs = Present
      <4>1. \A f \in Present \ run.changed : RowStands(base.rows, f, disk[f], Present) \/ CoveredFile(f)'
        BY <1>3, <1>10, <3>1, <3>2
      <4>2. QED BY <1>1, <1>6, <3>1, <4>1 DEF base
    <3>3. CASE run.docs # Present
      <4>1. discarded' = File
        BY <1>1, <2>4, <3>3
      <4>2. \A f \in File : CoveredFile(f)'
        BY <4>1 DEF CoveredFile
      <4>3. QED BY <1>1, <1>3, <1>6, <3>1, <4>2
    <3>4. QED BY <3>2, <3>3
  <2>5. QED BY <1>6, <2>1, <2>2, <2>3, <2>4 DEF ReadStands
<1>14. QED BY <1>9, <1>11, <1>12, <1>13

\* A file is read: its row is of what is on disk at that moment.
LEMMA IndexDerives ==
  ASSUME IndexInv, NEW f \in File, Derive(f)
  PROVE  IndexInv'
<1> USE DEF IndexInv
<1> DEFINE row == [version |-> disk[f], among |-> run.found]
           got == [g \in DOMAIN run.got \cup {f} |-> IF g = f THEN row ELSE run.got[g]]
<1>1. /\ run.at = "read" /\ f \in Wanted \ DOMAIN run.got /\ run' = [run EXCEPT !.got = got]
      /\ discarded' = IF run.found = Present THEN discarded \ {f} ELSE discarded
      /\ disk' = disk /\ batch' = batch /\ watching' = watching /\ generations' = generations
  BY DEF Derive
<1>2. run \in RunRec /\ disk[f] \in Int /\ discarded \subseteq File
  BY <1>1 DEF IndexTypeOK, NoRun
<1>3. run.got \in RowMap /\ run.found \in SUBSET File
  BY <1>2 DEF RunRec
<1>4. DOMAIN run.got \subseteq File /\ \A g \in DOMAIN run.got : run.got[g] \in RowRec
  BY <1>3, RowMapIs
<1>5. row \in RowRec
  BY <1>2, <1>3 DEF RowRec
<1>6. /\ DOMAIN got = DOMAIN run.got \cup {f} /\ got[f] = row
      /\ \A g \in DOMAIN run.got : got[g] = run.got[g]
  BY <1>1
<1>7. got \in RowMap
  <2>1. \A g \in DOMAIN run.got \cup {f} : (IF g = f THEN row ELSE run.got[g]) \in RowRec
    BY <1>4, <1>5
  <2> HIDE DEF row
  <2>2. got \in [DOMAIN run.got \cup {f} -> RowRec]
    BY <2>1
  <2>3. DOMAIN run.got \cup {f} \in SUBSET File
    BY <1>4
  <2>4. QED BY <2>2, <2>3, RowMapIs
<1> HIDE DEF got
<1>8. /\ run' \in RunRec /\ run'.got = got /\ run'.at = "read" /\ run'.gen = run.gen
      /\ run'.changed = run.changed /\ run'.found = run.found /\ run'.full = run.full
  BY <1>1, <1>2, <1>7 DEF RunRec
<1>9. IndexTypeOK'
  BY <1>1, <1>2, <1>8 DEF IndexTypeOK
<1>10. Present' = Present /\ Wanted' = Wanted
  BY <1>1, <1>8 DEF Present, Wanted
<1>11. \A g \in File : g # f /\ CoveredFile(g) => CoveredFile(g)'
  BY <1>1 DEF CoveredFile
<1>12. StubStands' /\ NewestStands' /\ BaseStands'
  BY <1>1, <1>8 DEF StubStands, NewestStands, BaseStands
<1>13. ReadStands'
  <2>1. DOMAIN run'.got \subseteq Wanted'
    BY <1>1, <1>6, <1>8, <1>10 DEF ReadStands
  <2>2. ASSUME NEW g \in DOMAIN got
        PROVE  RowStands(got, g, disk'[g], run'.found) \/ CoveredFile(g)'
    <3>1. CASE g = f
      BY <1>1, <1>6, <1>8, <3>1 DEF RowStands
    <3>2. CASE g # f
      <4>1. g \in DOMAIN run.got /\ g \in File
        BY <1>4, <1>6, <2>2, <3>2
      <4>2. RowStands(run.got, g, disk[g], run.found) \/ CoveredFile(g)
        BY <1>1, <4>1 DEF ReadStands
      <4>3. QED BY <1>1, <1>6, <1>8, <1>11, <3>2, <4>1, <4>2 DEF RowStands
    <3>3. QED BY <3>1, <3>2
  <2>3. watching => run.found = Present \/ CoveredSet'
    BY <1>1 DEF ReadStands, CoveredSet
  <2>4. ASSUME ~ run.full
        PROVE  /\ DOMAIN generations # {run.gen}
               /\ \A g \in run.found \ run.changed :
                    RowStands(generations[Previous(generations, run.gen)].rows, g, disk[g], run.found)
                    \/ CoveredFile(g)'
    <3>1. f \in run.changed
      BY <1>1, <2>4 DEF Wanted
    <3>2. \A g \in run.found \ run.changed : g \in File /\ g # f
      BY <1>3, <3>1
    <3>3. QED BY <1>1, <1>11, <2>4, <3>2 DEF ReadStands
  <2>5. QED BY <1>1, <1>8, <1>10, <2>1, <2>2, <2>3, <2>4 DEF ReadStands
<1>14. QED BY <1>9, <1>12, <1>13

\* A run ends: its generation is the newest, and holds what it was sealed with.
LEMMA IndexSeals ==
  ASSUME IndexInv, run.at # "none", NEW state \in GenState, NEW rows \in RowMap,
         NEW docs \in SUBSET File, SealAs(state, rows, docs), UNCHANGED <<disk, batch>>,
         watching' \in BOOLEAN, discarded' \subseteq File,
         \A f \in docs : RowStands(rows, f, disk[f], docs) \/ CoveredFile(f)',
         watching' /\ state = "fresh" => docs = Present \/ CoveredSet'
  PROVE  IndexInv'
<1> USE DEF IndexInv
<1> DEFINE gen == run.gen
           sealed == [state |-> state, rows |-> rows, docs |-> docs]
           superseded == [g \in DOMAIN generations |->
             IF g = gen THEN sealed
             ELSE IF /\ DOMAIN generations # {gen} /\ g = Previous(generations, gen)
                     /\ generations[g].state = "fresh"
                  THEN [generations[g] EXCEPT !.state = "superseded"]
                  ELSE generations[g]]
<1>1. generations' = [g \in Kept(superseded) |-> superseded[g]] /\ run' = NoRun
  BY DEF SealAs
<1>2. /\ DOMAIN generations \subseteq 1 .. MaxGeneration
      /\ \A g \in DOMAIN generations : generations[g] \in GenRec
      /\ gen \in DOMAIN generations /\ \A g \in DOMAIN generations : g <= gen
  BY DEF IndexTypeOK, StubStands
<1>3. sealed \in GenRec
  BY DEF GenRec
<1>4. ASSUME NEW g \in DOMAIN generations
      PROVE  [generations[g] EXCEPT !.state = "superseded"] \in GenRec
  BY <1>2 DEF GenRec, GenState
<1>5. DOMAIN superseded = DOMAIN generations /\ superseded[gen] = sealed
      /\ \A g \in DOMAIN generations : superseded[g] \in GenRec
  BY <1>2, <1>3, <1>4
<1> HIDE DEF superseded, sealed
<1>6. Kept(superseded) \subseteq DOMAIN generations /\ gen \in Kept(superseded)
  <2>1. {h \in DOMAIN superseded : h > gen} = {}
    BY <1>2, <1>5
  <2>2. Cardinality({h \in DOMAIN superseded : h > gen}) = 0
    BY <2>1, FS_EmptySet
  <2>3. QED BY <1>2, <1>5, <2>2, IndexAssumption DEF Kept
<1>7. /\ DOMAIN generations' \subseteq 1 .. MaxGeneration
      /\ \A g \in DOMAIN generations' : generations'[g] \in GenRec
      /\ gen \in DOMAIN generations' /\ \A g \in DOMAIN generations' : g <= gen
      /\ generations'[gen] = sealed
  BY <1>1, <1>2, <1>5, <1>6
<1>8. IndexTypeOK'
  BY <1>1, <1>7 DEF IndexTypeOK
<1>9. Newest(generations') = gen
  BY <1>7, NewestOf
<1>10. run'.at = "none"
  BY <1>1 DEF NoRun
<1>11. NewestStands'
  BY <1>7, <1>9 DEF NewestStands, sealed, Present
<1>12. StubStands' /\ BaseStands' /\ ReadStands'
  BY <1>10 DEF StubStands, BaseStands, ReadStands
<1>13. QED BY <1>8, <1>11, <1>12

\* A complete cut is sealed fresh, with the rows it carries.
LEMMA IndexSealsFresh ==
  ASSUME IndexInv, Seal
  PROVE  IndexInv'
<1> USE DEF IndexInv
<1> DEFINE base == IF run.full THEN NoRows ELSE Carried(generations, run.gen, run.changed)
           rows == [f \in DOMAIN base \cup DOMAIN run.got |->
                     IF f \in DOMAIN run.got THEN run.got[f] ELSE base[f]]
<1>1. /\ run.at = "read" /\ Wanted \subseteq DOMAIN run.got
      /\ SealAs("fresh", rows, run.found) /\ watching' = TRUE
      /\ discarded' = IF watching \/ run.found = Present THEN discarded ELSE File
      /\ disk' = disk /\ batch' = batch
  BY DEF Seal
<1>2. run \in RunRec /\ discarded \subseteq File
  BY <1>1 DEF IndexTypeOK, NoRun
<1>3. run.got \in RowMap /\ run.found \in SUBSET File /\ run.changed \in SUBSET File
  BY <1>2 DEF RunRec
<1>4. DOMAIN run.got \subseteq File /\ \A g \in DOMAIN run.got : run.got[g] \in RowRec
  BY <1>3, RowMapIs
<1>5. run.gen \in DOMAIN generations /\ DOMAIN generations \subseteq 1 .. MaxGeneration
      /\ \A g \in DOMAIN generations : generations[g] \in GenRec
  BY <1>1 DEF StubStands, IndexTypeOK
<1> DEFINE p == Previous(generations, run.gen)
           old == generations[p].rows
<1>6. DOMAIN generations # {run.gen} => p \in DOMAIN generations
  <2> DEFINE hs == [g \in DOMAIN generations \ {run.gen} |-> generations[g]]
  <2>1. DOMAIN hs = DOMAIN generations \ {run.gen}
    OBVIOUS
  <2>2. DOMAIN generations # {run.gen} => DOMAIN hs # {}
    BY <1>5, <2>1
  <2> HIDE DEF hs
  <2>3. QED BY <1>5, <2>1, <2>2, PreviousIs
<1>7. DOMAIN generations # {run.gen} =>
        old \in RowMap /\ DOMAIN old \subseteq File /\ \A f \in DOMAIN old : old[f] \in RowRec
  <2>1. DOMAIN generations # {run.gen} => old \in RowMap
    BY <1>5, <1>6 DEF GenRec
  <2>2. QED BY <2>1, RowMapIs
<1>8. \/ base = NoRows
      \/ ~ run.full /\ DOMAIN generations # {run.gen} /\ base = [f \in DOMAIN old \ run.changed |-> old[f]]
  BY DEF Carried
<1>9. ~ run.full /\ DOMAIN generations # {run.gen} => base = [f \in DOMAIN old \ run.changed |-> old[f]]
  BY DEF Carried
<1> HIDE DEF base, p, old
<1>10. DOMAIN base \subseteq File /\ \A f \in DOMAIN base : base[f] \in RowRec
  BY <1>7, <1>8 DEF NoRows
<1>11. rows \in RowMap
  <2>1. \A f \in DOMAIN base \cup DOMAIN run.got :
           (IF f \in DOMAIN run.got THEN run.got[f] ELSE base[f]) \in RowRec
    BY <1>4, <1>10
  <2>2. rows \in [DOMAIN base \cup DOMAIN run.got -> RowRec]
    BY <2>1
  <2>3. DOMAIN base \cup DOMAIN run.got \in SUBSET File
    BY <1>4, <1>10
  <2>4. QED BY <2>2, <2>3, RowMapIs
<1>12. /\ \A f \in DOMAIN run.got : f \in DOMAIN rows /\ rows[f] = run.got[f]
       /\ \A f \in DOMAIN base \ DOMAIN run.got : f \in DOMAIN rows /\ rows[f] = base[f]
  OBVIOUS
<1> HIDE DEF rows
<1>13. discarded \subseteq discarded' /\ discarded' \subseteq File
  BY <1>1, <1>2
<1>14. \A f \in File : CoveredFile(f) => CoveredFile(f)'
  BY <1>1, <1>13 DEF CoveredFile
<1>15. ASSUME NEW f \in run.found
       PROVE  RowStands(rows, f, disk[f], run.found) \/ CoveredFile(f)'
  <2>1. CASE f \in DOMAIN run.got
    <3>1. RowStands(run.got, f, disk[f], run.found) \/ CoveredFile(f)
      BY <1>1, <2>1 DEF ReadStands
    <3>2. QED BY <1>3, <1>12, <1>14, <2>1, <3>1 DEF RowStands
  <2>2. CASE f \notin DOMAIN run.got
    <3>1. ~ run.full /\ f \notin run.changed
      BY <1>1, <2>2 DEF Wanted
    <3>2. /\ DOMAIN generations # {run.gen}
          /\ RowStands(old, f, disk[f], run.found) \/ CoveredFile(f)
      BY <1>1, <3>1 DEF ReadStands, old, p
    <3>3. CASE RowStands(old, f, disk[f], run.found)
      <4>1. f \in DOMAIN base /\ base[f] = old[f]
        BY <1>9, <3>1, <3>2, <3>3 DEF RowStands
      <4>2. QED BY <1>12, <2>2, <3>3, <4>1 DEF RowStands
    <3>4. CASE CoveredFile(f)
      BY <1>3, <1>14, <3>4
    <3>5. QED BY <3>2, <3>3, <3>4
  <2>3. QED BY <2>1, <2>2
<1>16. run.found = Present \/ CoveredSet'
  <2>1. CASE watching
    BY <1>1, <2>1 DEF ReadStands, CoveredSet
  <2>2. CASE ~ watching
    BY <1>1, <2>2 DEF CoveredSet
  <2>3. QED BY <2>1, <2>2
<1>17. "fresh" \in GenState /\ run.at # "none"
  BY <1>1 DEF GenState
<1>18. QED BY <1>1, <1>3, <1>11, <1>13, <1>15, <1>16, <1>17, IndexSeals

\* A full cut that reached the edge limit is sealed partial, what it left out dropped.
LEMMA IndexSealsPartial ==
  ASSUME IndexInv, SealPartial
  PROVE  IndexInv'
<1> USE DEF IndexInv
<1>1. /\ run.at = "read" /\ run.full
      /\ SealAs("partial_coverage", run.got, run.found) /\ watching' = TRUE
      /\ discarded' = discarded \cup (Wanted \ DOMAIN run.got)
      /\ disk' = disk /\ batch' = batch
  BY DEF SealPartial
<1>2. run \in RunRec /\ discarded \subseteq File
  BY <1>1 DEF IndexTypeOK, NoRun
<1>3. run.got \in RowMap /\ run.found \in SUBSET File /\ Wanted = run.found
  BY <1>1, <1>2 DEF RunRec, Wanted
<1>4. discarded' \subseteq File
  BY <1>1, <1>2, <1>3
<1>5. ASSUME NEW f \in run.found
      PROVE  RowStands(run.got, f, disk[f], run.found) \/ CoveredFile(f)'
  <2>1. CASE f \in DOMAIN run.got
    BY <1>1, <2>1 DEF ReadStands, CoveredFile
  <2>2. CASE f \notin DOMAIN run.got
    BY <1>1, <1>3, <2>2 DEF CoveredFile
  <2>3. QED BY <2>1, <2>2
<1>6. "partial_coverage" \in GenState /\ "partial_coverage" # "fresh" /\ run.at # "none"
  BY <1>1 DEF GenState
<1>7. QED BY <1>1, <1>3, <1>4, <1>5, <1>6, IndexSeals

\* A run that failed is sealed with nothing.
LEMMA IndexSealsFailed ==
  ASSUME IndexInv, SealFailed
  PROVE  IndexInv'
<1> USE DEF IndexInv
<1>1. /\ run.at # "none" /\ SealAs("isolated_run", NoRows, {})
      /\ disk' = disk /\ batch' = batch /\ watching' = watching /\ discarded' = discarded
  BY DEF SealFailed
<1>2. watching \in BOOLEAN /\ discarded \subseteq File
  BY DEF IndexTypeOK
<1>3. NoRows \in RowMap
  <2>1. NoRows \in [{} -> RowRec]
    BY DEF NoRows
  <2>2. QED BY <2>1, RowMapIs
<1>4. "isolated_run" \in GenState /\ "isolated_run" # "fresh"
  BY DEF GenState
<1>5. QED BY <1>1, <1>2, <1>3, <1>4, IndexSeals

\* The process dies: the run's stub is what is left of it, the watch and its batch are gone.
LEMMA IndexRestarts ==
  ASSUME IndexInv, Restarts
  PROVE  IndexInv'
<1> USE DEF IndexInv
<1>1. /\ run' = NoRun /\ batch' = [paths |-> {}, missed |-> FALSE, moved |-> FALSE]
      /\ watching' = FALSE /\ discarded' = discarded \cup LostAll
      /\ disk' = disk /\ generations' = generations /\ run'.at = "none"
  BY DEF Restarts, NoRun, NoBatch
<1>2. /\ batch \in [paths : SUBSET File, missed : BOOLEAN, moved : BOOLEAN] /\ discarded \subseteq File
      /\ DOMAIN generations \subseteq 1 .. MaxGeneration
      /\ \A g \in DOMAIN generations : generations[g] \in GenRec
  BY DEF IndexTypeOK
<1>3. discarded' \subseteq File /\ \A f \in File : CoveredFile(f) => CoveredFile(f)'
  BY <1>1, <1>2 DEF CoveredFile, LostAll
<1>4. IndexTypeOK'
  BY <1>1, <1>3 DEF IndexTypeOK
<1>5. StubStands' /\ BaseStands' /\ ReadStands'
  BY <1>1 DEF StubStands, BaseStands, ReadStands
<1>6. NewestStands'
  <2>1. SUFFICES ASSUME DOMAIN generations # {}
                 PROVE  LET gen == generations[Newest(generations)]
                        IN  \A f \in gen.docs : RowStands(gen.rows, f, disk[f], gen.docs) \/ CoveredFile(f)'
    BY <1>1 DEF NewestStands
  <2> DEFINE n == Newest(generations)
  <2>2. n \in DOMAIN generations /\ \A h \in DOMAIN generations : h <= n
    BY <1>2, <2>1, NewestIs
  <2>3. CASE run.at = "none"
    <3> HIDE DEF n
    <3>1. generations[n].docs \subseteq File
      BY <1>2, <2>2 DEF GenRec
    <3>2. \A f \in generations[n].docs :
            RowStands(generations[n].rows, f, disk[f], generations[n].docs) \/ CoveredFile(f)
      BY <2>1, <2>3 DEF NewestStands, n
    <3>3. QED BY <1>3, <3>1, <3>2 DEF n
  <2>4. CASE run.at # "none"
    <3> HIDE DEF n
    <3>1. /\ run.gen \in DOMAIN generations /\ \A g \in DOMAIN generations : g <= run.gen
          /\ generations[run.gen].docs = {}
      BY <2>4 DEF StubStands
    <3>2. Newest(generations) = run.gen
      BY <1>2, <3>1, NewestOf
    <3>3. QED BY <3>1, <3>2
  <2>5. QED BY <2>3, <2>4
<1>7. QED BY <1>4, <1>5, <1>6

\* Every step keeps the invariant.
LEMMA IndexInvNext == IndexInv /\ [IndexNext]_indexVars => IndexInv'
<1> SUFFICES ASSUME IndexInv, [IndexNext]_indexVars PROVE IndexInv'
  OBVIOUS
<1>1. CASE UNCHANGED indexVars
  <2>1. /\ disk' = disk /\ batch' = batch /\ watching' = watching /\ generations' = generations
        /\ run' = run /\ discarded' = discarded
    BY <1>1 DEF indexVars
  <2>2. IndexTypeOK'
    BY <2>1 DEF IndexInv, IndexTypeOK
  <2>3. QED BY <2>1, <2>2, IndexDrifts DEF CoveredFile, CoveredSet, Present
<1>2. ASSUME NEW f \in File, NEW v \in -1 .. MaxVersion, Change(f, v) PROVE IndexInv'
  BY <1>2, IndexChange
<1>3. ASSUME NEW f \in File, Overflow(f) PROVE IndexInv'
  BY <1>3, IndexOverflow
<1>4. ASSUME NEW f \in File, Derive(f) PROVE IndexInv'
  BY <1>4, IndexDerives
<1>5. ASSUME NEW named \in SUBSET File, ProjectInit(named) PROVE IndexInv'
  BY <1>5, IndexInits
<1>6. CASE Pump
  BY <1>6, IndexPumps
<1>7. CASE PumpFails
  BY <1>7, IndexDrops DEF PumpFails
<1>8. CASE Enumerate
  BY <1>8, IndexEnumerates
<1>9. CASE Seal
  BY <1>9, IndexSealsFresh
<1>10. CASE SealPartial
  BY <1>10, IndexSealsPartial
<1>11. CASE SealFailed
  BY <1>11, IndexSealsFailed
<1>12. CASE Restarts
  BY <1>12, IndexRestarts
<1>13. QED BY <1>1, <1>2, <1>3, <1>4, <1>5, <1>6, <1>7, <1>8, <1>9, <1>10, <1>11, <1>12 DEF IndexNext

\* The invariant says of the generation served what the claim does.
LEMMA IndexInvFresh == IndexInv => FreshIsCurrent
<1> SUFFICES ASSUME IndexInv, watching, DOMAIN generations # {},
                    generations[Newest(generations)].state = "fresh", NEW f \in Present
             PROVE  LET g == Newest(generations)
                    IN  \/ f \in DOMAIN generations[g].rows /\ generations[g].rows[f] = RowOf(f)
                        \/ f \in batch.paths \cup discarded \/ batch.missed \/ batch.moved
  BY DEF FreshIsCurrent
<1> DEFINE n == Newest(generations)
<1>1. n \in DOMAIN generations /\ (\A h \in DOMAIN generations : h <= n)
      /\ DOMAIN generations \subseteq 1 .. MaxGeneration
  BY NewestIs DEF IndexInv, IndexTypeOK
<1>2. run.at = "none"
  <2>1. SUFFICES ASSUME run.at # "none" PROVE FALSE
    OBVIOUS
  <2>2. run.gen \in DOMAIN generations /\ (\A g \in DOMAIN generations : g <= run.gen)
        /\ generations[run.gen].state # "fresh"
    BY <2>1 DEF IndexInv, StubStands
  <2>3. n = run.gen
    BY <1>1, <2>2, NewestOf
  <2>4. QED BY <2>2, <2>3
<1>3. /\ \A x \in generations[n].docs :
            RowStands(generations[n].rows, x, disk[x], generations[n].docs) \/ CoveredFile(x)
      /\ generations[n].docs = Present \/ CoveredSet
  BY <1>2 DEF IndexInv, NewestStands
<1> HIDE DEF n
<1>4. f \in File
  BY DEF Present
<1>5. CASE generations[n].docs = Present
  BY <1>3, <1>5 DEF RowStands, CoveredFile, RowOf, n
<1>6. CASE CoveredSet
  BY <1>4, <1>6 DEF CoveredSet, n
<1>7. QED BY <1>3, <1>5, <1>6

\* src/src/state.rs, src/src/commands.rs and src/src/index.rs: a generation served as fresh
\* describes the project.  Whatever files change while a run reads them, however runs fail,
\* are refused or carry rows of an earlier cut, and wherever the process dies, every file's
\* row is of what is on disk, or the watch holds the change, or it is one of the changes
\* the code drops.
THEOREM FreshSafe == IndexSpec => []FreshIsCurrent
<1>1. QED BY IndexInvInit, IndexInvNext, IndexInvFresh, PTL DEF IndexSpec

-----------------------------------------------------------------------------
(***************************************************************************)
(* One scope of the credential store.  The invariant says who may stand    *)
(* where: the lock's holder is the only one between an occupancy read and  *)
(* its write, and the flight in the map has one leader, whose outcome is   *)
(* still out.                                                              *)
(***************************************************************************)
CallerRec == [at : {"idle", "login", "occupied", "create", "exchange", "refresh", "join", "joined",
                    "lead", "drop", "publish"},
              token : Nat, flight : Nat, saw : {"none", "ok", "error"}, wrote : BOOLEAN]

StoreTypeOK ==
    /\ entry \in Nat /\ issued \in Nat /\ inMap \in Nat
    /\ loginLock \in Caller \cup {NoCaller}
    /\ flightOutcome \in Seq({"none", "ok", "error"})
    /\ caller \in [Caller -> CallerRec]
    /\ honoured \subseteq Nat

\* A flow past its first step carries a token, which is a positive number.
TokensAreIssued ==
    \A c \in Caller : caller[c].at \in {"login", "create", "exchange", "refresh", "lead"} =>
        caller[c].token # 0

\* Between the occupancy read and the write the caller has the lock, and nobody
\* has enrolled; an absent entry has no enrolment.
EnrolmentIsGuarded ==
    /\ \A c \in Caller : caller[c].at \in {"occupied", "create"} => loginLock = c
    /\ \A c \in Caller : caller[c].at = "create" => enrolled = {}
    /\ entry = 0 => enrolled = {}
    /\ enrolled = {} \/ \E t : enrolled = {t}

Leading == {"lead", "drop"}

\* The flight in the map has exactly one leader, and its outcome is still out; a
\* flight about to be published is in the map no more.
FlightIsLed ==
    /\ inMap # 0 => inMap \in 1 .. Len(flightOutcome) /\ flightOutcome[inMap] = "none"
    /\ inMap # 0 => \E c \in Caller : caller[c].at \in Leading /\ caller[c].flight = inMap
    /\ \A c \in Caller : caller[c].at \in Leading => caller[c].flight = inMap /\ inMap # 0
    /\ \A c, d \in Caller : caller[c].at \in Leading /\ caller[d].at \in Leading => c = d
    /\ \A c \in Caller : caller[c].at = "publish" =>
          caller[c].flight \in 1 .. Len(flightOutcome) /\ caller[c].flight # inMap
    /\ \A c \in Caller : caller[c].at \in {"join", "joined"} => caller[c].saw = "none"

StoreInv == StoreTypeOK /\ TokensAreIssued /\ EnrolmentIsGuarded /\ FlightIsLed

\* The store is empty at first.
LEMMA StoreInvInit == CredentialInit => StoreInv
<1> SUFFICES ASSUME CredentialInit PROVE StoreInv
  OBVIOUS
<1>1. \A c \in Caller : caller[c] = Idle
  BY DEF CredentialInit
<1>2. caller \in [Caller -> CallerRec]
  BY DEF CredentialInit, Idle, CallerRec
<1>3. \A c \in Caller : caller[c].at = "idle"
  BY <1>1 DEF Idle
<1>4. StoreTypeOK
  BY <1>2 DEF CredentialInit, StoreTypeOK
<1>5. TokensAreIssued /\ EnrolmentIsGuarded /\ FlightIsLed
  BY <1>3 DEF CredentialInit, TokensAreIssued, EnrolmentIsGuarded, FlightIsLed, Leading
<1>6. QED BY <1>4, <1>5 DEF StoreInv

\* A step of one caller: what it is afterwards, and that no other moved.
LEMMA CallerMoves ==
  ASSUME StoreTypeOK, NEW c \in Caller, NEW r \in CallerRec, caller' = [caller EXCEPT ![c] = r]
  PROVE  /\ caller' \in [Caller -> CallerRec]
         /\ caller'[c] = r
         /\ \A d \in Caller : d # c => caller'[d] = caller[d]
BY DEF StoreTypeOK

\* A caller that has ended is idle.
LEMMA IdleIs == Idle \in CallerRec /\ Idle.at = "idle" /\ Idle.token = 0
BY DEF Idle, CallerRec

\* Fields of a caller after it goes on.
LEMMA CallerGoes ==
  ASSUME NEW r \in CallerRec,
         NEW at \in {"idle", "login", "occupied", "create", "exchange", "refresh", "join", "joined",
                     "lead", "drop", "publish"}
  PROVE  /\ [r EXCEPT !.at = at] \in CallerRec
         /\ [r EXCEPT !.at = at].at = at
         /\ [r EXCEPT !.at = at].token = r.token
         /\ [r EXCEPT !.at = at].flight = r.flight
         /\ [r EXCEPT !.at = at].saw = r.saw
BY DEF CallerRec

\* Every step of a login: the lock is what makes the second enrolment see the first.
LEMMA LoginKeeps ==
  ASSUME StoreInv, NEW c \in Caller,
         IssueLogin(c) \/ LoginCheck(c) \/ LoginRefused(c) \/ LoginWrite(c)
  PROVE  StoreInv'
<1> USE DEF StoreInv
<1>0. caller[c] \in CallerRec
  BY DEF StoreTypeOK
<1>1. CASE IssueLogin(c)
  <2> DEFINE r == [caller[c] EXCEPT !.at = "login", !.token = issued + 1]
  <2>0. issued + 1 \in Nat /\ issued + 1 # 0
    BY DEF StoreTypeOK
  <2>1. r \in CallerRec /\ r.at = "login" /\ r.token = issued + 1
    BY <1>0, <2>0 DEF CallerRec
  <2>2. /\ caller' = [caller EXCEPT ![c] = r] /\ issued' = issued + 1
        /\ honoured' = honoured \cup {issued + 1}
        /\ entry' = entry /\ loginLock' = loginLock /\ inMap' = inMap
        /\ flightOutcome' = flightOutcome /\ enrolled' = enrolled /\ caller[c].at = "idle"
    BY <1>1 DEF IssueLogin, Stands
  <2> HIDE DEF r
  <2>3. caller' \in [Caller -> CallerRec] /\ caller'[c] = r
        /\ \A d \in Caller : d # c => caller'[d] = caller[d]
    BY <2>1, <2>2, CallerMoves
  <2>4. StoreTypeOK'
    BY <2>0, <2>2, <2>3 DEF StoreTypeOK
  <2>5. TokensAreIssued' /\ EnrolmentIsGuarded' /\ FlightIsLed'
    BY <2>0, <2>1, <2>2, <2>3 DEF TokensAreIssued, EnrolmentIsGuarded, FlightIsLed, Leading
  <2>6. QED BY <2>4, <2>5
<1>2. CASE LoginCheck(c)
  <2> DEFINE to == IF entry # 0 THEN "occupied" ELSE "create"
             r == [caller[c] EXCEPT !.at = to]
  <2>1. /\ caller' = [caller EXCEPT ![c] = r] /\ loginLock = NoCaller /\ loginLock' = c
        /\ entry' = entry /\ inMap' = inMap /\ issued' = issued /\ honoured' = honoured
        /\ flightOutcome' = flightOutcome /\ enrolled' = enrolled /\ caller[c].at = "login"
    BY <1>2 DEF LoginCheck, Stands, TakeLoginLock, Goes
  <2>2. to = "occupied" \/ (to = "create" /\ entry = 0)
    OBVIOUS
  <2> HIDE DEF to
  <2>3. r \in CallerRec /\ r.at = to /\ r.token = caller[c].token
    <3>1. [caller[c] EXCEPT !.at = "occupied"] \in CallerRec
          /\ [caller[c] EXCEPT !.at = "occupied"].at = "occupied"
          /\ [caller[c] EXCEPT !.at = "occupied"].token = caller[c].token
      BY <1>0, CallerGoes
    <3>2. [caller[c] EXCEPT !.at = "create"] \in CallerRec
          /\ [caller[c] EXCEPT !.at = "create"].at = "create"
          /\ [caller[c] EXCEPT !.at = "create"].token = caller[c].token
      BY <1>0, CallerGoes
    <3>3. QED BY <2>2, <3>1, <3>2
  <2> HIDE DEF r
  <2>4. caller' \in [Caller -> CallerRec] /\ caller'[c] = r
        /\ \A d \in Caller : d # c => caller'[d] = caller[d]
    BY <2>1, <2>3, CallerMoves
  <2>5. StoreTypeOK'
    BY <2>1, <2>4 DEF StoreTypeOK
  <2>6. \A d \in Caller : caller[d].at \notin {"occupied", "create"}
    BY <2>1, CredentialAssumption DEF EnrolmentIsGuarded
  <2>7. TokensAreIssued' /\ FlightIsLed'
    BY <2>1, <2>2, <2>3, <2>4 DEF TokensAreIssued, FlightIsLed, Leading
  <2>8. EnrolmentIsGuarded'
    BY <2>1, <2>2, <2>3, <2>4, <2>6 DEF EnrolmentIsGuarded
  <2>9. QED BY <2>5, <2>7, <2>8
<1>3. CASE LoginRefused(c)
  <2>1. /\ caller' = [caller EXCEPT ![c] = Idle]
        /\ entry' = entry /\ inMap' = inMap /\ issued' = issued /\ honoured' = honoured
        /\ flightOutcome' = flightOutcome /\ enrolled' = enrolled /\ caller[c].at = "occupied"
        /\ loginLock' = NoCaller /\ loginLock = c
    BY <1>3 DEF LoginRefused, Stands, Unlocked, EnrolmentIsGuarded
  <2>2. caller' \in [Caller -> CallerRec] /\ caller'[c].at = "idle"
        /\ \A d \in Caller : d # c => caller'[d] = caller[d]
    BY <2>1, CallerMoves, IdleIs
  <2>3. \A d \in Caller : d # c => caller[d].at \notin {"occupied", "create"}
    BY <2>1 DEF EnrolmentIsGuarded
  <2>4. StoreTypeOK'
    BY <2>1, <2>2 DEF StoreTypeOK
  <2>5. TokensAreIssued' /\ FlightIsLed'
    BY <2>1, <2>2 DEF TokensAreIssued, FlightIsLed, Leading
  <2>6. EnrolmentIsGuarded'
    BY <2>1, <2>2, <2>3 DEF EnrolmentIsGuarded
  <2>7. QED BY <2>4, <2>5, <2>6
<1>4. CASE LoginWrite(c)
  <2>1. /\ caller' = [caller EXCEPT ![c] = Idle]
        /\ inMap' = inMap /\ issued' = issued /\ honoured' = honoured
        /\ flightOutcome' = flightOutcome /\ caller[c].at = "create"
        /\ loginLock' = NoCaller /\ loginLock = c /\ enrolled = {}
        /\ \/ entry' = caller[c].token /\ enrolled' = {caller[c].token}
           \/ entry' = entry /\ enrolled' = enrolled
    BY <1>4 DEF LoginWrite, Stands, Unlocked, EnrolmentIsGuarded
  <2>2. caller' \in [Caller -> CallerRec] /\ caller'[c].at = "idle"
        /\ \A d \in Caller : d # c => caller'[d] = caller[d]
    BY <2>1, CallerMoves, IdleIs
  <2>3. \A d \in Caller : d # c => caller[d].at \notin {"occupied", "create"}
    BY <2>1 DEF EnrolmentIsGuarded
  <2>4. caller[c].token \in Nat /\ caller[c].token # 0
    BY <1>0, <2>1 DEF CallerRec, TokensAreIssued
  <2>5. StoreTypeOK'
    BY <2>1, <2>2, <2>4 DEF StoreTypeOK
  <2>6. TokensAreIssued' /\ FlightIsLed'
    BY <2>1, <2>2 DEF TokensAreIssued, FlightIsLed, Leading
  <2>7. EnrolmentIsGuarded'
    BY <2>1, <2>2, <2>3, <2>4 DEF EnrolmentIsGuarded
  <2>8. QED BY <2>5, <2>6, <2>7
<1>5. QED BY <1>1, <1>2, <1>3, <1>4

\* Every step that only moves a caller between the flows leaves the store as it is.
LEMMA FlowKeeps ==
  ASSUME StoreInv, NEW c \in Caller, NEW r \in CallerRec, caller' = [caller EXCEPT ![c] = r],
         caller[c].at \in {"idle", "exchange", "join", "joined"},
         \/ r.at = "idle"
         \/ r.at \in {"exchange", "refresh"} /\ r.token # 0
         \/ r.at = "joined" /\ r.saw = "none",
         entry' = entry, loginLock' = loginLock, inMap' = inMap, flightOutcome' = flightOutcome,
         enrolled' = enrolled, issued' \in Nat, honoured' \subseteq Nat
  PROVE  StoreInv'
<1> USE DEF StoreInv
<1>1. caller' \in [Caller -> CallerRec] /\ caller'[c] = r
      /\ \A d \in Caller : d # c => caller'[d] = caller[d]
  BY CallerMoves
<1>2. StoreTypeOK'
  BY <1>1 DEF StoreTypeOK
<1>3. TokensAreIssued'
  BY <1>1 DEF TokensAreIssued
<1>4. EnrolmentIsGuarded'
  BY <1>1 DEF EnrolmentIsGuarded
<1>5. FlightIsLed'
  <2>1. caller[c].at \notin Leading /\ r.at \notin Leading /\ r.at # "publish"
    BY DEF Leading
  <2>2. QED BY <1>1, <2>1 DEF FlightIsLed
<1>6. QED BY <1>2, <1>3, <1>4, <1>5

\* The exchange of a refresh, and the return of a joiner.
LEMMA RefreshKeeps ==
  ASSUME StoreInv, NEW c \in Caller,
         \/ ReadStored(c) \/ ExchangeRefused(c) \/ ExchangeKeeps(c) \/ ExchangeRotates(c)
         \/ JoinEnds(c) \/ JoinReturns(c)
  PROVE  StoreInv'
<1> USE DEF StoreInv
<1>0. caller[c] \in CallerRec /\ issued \in Nat /\ honoured \subseteq Nat /\ entry \in Nat
  BY DEF StoreTypeOK
<1>1. CASE ReadStored(c)
  <2> DEFINE r == [caller[c] EXCEPT !.at = "exchange", !.token = entry]
  <2>1. r \in CallerRec /\ r.at = "exchange" /\ r.token = entry
    BY <1>0 DEF CallerRec
  <2>2. /\ caller' = [caller EXCEPT ![c] = r] /\ caller[c].at = "idle" /\ entry # 0
        /\ UNCHANGED <<entry, loginLock, inMap, flightOutcome, issued, honoured, enrolled>>
    BY <1>1 DEF ReadStored, Stands
  <2> HIDE DEF r
  <2>3. QED BY <1>0, <2>1, <2>2, FlowKeeps
<1>2. CASE ExchangeRefused(c)
  BY <1>0, <1>2, IdleIs, FlowKeeps DEF ExchangeRefused, Stands
<1>3. CASE ExchangeKeeps(c)
  <2> DEFINE r == [caller[c] EXCEPT !.at = "refresh"]
  <2>1. r \in CallerRec /\ r.at = "refresh" /\ r.token = caller[c].token
    BY <1>0, CallerGoes
  <2>2. /\ caller' = [caller EXCEPT ![c] = r] /\ caller[c].at = "exchange"
        /\ UNCHANGED <<entry, loginLock, inMap, flightOutcome, issued, honoured, enrolled>>
    BY <1>3 DEF ExchangeKeeps, Stands, Goes
  <2>3. caller[c].token # 0
    BY <2>2 DEF TokensAreIssued
  <2> HIDE DEF r
  <2>4. QED BY <1>0, <2>1, <2>2, <2>3, FlowKeeps
<1>4. CASE ExchangeRotates(c)
  <2> DEFINE r == [caller[c] EXCEPT !.at = "refresh", !.token = issued + 1]
  <2>0. issued + 1 \in Nat /\ issued + 1 # 0
    BY <1>0
  <2>1. r \in CallerRec /\ r.at = "refresh" /\ r.token = issued + 1
    BY <1>0, <2>0 DEF CallerRec
  <2>2. /\ caller' = [caller EXCEPT ![c] = r] /\ caller[c].at = "exchange"
        /\ issued' = issued + 1 /\ honoured' = (honoured \ {caller[c].token}) \cup {issued + 1}
        /\ UNCHANGED <<entry, loginLock, inMap, flightOutcome, enrolled>>
    BY <1>4 DEF ExchangeRotates, Stands
  <2> HIDE DEF r
  <2>3. issued' \in Nat /\ honoured' \subseteq Nat
    BY <1>0, <2>0, <2>2
  <2>4. QED BY <2>0, <2>1, <2>2, <2>3, FlowKeeps
<1>5. CASE JoinEnds(c)
  <2> DEFINE r == [caller[c] EXCEPT !.at = "joined"]
  <2>1. r \in CallerRec /\ r.at = "joined" /\ r.saw = caller[c].saw
    BY <1>0, CallerGoes
  <2>2. /\ caller[c].at = "join"
        /\ caller' = [caller EXCEPT ![c] = r] \/ caller' = [caller EXCEPT ![c] = Idle]
        /\ UNCHANGED <<entry, loginLock, inMap, flightOutcome, issued, honoured, enrolled>>
    BY <1>5 DEF JoinEnds, Stands, Goes
  <2>3. caller[c].saw = "none"
    BY <2>2 DEF FlightIsLed
  <2> HIDE DEF r
  <2>4. CASE caller' = [caller EXCEPT ![c] = r]
    BY <1>0, <2>1, <2>2, <2>3, <2>4, FlowKeeps
  <2>5. CASE caller' = [caller EXCEPT ![c] = Idle]
    BY <1>0, <2>2, <2>5, IdleIs, FlowKeeps
  <2>6. QED BY <2>2, <2>4, <2>5
<1>6. CASE JoinReturns(c)
  BY <1>0, <1>6, IdleIs, FlowKeeps DEF JoinReturns, Stands
<1>7. QED BY <1>1, <1>2, <1>3, <1>4, <1>5, <1>6

\* A caller finds the flight in the map and joins it, or leads the next one.
LEMMA SlotKeeps ==
  ASSUME StoreInv, NEW c \in Caller, TakeSlot(c)
  PROVE  StoreInv'
<1> USE DEF StoreInv
<1>0. /\ caller[c] \in CallerRec /\ caller[c].at = "refresh"
      /\ flightOutcome \in Seq({"none", "ok", "error"}) /\ Len(flightOutcome) \in Nat
      /\ UNCHANGED <<entry, loginLock, issued, honoured, enrolled>>
  BY DEF StoreTypeOK, TakeSlot, Stands
<1>1. CASE inMap # 0
  <2> DEFINE r == [caller[c] EXCEPT !.at = "join", !.flight = inMap, !.saw = flightOutcome[inMap]]
  <2>1. /\ caller' = [caller EXCEPT ![c] = r] /\ inMap' = inMap /\ flightOutcome' = flightOutcome
    BY <1>1 DEF TakeSlot
  <2>2. flightOutcome[inMap] = "none" /\ inMap \in Nat
    BY <1>1 DEF FlightIsLed, StoreTypeOK
  <2>3. r \in CallerRec /\ r.at = "join" /\ r.saw = "none"
    BY <1>0, <2>2 DEF CallerRec
  <2> HIDE DEF r
  <2>4. caller' \in [Caller -> CallerRec] /\ caller'[c] = r
        /\ \A d \in Caller : d # c => caller'[d] = caller[d]
    BY <2>1, <2>3, CallerMoves
  <2>5. StoreTypeOK'
    BY <1>0, <2>1, <2>4 DEF StoreTypeOK
  <2>6. TokensAreIssued' /\ EnrolmentIsGuarded'
    BY <1>0, <2>3, <2>4 DEF TokensAreIssued, EnrolmentIsGuarded
  <2>7. FlightIsLed'
    BY <1>0, <2>1, <2>3, <2>4 DEF FlightIsLed, Leading
  <2>8. QED BY <2>5, <2>6, <2>7
<1>2. CASE inMap = 0
  <2> DEFINE n == Len(flightOutcome) + 1
             r == [caller[c] EXCEPT !.at = "lead", !.flight = n]
  <2>1. /\ caller' = [caller EXCEPT ![c] = r] /\ inMap' = n
        /\ flightOutcome' = Append(flightOutcome, "none")
    BY <1>2 DEF TakeSlot
  <2>2. n \in Nat /\ n # 0 /\ n \notin 1 .. Len(flightOutcome)
    BY <1>0
  <2>3. r \in CallerRec /\ r.at = "lead" /\ r.flight = n /\ r.token = caller[c].token
    BY <1>0, <2>2 DEF CallerRec
  <2>4. /\ flightOutcome' \in Seq({"none", "ok", "error"}) /\ Len(flightOutcome') = n
        /\ flightOutcome'[n] = "none" /\ 1 .. Len(flightOutcome) \subseteq 1 .. n /\ n \in 1 .. n
    BY <1>0, <2>1
  <2> HIDE DEF r, n
  <2>5. caller' \in [Caller -> CallerRec] /\ caller'[c] = r
        /\ \A d \in Caller : d # c => caller'[d] = caller[d]
    BY <2>1, <2>3, CallerMoves
  <2>6. StoreTypeOK'
    BY <1>0, <2>1, <2>2, <2>4, <2>5 DEF StoreTypeOK
  <2>7. TokensAreIssued' /\ EnrolmentIsGuarded'
    BY <1>0, <2>3, <2>5 DEF TokensAreIssued, EnrolmentIsGuarded
  <2>8. \A d \in Caller : caller[d].at \notin Leading
    BY <1>2 DEF FlightIsLed
  <2>9. FlightIsLed'
    BY <1>0, <2>1, <2>2, <2>3, <2>4, <2>5, <2>8 DEF FlightIsLed, Leading
  <2>10. QED BY <2>6, <2>7, <2>9
<1>3. QED BY <1>1, <1>2

\* The leader's write, its two drops, and a revocation.
LEMMA LeaderKeeps ==
  ASSUME StoreInv, NEW c \in Caller, LeaderWrites(c) \/ LeaderDrops(c) \/ LeaderPublishes(c)
  PROVE  StoreInv'
<1> USE DEF StoreInv
<1>0. /\ caller[c] \in CallerRec /\ flightOutcome \in Seq({"none", "ok", "error"})
      /\ Len(flightOutcome) \in Nat /\ inMap \in Nat
  BY DEF StoreTypeOK
<1>1. CASE LeaderWrites(c)
  <2> DEFINE w == [caller[c] EXCEPT !.at = "drop", !.wrote = TRUE]
             r == [caller[c] EXCEPT !.at = "drop"]
  <2>1. /\ caller[c].at = "lead"
        /\ \/ entry' = caller[c].token /\ caller' = [caller EXCEPT ![c] = w]
           \/ entry' = entry /\ caller' = [caller EXCEPT ![c] = r]
        /\ UNCHANGED <<loginLock, inMap, flightOutcome, issued, honoured, enrolled>>
    BY <1>1 DEF LeaderWrites, Stands, Goes
  <2>2. w \in CallerRec /\ w.at = "drop" /\ w.flight = caller[c].flight
    BY <1>0 DEF CallerRec
  <2>3. r \in CallerRec /\ r.at = "drop" /\ r.flight = caller[c].flight
    BY <1>0 DEF CallerRec
  <2>4. caller[c].token \in Nat /\ caller[c].token # 0
    BY <1>0, <2>1 DEF CallerRec, TokensAreIssued
  <2> HIDE DEF w, r
  <2>5. \E q \in CallerRec : /\ q.at = "drop" /\ q.flight = caller[c].flight
                             /\ caller' = [caller EXCEPT ![c] = q]
    BY <2>1, <2>2, <2>3
  <2>6. PICK q \in CallerRec : /\ q.at = "drop" /\ q.flight = caller[c].flight
                               /\ caller' = [caller EXCEPT ![c] = q]
    BY <2>5
  <2>7. caller' \in [Caller -> CallerRec] /\ caller'[c] = q
        /\ \A d \in Caller : d # c => caller'[d] = caller[d]
    BY <2>6, CallerMoves
  <2>8. StoreTypeOK'
    BY <2>1, <2>4, <2>7 DEF StoreTypeOK
  <2>9. TokensAreIssued' /\ EnrolmentIsGuarded'
    BY <2>1, <2>4, <2>6, <2>7 DEF TokensAreIssued, EnrolmentIsGuarded
  <2>10. FlightIsLed'
    BY <2>1, <2>6, <2>7 DEF FlightIsLed, Leading
  <2>11. QED BY <2>8, <2>9, <2>10
<1>2. CASE LeaderDrops(c)
  <2> DEFINE r == [caller[c] EXCEPT !.at = "publish"]
  <2>1. /\ caller[c].at = "drop" /\ inMap' = 0 /\ flightOutcome' = flightOutcome
        /\ caller' = [caller EXCEPT ![c] = r]
        /\ UNCHANGED <<entry, loginLock, issued, honoured, enrolled>>
    BY <1>2 DEF LeaderDrops, LeaderRemoves, Stands, Goes
  <2>2. r \in CallerRec /\ r.at = "publish" /\ r.flight = caller[c].flight
    BY <1>0 DEF CallerRec
  <2> HIDE DEF r
  <2>3. caller' \in [Caller -> CallerRec] /\ caller'[c] = r
        /\ \A d \in Caller : d # c => caller'[d] = caller[d]
    BY <2>1, <2>2, CallerMoves
  <2>4. StoreTypeOK'
    BY <2>1, <2>3 DEF StoreTypeOK
  <2>5. TokensAreIssued' /\ EnrolmentIsGuarded'
    BY <2>1, <2>2, <2>3 DEF TokensAreIssued, EnrolmentIsGuarded
  <2>6. caller[c].flight \in 1 .. Len(flightOutcome) /\ \A d \in Caller : d # c => caller[d].at \notin Leading
    BY <2>1 DEF FlightIsLed, Leading
  <2>7. FlightIsLed'
    BY <1>0, <2>1, <2>2, <2>3, <2>6 DEF FlightIsLed, Leading
  <2>8. QED BY <2>4, <2>5, <2>7
<1>3. CASE LeaderPublishes(c)
  <2> DEFINE f == caller[c].flight
             out == IF caller[c].wrote THEN "ok" ELSE "error"
  <2>1. /\ caller[c].at = "publish" /\ flightOutcome' = [flightOutcome EXCEPT ![f] = out]
        /\ caller' = [caller EXCEPT ![c] = Idle]
        /\ UNCHANGED <<entry, loginLock, issued, honoured, enrolled>>
        /\ inMap' = IF inMap = f THEN 0 ELSE inMap
    BY <1>3 DEF LeaderPublishes, Published, Stands
  <2>2. f \in 1 .. Len(flightOutcome) /\ f # inMap
    BY <2>1 DEF FlightIsLed
  <2>3. out \in {"none", "ok", "error"}
    OBVIOUS
  <2> HIDE DEF out
  <2>4. inMap' = inMap
    BY <2>1, <2>2
  <2>5. caller' \in [Caller -> CallerRec] /\ caller'[c].at = "idle"
        /\ \A d \in Caller : d # c => caller'[d] = caller[d]
    BY <2>1, CallerMoves, IdleIs
  <2>6. /\ flightOutcome' \in Seq({"none", "ok", "error"}) /\ Len(flightOutcome') = Len(flightOutcome)
        /\ \A i \in 1 .. Len(flightOutcome) : i # f => flightOutcome'[i] = flightOutcome[i]
    BY <1>0, <2>1, <2>2, <2>3
  <2> HIDE DEF f
  <2>7. StoreTypeOK'
    BY <2>1, <2>4, <2>5, <2>6 DEF StoreTypeOK
  <2>8. TokensAreIssued' /\ EnrolmentIsGuarded'
    BY <2>1, <2>5 DEF TokensAreIssued, EnrolmentIsGuarded
  <2>9. FlightIsLed'
    BY <2>1, <2>2, <2>4, <2>5, <2>6 DEF FlightIsLed, Leading
  <2>10. QED BY <2>7, <2>8, <2>9
<1>4. QED BY <1>1, <1>2, <1>3

\* A revocation takes the entry and every enrolment of it.
LEMMA RevokeKeeps == StoreInv /\ Revoke => StoreInv'
BY DEF StoreInv, StoreTypeOK, TokensAreIssued, EnrolmentIsGuarded, FlightIsLed, Revoke

\* Every step of the store keeps the invariant.
LEMMA StoreInvNext == StoreInv /\ [CredentialNext]_credentialVars => StoreInv'
<1> SUFFICES ASSUME StoreInv, [CredentialNext]_credentialVars PROVE StoreInv'
  OBVIOUS
<1>1. CASE UNCHANGED credentialVars
  BY <1>1 DEF credentialVars, StoreInv, StoreTypeOK, TokensAreIssued, EnrolmentIsGuarded, FlightIsLed
<1>2. CASE Revoke
  BY <1>2, RevokeKeeps
<1>3. ASSUME NEW c \in Caller,
             IssueLogin(c) \/ LoginCheck(c) \/ LoginRefused(c) \/ LoginWrite(c)
      PROVE  StoreInv'
  BY <1>3, LoginKeeps
<1>4. ASSUME NEW c \in Caller,
             \/ ReadStored(c) \/ ExchangeRefused(c) \/ ExchangeKeeps(c) \/ ExchangeRotates(c)
             \/ JoinEnds(c) \/ JoinReturns(c)
      PROVE  StoreInv'
  BY <1>4, RefreshKeeps
<1>5. ASSUME NEW c \in Caller, TakeSlot(c) PROVE StoreInv'
  BY <1>5, SlotKeeps
<1>6. ASSUME NEW c \in Caller, LeaderWrites(c) \/ LeaderDrops(c) \/ LeaderPublishes(c)
      PROVE  StoreInv'
  BY <1>6, LeaderKeeps
<1>7. QED BY <1>1, <1>2, <1>3, <1>4, <1>5, <1>6 DEF CredentialNext

\* The invariant says what the store promises.
LEMMA StoreInvHolds == StoreInv => OneEnrolment /\ NoSpentFlight
<1> SUFFICES ASSUME StoreInv PROVE OneEnrolment /\ NoSpentFlight
  OBVIOUS
<1>1. OneEnrolment
  <2>1. CASE enrolled = {}
    BY <2>1, FS_EmptySet DEF OneEnrolment
  <2>2. ASSUME NEW t, enrolled = {t} PROVE OneEnrolment
    <3>1. Cardinality({t}) = 1
      BY FS_Singleton
    <3>2. QED BY <2>2, <3>1 DEF OneEnrolment
  <2>3. QED BY <2>1, <2>2 DEF StoreInv, EnrolmentIsGuarded
<1>2. NoSpentFlight
  BY DEF NoSpentFlight, StoreInv, FlightIsLed, Leading
<1>3. QED BY <1>1, <1>2

-----------------------------------------------------------------------------
(***************************************************************************)
(* The login sessions.  A browser session has no deadline, and whatever is *)
(* put back has the kind and the deadline of what was pending.             *)
(***************************************************************************)
SessionRec == [kind : {"none", "openai", "anthropic", "gitlab", "devin", "device", "copilot", "cursor"},
               state : Nat, deadline : Nat, next : Nat, interval : Nat, attempts : Nat, errors : Nat]

LoginsTypeOK == clock \in Nat /\ begun \in Nat /\ pending \in SessionRec
BrowserHasNoDeadline == pending.kind \in Browser => pending.deadline = 0

LoginsInv == LoginsTypeOK /\ BrowserHasNoDeadline /\ EnrolledByLiveSession /\ EnrolledInWindow

\* What a session keeps however it is put back.
SameLogin(p, q) == p.kind = q.kind /\ p.state = q.state /\ p.deadline = q.deadline

\* No session is a session, of no kind.
LEMMA NoSessionIs ==
  NoSession \in SessionRec /\ NoSession.kind = "none" /\ NoSession.kind \notin Browser
BY DEF NoSession, SessionRec, Browser

\* A begun session: a browser's has no deadline.
LEMMA NewSessionIs ==
  ASSUME NEW kind \in Kinds, NEW state \in Nat, clock \in Nat
  PROVE  /\ NewSession(kind, state) \in SessionRec
         /\ NewSession(kind, state).kind \in Browser => NewSession(kind, state).deadline = 0
<1>0. Window \in Nat /\ Interval \in Nat /\ clock + Window \in Nat /\ clock + Interval \in Nat
  BY LoginsAssumption
<1>1. CASE kind \in Browser
  BY <1>1 DEF NewSession, BrowserSession, NoSession, SessionRec, Browser
<1>2. CASE kind = "device"
  BY <1>0, <1>2 DEF NewSession, DeviceSession, NoSession, SessionRec, Browser
<1>3. CASE kind = "copilot"
  BY <1>0, <1>3 DEF NewSession, CopilotSession, NoSession, SessionRec, Browser
<1>4. CASE kind = "cursor"
  BY <1>0, <1>4 DEF NewSession, CursorSession, NoSession, SessionRec, Browser
<1>5. QED BY <1>1, <1>2, <1>3, <1>4, LoginsAssumption DEF Browser

\* A poll that is to come again is the same login, with a later turn.
LEMMA ScheduledIs ==
  ASSUME NEW p \in SessionRec, NEW at \in Nat
  PROVE  Scheduled(p, at) \in SessionRec /\ SameLogin(Scheduled(p, at), p)
<1>1. p.interval \in Nat /\ at + p.interval \in Nat
  BY DEF SessionRec
<1>2. QED BY <1>1 DEF Scheduled, SessionRec, SameLogin

\* A login told to slow down is the same login.
LEMMA SlowedDownIs ==
  ASSUME NEW p \in SessionRec
  PROVE  SlowedDown(p) \in SessionRec /\ SameLogin(SlowedDown(p), p)
<1>1. p.interval \in Nat /\ SLOW_DOWN \in Nat /\ MAX_INTERVAL \in Nat
  BY LoginsAssumption DEF SessionRec
<1>2. Least(p.interval + SLOW_DOWN, MAX_INTERVAL) \in Nat
  BY <1>1 DEF Least
<1>3. QED BY <1>2 DEF SlowedDown, SessionRec, SameLogin

\* A counted attempt, and counted failures, are of the same login.
LEMMA CountedIs ==
  ASSUME NEW p \in SessionRec, NEW n \in Nat
  PROVE  /\ [p EXCEPT !.attempts = n] \in SessionRec /\ SameLogin([p EXCEPT !.attempts = n], p)
         /\ [p EXCEPT !.errors = n] \in SessionRec /\ SameLogin([p EXCEPT !.errors = n], p)
BY DEF SessionRec, SameLogin

\* A poll that found no peer leaves the same login.
LEMMA TransportFailedIs ==
  ASSUME NEW p \in SessionRec, NEW at \in Nat
  PROVE  TransportFailed(p, at) \in SessionRec /\ SameLogin(TransportFailed(p, at), p)
<1> DEFINE q == [p EXCEPT !.errors = p.errors + 1]
<1>1. p.errors + 1 \in Nat
  BY DEF SessionRec
<1>2. q \in SessionRec /\ SameLogin(q, p)
  BY <1>1, CountedIs
<1>3. Scheduled(q, at) \in SessionRec /\ SameLogin(Scheduled(q, at), q)
  <2> HIDE DEF q
  <2>1. QED BY <1>2, ScheduledIs
<1>4. TransportFailed(p, at) = IF q.errors >= TRANSPORT_ERROR_LIMIT THEN q ELSE Scheduled(q, at)
  BY DEF TransportFailed
<1> HIDE DEF q
<1>5. QED BY <1>2, <1>3, <1>4 DEF SameLogin

\* Putting the same login back changes no enrolment and no deadline.
LEMMA PutBackKeeps ==
  ASSUME LoginsInv, NEW q \in SessionRec, SameLogin(q, pending), PutBack(q),
         clock' \in Nat, begun' \in Nat
  PROVE  LoginsInv'
BY DEF LoginsInv, LoginsTypeOK, BrowserHasNoDeadline, EnrolledByLiveSession, EnrolledInWindow,
       SameLogin, PutBack

\* An enrolment of the pending session, read before its deadline if it has one.
LEMMA EnrolsKeeps ==
  ASSUME LoginsInv, NEW s, NEW read, NEW deadline, s = pending.state,
         deadline # 0 => read < deadline, pending' = NoSession,
         enrolment' = [session |-> s, live |-> pending.state, read |-> read, deadline |-> deadline],
         clock' \in Nat, begun' \in Nat
  PROVE  LoginsInv'
<1>1. LoginsTypeOK' /\ BrowserHasNoDeadline'
  BY NoSessionIs DEF LoginsTypeOK, BrowserHasNoDeadline
<1>2. EnrolledByLiveSession' /\ EnrolledInWindow'
  BY DEF EnrolledByLiveSession, EnrolledInWindow
<1>3. QED BY <1>1, <1>2 DEF LoginsInv

\* Whatever a session's redirect holds, its state is the session's: a callback of
\* the pending state is the pending session's.
LEMMA RedirectIsOfItsSession ==
  ASSUME NEW s, NEW state, NEW callback \in Redirects(s), OfState(callback, state)
  PROVE  s = state
<1> DEFINE P == Places(callback, "state")
           least == CHOOSE i \in P : \A j \in P : i <= j
<1>1. /\ DOMAIN callback \subseteq Nat /\ P \subseteq DOMAIN callback /\ P # {}
      /\ \A i \in P : callback[i].value = s
  BY DEF Redirects, Param, Places, OfState
<1>2. \E i \in P : \A j \in P : i <= j
  BY <1>1, LeastNat
<1>3. least \in P
  BY <1>2
<1>4. FirstValue(callback, "state") = callback[least].value
  BY DEF FirstValue
<1> HIDE DEF P, least
<1>5. QED BY <1>1, <1>3, <1>4 DEF OfState

\* A browser's completion: only the pending session's own redirect enrols.
LEMMA CompleteBrowserKeeps ==
  ASSUME LoginsInv, NEW s \in 1 .. MaxSessions, CompleteBrowser(s)
  PROVE  LoginsInv'
<1>0. /\ clock \in Nat /\ begun \in Nat /\ pending \in SessionRec /\ pending.deadline = 0
      /\ clock' = clock /\ begun' = begun
  BY DEF LoginsInv, LoginsTypeOK, BrowserHasNoDeadline, CompleteBrowser
<1>1. PICK callback \in Redirects(s) :
        \/ CallbackTaken(pending.kind, callback, pending.state) /\ Enrols(s, clock)
        \/ PutBack(pending)
  BY DEF CompleteBrowser
<1>2. CASE CallbackTaken(pending.kind, callback, pending.state) /\ Enrols(s, clock)
  <2>1. OfState(callback, pending.state)
    BY <1>2 DEF CallbackTaken, UniqueCallback, FirstCallback
  <2>2. s = pending.state
    BY <2>1, RedirectIsOfItsSession
  <2>3. /\ pending' = NoSession
        /\ enrolment' = [session |-> s, live |-> pending.state, read |-> clock, deadline |-> pending.deadline]
    BY <1>2 DEF Enrols
  <2>4. QED BY <1>0, <2>2, <2>3, EnrolsKeeps
<1>3. CASE PutBack(pending)
  <2>1. SameLogin(pending, pending)
    BY DEF SameLogin
  <2>2. QED BY <1>0, <1>3, <2>1, PutBackKeeps
<1>4. QED BY <1>1, <1>2, <1>3

\* A poll of any kind: it puts the login back, or enrols the session it was for,
\* on an answer read before the deadline.
LEMMA CompletePolledKeeps ==
  ASSUME LoginsInv, CompletePolled
  PROVE  LoginsInv'
<1>0. PICK read \in clock .. MaxTime, done \in clock .. MaxTime :
        /\ clock' = done /\ begun' = begun
        /\ AdvanceDevice(read, done) \/ AdvanceCopilot(read, done) \/ AdvanceCursor(read, done)
  BY DEF CompletePolled
<1>1. /\ clock \in Nat /\ begun \in Nat /\ pending \in SessionRec /\ read \in Nat /\ done \in Nat
      /\ MaxTime \in Nat /\ clock' \in Nat /\ begun' \in Nat
  BY <1>0, LoginsAssumption DEF LoginsInv, LoginsTypeOK
<1>2. SameLogin(pending, pending)
  BY DEF SameLogin
<1>3. SlowedDown(pending) \in SessionRec /\ SameLogin(SlowedDown(pending), pending)
  BY <1>1, SlowedDownIs
<1>4. Scheduled(pending, read) \in SessionRec /\ SameLogin(Scheduled(pending, read), pending)
  BY <1>1, ScheduledIs
<1>5. Scheduled(SlowedDown(pending), read) \in SessionRec
      /\ SameLogin(Scheduled(SlowedDown(pending), read), pending)
  BY <1>1, <1>3, ScheduledIs DEF SameLogin
<1>6. ASSUME AdvanceDevice(read, done) \/ AdvanceCopilot(read, done) PROVE LoginsInv'
  <2>1. \/ \E q \in SessionRec : SameLogin(q, pending) /\ PutBack(q)
        \/ ReadInTime(read) /\ Enrols(pending.state, read)
    BY <1>1, <1>2, <1>4, <1>5, <1>6 DEF AdvanceDevice, AdvanceCopilot
  <2>2. CASE ReadInTime(read) /\ Enrols(pending.state, read)
    BY <1>1, <2>2, EnrolsKeeps DEF ReadInTime, Enrols
  <2>3. QED BY <1>1, <2>1, <2>2, PutBackKeeps
<1>7. ASSUME AdvanceCursor(read, done) PROVE LoginsInv'
  <2> DEFINE session == Attempted(pending)
             slow == [SlowedDown(session) EXCEPT !.errors = 0]
  <2>1. session \in SessionRec /\ SameLogin(session, pending)
    <3>1. pending.attempts + 1 \in Nat
      BY <1>1 DEF SessionRec
    <3>2. QED BY <1>1, <3>1, CountedIs DEF Attempted
  <2>2. \/ PutBack(TransportFailed(session, read)) \/ PutBack(Scheduled(slow, read)) \/ PutBack(session)
        \/ /\ pending' = NoSession
           /\ enrolment' = [session |-> pending.state, live |-> pending.state, read |-> read, deadline |-> 0]
    BY <1>7 DEF AdvanceCursor
  <2>3. slow \in SessionRec /\ SameLogin(slow, session)
    <3>1. SlowedDown(session) \in SessionRec /\ SameLogin(SlowedDown(session), session)
      BY <2>1, SlowedDownIs
    <3>2. QED BY <3>1, CountedIs DEF SameLogin
  <2> HIDE DEF session, slow
  <2>4. Scheduled(slow, read) \in SessionRec /\ SameLogin(Scheduled(slow, read), pending)
    BY <1>1, <2>1, <2>3, ScheduledIs DEF SameLogin
  <2>5. TransportFailed(session, read) \in SessionRec /\ SameLogin(TransportFailed(session, read), pending)
    BY <1>1, <2>1, TransportFailedIs DEF SameLogin
  <2>6. CASE PutBack(TransportFailed(session, read)) \/ PutBack(Scheduled(slow, read)) \/ PutBack(session)
    BY <1>1, <2>1, <2>4, <2>5, <2>6, PutBackKeeps
  <2>7. CASE /\ pending' = NoSession
             /\ enrolment' = [session |-> pending.state, live |-> pending.state, read |-> read, deadline |-> 0]
    BY <1>1, <2>7, EnrolsKeeps
  <2>8. QED BY <2>2, <2>6, <2>7
<1>8. QED BY <1>0, <1>6, <1>7

\* Every step of the login sessions keeps the invariant.
LEMMA LoginsInvNext == LoginsInv /\ [LoginsNext]_loginVars => LoginsInv'
<1> SUFFICES ASSUME LoginsInv, [LoginsNext]_loginVars PROVE LoginsInv'
  OBVIOUS
<1>0. clock \in Nat /\ begun \in Nat /\ pending \in SessionRec
  BY DEF LoginsInv, LoginsTypeOK
<1>1. CASE UNCHANGED loginVars
  BY <1>1 DEF loginVars, LoginsInv, LoginsTypeOK, BrowserHasNoDeadline, EnrolledByLiveSession, EnrolledInWindow
<1>2. ASSUME NEW kind \in Kinds, AuthLoginBegin(kind) PROVE LoginsInv'
  <2>1. begun + 1 \in Nat
    BY <1>0
  <2>2. NewSession(kind, begun + 1) \in SessionRec
        /\ (NewSession(kind, begun + 1).kind \in Browser => NewSession(kind, begun + 1).deadline = 0)
    BY <1>0, <2>1, NewSessionIs
  <2>3. begun' = begun + 1 /\ pending' = NewSession(kind, begun + 1) /\ clock' = clock /\ enrolment' = enrolment
    BY <1>2 DEF AuthLoginBegin
  <2>4. QED BY <1>0, <2>1, <2>2, <2>3
        DEF LoginsInv, LoginsTypeOK, BrowserHasNoDeadline, EnrolledByLiveSession, EnrolledInWindow
<1>3. CASE AuthLoginCancel
  BY <1>0, <1>3, NoSessionIs DEF AuthLoginCancel, LoginsInv, LoginsTypeOK, BrowserHasNoDeadline,
     EnrolledByLiveSession, EnrolledInWindow
<1>4. CASE Passes
  BY <1>0, <1>4 DEF Passes, LoginsInv, LoginsTypeOK, BrowserHasNoDeadline, EnrolledByLiveSession, EnrolledInWindow
<1>5. CASE Forget
  BY <1>0, <1>5 DEF Forget, NoEnrolment, LoginsInv, LoginsTypeOK, BrowserHasNoDeadline, EnrolledByLiveSession,
     EnrolledInWindow
<1>6. CASE CompletePolled
  BY <1>6, CompletePolledKeeps
<1>7. ASSUME NEW s \in 1 .. MaxSessions, Approve(s) PROVE LoginsInv'
  BY <1>0, <1>7 DEF Approve, LoginsInv, LoginsTypeOK, BrowserHasNoDeadline, EnrolledByLiveSession, EnrolledInWindow
<1>8. ASSUME NEW s \in 1 .. MaxSessions, CompleteBrowser(s) PROVE LoginsInv'
  BY <1>8, CompleteBrowserKeeps
<1>9. QED BY <1>1, <1>2, <1>3, <1>4, <1>5, <1>6, <1>7, <1>8 DEF LoginsNext

\* No session is pending at first, and nothing is enrolled.
LEMMA LoginsInvInit == LoginsInit => LoginsInv
BY NoSessionIs DEF LoginsInit, LoginsInv, LoginsTypeOK, BrowserHasNoDeadline, EnrolledByLiveSession,
   EnrolledInWindow, NoEnrolment

\* However enrolments, refreshes and revocations of one scope overlap, one
\* enrolment writes and no caller joins a flight that is over; and whatever
\* redirects and late answers the login sessions get, only the pending session
\* enrols, inside its window (login and refresh of KeyringBackend and
\* FlightedStore, complete_login and advance of the login modules).
THEOREM CredentialsSafe == CredentialSpec /\ LoginsSpec => []CredentialsAreCurrent
<1>1. CredentialSpec => []StoreInv
  BY StoreInvInit, StoreInvNext, PTL DEF CredentialSpec
<1>2. LoginsSpec => []LoginsInv
  BY LoginsInvInit, LoginsInvNext, PTL DEF LoginsSpec
<1>3. StoreInv /\ LoginsInv => CredentialsAreCurrent
  BY StoreInvHolds DEF LoginsInv, CredentialsAreCurrent
<1>4. QED BY <1>1, <1>2, <1>3, PTL

-----------------------------------------------------------------------------
(***************************************************************************)
(* What the adapters replay.  An artifact in a lineage is owned by it, and *)
(* nothing kept or replayed is older than the lineage's last cut.          *)
(***************************************************************************)
LineageItem == [kind : {"text", "reasoning"}, blob : Blob \cup {"none"}, minted : Nat]
ReplaySet == [model : ModelId \cup {"none"}, items : Seq(LineageItem)]
LineageCall == [at : {"idle", "posted", "stream", "ended"}, key : Lineage \cup {NoOwner},
                model : ModelId \cup {"none"}, replay : Seq(LineageItem), drop : BOOLEAN,
                posts : Nat, retries : Int, output : Seq(LineageItem)]

LineagesTypeOK ==
    /\ lineages \in [Lineage -> ReplaySet]
    /\ owner \in [Blob -> Lineage \cup {NoOwner}]
    /\ flight \in LineageCall
    /\ sends \in Nat
    /\ kept \in [Lineage -> Seq(LineageItem)]
    /\ cutAt \in [Lineage -> Nat]

\* An artifact kept in a lineage is owned by that lineage.
OwnersStand ==
    ~ Messages => \A k \in Lineage :
        \A b \in Blobs(lineages[k].items) : b \in Blob /\ owner[b] = k

\* Nothing kept was minted before the lineage's last cut.
CutsBehind ==
    \A k \in Lineage :
        /\ cutAt[k] <= sends
        /\ Messages => \A i \in ToSet(lineages[k].items) : i.minted >= cutAt[k]

\* The call in progress: its items are its own, and a second post replays nothing.
FlightStands ==
    /\ flight.at \in {"posted", "stream"} => flight.key \in Lineage /\ flight.posts \in {1, 2}
    /\ flight.at = "posted" => /\ flight.retries = 0 /\ flight.output = <<>>
                               /\ flight.posts = 1 \/ flight.replay = <<>>
    /\ flight.at = "stream" => \A i \in ToSet(flight.output) : i.minted = sends
    /\ flight.replay # <<>> => flight.key \in Lineage

LineagesInv ==
    /\ LineagesTypeOK /\ OwnersStand /\ CutsBehind /\ FlightStands
    /\ TurnsAreWhole /\ StaleNeverReplayed /\ RetriesReported

\* The items of a sequence, as what it grows from and by.
LEMMA ToSetIs ==
  ASSUME NEW S
  PROVE  /\ ToSet(<<>>) = {}
         /\ \A s, t \in Seq(S) : s \o t \in Seq(S) /\ ToSet(s \o t) = ToSet(s) \cup ToSet(t)
         /\ \A s \in Seq(S), x \in S : Append(s, x) \in Seq(S) /\ ToSet(Append(s, x)) = ToSet(s) \cup {x}
         /\ \A s \in Seq(S) : \A x \in ToSet(s) : x \in S
<1>1. ToSet(<<>>) = {}
  BY DEF ToSet
<1>2. ASSUME NEW s \in Seq(S), NEW t \in Seq(S)
      PROVE  s \o t \in Seq(S) /\ ToSet(s \o t) = ToSet(s) \cup ToSet(t)
  <2>1. /\ Len(s) \in Nat /\ DOMAIN s = 1 .. Len(s) /\ Len(t) \in Nat /\ DOMAIN t = 1 .. Len(t)
        /\ s \o t \in Seq(S) /\ Len(s \o t) = Len(s) + Len(t) /\ DOMAIN (s \o t) = 1 .. Len(s) + Len(t)
    OBVIOUS
  <2>2. \A i \in 1 .. Len(s) + Len(t) : (s \o t)[i] = IF i <= Len(s) THEN s[i] ELSE t[i - Len(s)]
    OBVIOUS
  <2>3. ASSUME NEW x \in ToSet(s) PROVE x \in ToSet(s \o t)
    <3>1. PICK i \in 1 .. Len(s) : x = s[i]
      BY <2>1 DEF ToSet
    <3>2. i \in DOMAIN (s \o t) /\ (s \o t)[i] = x
      BY <2>1, <2>2, <3>1
    <3>3. QED BY <3>2 DEF ToSet
  <2>4. ASSUME NEW x \in ToSet(t) PROVE x \in ToSet(s \o t)
    <3>1. PICK i \in 1 .. Len(t) : x = t[i]
      BY <2>1 DEF ToSet
    <3>2. Len(s) + i \in DOMAIN (s \o t) /\ (s \o t)[Len(s) + i] = x
      BY <2>1, <2>2, <3>1
    <3>3. QED BY <3>2 DEF ToSet
  <2>5. ASSUME NEW x \in ToSet(s \o t) PROVE x \in ToSet(s) \cup ToSet(t)
    <3>1. PICK i \in 1 .. Len(s) + Len(t) : x = (s \o t)[i]
      BY <2>1 DEF ToSet
    <3>2. CASE i <= Len(s)
      <4>1. i \in DOMAIN s /\ x = s[i]
        BY <2>1, <2>2, <3>1, <3>2
      <4>2. QED BY <4>1 DEF ToSet
    <3>3. CASE ~ (i <= Len(s))
      <4>1. i - Len(s) \in DOMAIN t /\ x = t[i - Len(s)]
        BY <2>1, <2>2, <3>1, <3>3
      <4>2. QED BY <4>1 DEF ToSet
    <3>4. QED BY <3>2, <3>3
  <2>6. QED BY <2>1, <2>3, <2>4, <2>5
<1>3. ASSUME NEW s \in Seq(S), NEW x \in S
      PROVE  Append(s, x) \in Seq(S) /\ ToSet(Append(s, x)) = ToSet(s) \cup {x}
  <2>1. /\ Len(s) \in Nat /\ DOMAIN s = 1 .. Len(s) /\ Append(s, x) \in Seq(S)
        /\ DOMAIN Append(s, x) = 1 .. Len(s) + 1
        /\ \A i \in 1 .. Len(s) : Append(s, x)[i] = s[i]
        /\ Append(s, x)[Len(s) + 1] = x
    OBVIOUS
  <2>2. ToSet(Append(s, x)) = {Append(s, x)[i] : i \in 1 .. Len(s) + 1}
    BY <2>1 DEF ToSet
  <2>3. ToSet(s) = {s[i] : i \in 1 .. Len(s)}
    BY <2>1 DEF ToSet
  <2>4. \A i \in 1 .. Len(s) + 1 : i \in 1 .. Len(s) \/ i = Len(s) + 1
    BY <2>1
  <2>5. \A i \in 1 .. Len(s) : i \in 1 .. Len(s) + 1
    BY <2>1
  <2>6. Len(s) + 1 \in 1 .. Len(s) + 1
    BY <2>1
  <2>7. QED BY <2>1, <2>2, <2>3, <2>4, <2>5, <2>6
<1>4. \A s \in Seq(S) : \A x \in ToSet(s) : x \in S
  BY DEF ToSet
<1>5. QED BY <1>1, <1>2, <1>3, <1>4

\* The scan of OfKind, one item at a time.
KindStep(F, items, kind, n) ==
    IF n = 0 THEN <<>>
    ELSE IF items[n].kind = kind THEN Append(F[n - 1], items[n]) ELSE F[n - 1]

KindScan(items, kind) == CHOOSE F : F = [n \in 0 .. Len(items) |-> KindStep(F, items, kind, n)]

LEMMA OfKindIsScan == \A items, kind : OfKind(items, kind) = KindScan(items, kind)[Len(items)]
BY DEF OfKind, KindScan, KindStep

\* A selection by kind is a sequence of the items it selects from.
LEMMA OfKindIs ==
  ASSUME NEW S, NEW items \in Seq(S), NEW kind
  PROVE  OfKind(items, kind) \in Seq(S) /\ ToSet(OfKind(items, kind)) \subseteq ToSet(items)
<1> DEFINE N == Len(items)
<1>0. N \in Nat /\ DOMAIN items = 1 .. N
  OBVIOUS
<1> DEFINE G == {k \in 0 .. N : \E F : F = [n \in 0 .. k |-> KindStep(F, items, kind, n)]}
<1>1. 0 \in G
  <2> DEFINE F0 == [n \in 0 .. 0 |-> <<>>]
  <2>1. F0 = [n \in 0 .. 0 |-> KindStep(F0, items, kind, n)]
    BY DEF KindStep
  <2>2. 0 \in 0 .. N
    BY <1>0
  <2> HIDE DEF F0
  <2>3. QED BY <2>1, <2>2
<1> HIDE DEF N
<1>2. ASSUME NEW k \in 0 .. N, k # N, k \in G PROVE k + 1 \in G
  <2>1. PICK F : F = [n \in 0 .. k |-> KindStep(F, items, kind, n)]
    BY <1>2
  <2> DEFINE H == [n \in 0 .. k + 1 |-> IF n <= k THEN F[n] ELSE KindStep(F, items, kind, n)]
  <2>2. \A n \in 0 .. k : H[n] = F[n]
    BY <1>0
  <2>3. ASSUME NEW n \in 0 .. k + 1 PROVE H[n] = KindStep(H, items, kind, n)
    <3>1. n = 0 \/ (n - 1 \in 0 .. k /\ H[n - 1] = F[n - 1])
      BY <1>0, <2>2
    <3>2. KindStep(H, items, kind, n) = KindStep(F, items, kind, n)
      BY <3>1 DEF KindStep
    <3>3. CASE n <= k
      <4>1. n \in 0 .. k
        BY <1>0, <3>3
      <4>2. F[n] = KindStep(F, items, kind, n)
        BY <2>1, <4>1
      <4>3. QED BY <2>2, <3>2, <4>1, <4>2
    <3>4. CASE ~ (n <= k)
      BY <3>2, <3>4
    <3>5. QED BY <3>3, <3>4
  <2>4. H = [n \in 0 .. k + 1 |-> KindStep(H, items, kind, n)]
    BY <2>3
  <2>5. k + 1 \in 0 .. N
    BY <1>0, <1>2
  <2> HIDE DEF H
  <2>6. \E X : X = [n \in 0 .. k + 1 |-> KindStep(X, items, kind, n)]
    BY <2>4
  <2>7. QED BY <2>5, <2>6
<1>3. N \in 0 .. N
  BY <1>0
<1> HIDE DEF G
<1>4. N \in G
  BY <1>0, <1>1, <1>2, <1>3, IntervalInduction
<1>5. \E F : F = [n \in 0 .. Len(items) |-> KindStep(F, items, kind, n)]
  BY <1>4 DEF G, N
<1> DEFINE K == KindScan(items, kind)
<1>6. K = [n \in 0 .. Len(items) |-> KindStep(K, items, kind, n)]
  BY <1>5, Zenon DEF KindScan
<1>7. OfKind(items, kind) = K[Len(items)]
  BY OfKindIsScan
<1> HIDE DEF K
<1> DEFINE J == {n \in 0 .. N : K[n] \in Seq(S) /\ ToSet(K[n]) \subseteq ToSet(items)}
<1>8. 0 \in J
  <2>1. 0 \in 0 .. N /\ K[0] = <<>>
    BY <1>0, <1>6 DEF KindStep, N
  <2>2. <<>> \in Seq(S) /\ ToSet(<<>>) = {}
    BY ToSetIs
  <2>3. K[0] \in Seq(S) /\ ToSet(K[0]) \subseteq ToSet(items)
    BY <2>1, <2>2
  <2>4. QED BY <2>1, <2>3
<1>9. ASSUME NEW k \in 0 .. N, k # N, k \in J PROVE k + 1 \in J
  <2>1. k + 1 \in 1 .. N /\ k + 1 \in 0 .. N /\ k + 1 # 0 /\ (k + 1) - 1 = k
    BY <1>0, <1>9
  <2>2. K[k + 1] = KindStep(K, items, kind, k + 1)
    BY <1>6, <2>1 DEF N
  <2>3. K[k + 1] = IF items[k + 1].kind = kind THEN Append(K[k], items[k + 1]) ELSE K[k]
    BY <2>1, <2>2 DEF KindStep
  <2>4. items[k + 1] \in S /\ items[k + 1] \in ToSet(items)
    BY <1>0, <2>1 DEF ToSet
  <2>5. K[k] \in Seq(S) /\ ToSet(K[k]) \subseteq ToSet(items)
    BY <1>9
  <2>6. Append(K[k], items[k + 1]) \in Seq(S)
        /\ ToSet(Append(K[k], items[k + 1])) = ToSet(K[k]) \cup {items[k + 1]}
    BY <2>4, <2>5, ToSetIs
  <2>7. K[k + 1] \in Seq(S) /\ ToSet(K[k + 1]) \subseteq ToSet(items)
    <3>1. CASE items[k + 1].kind = kind
      <4>1. K[k + 1] = Append(K[k], items[k + 1])
        BY <2>3, <3>1
      <4>2. ToSet(K[k]) \cup {items[k + 1]} \subseteq ToSet(items)
        BY <2>4, <2>5
      <4>3. QED BY <2>6, <4>1, <4>2, Zenon
    <3>2. CASE items[k + 1].kind # kind
      BY <2>3, <2>5, <3>2
    <3>3. QED BY <3>1, <3>2
  <2>8. QED BY <2>1, <2>7
<1> HIDE DEF J
<1>10. N \in J
  BY <1>0, <1>3, <1>8, <1>9, IntervalInduction
<1>11. QED BY <1>7, <1>10 DEF J, N

\* What the two selections of a reply are.
LEMMA SelectionsAre ==
  ASSUME NEW S, flight.output \in Seq(S)
  PROVE  /\ Reasoning(flight.output) \in Seq(S)
         /\ ToSet(Reasoning(flight.output)) \subseteq ToSet(flight.output)
         /\ Replayed \in Seq(S)
         /\ ToSet(Replayed) \subseteq ToSet(flight.output)
BY OfKindIs DEF Reasoning, Replayed

\* What is owned and kept follows the items.
LEMMA BlobsAre ==
  \A s, t : ToSet(s) \subseteq ToSet(t) => Blobs(s) \subseteq Blobs(t)
BY DEF Blobs

\* The fields of a call, without its record.
LEMMA CallIs ==
  ASSUME flight \in LineageCall
  PROVE  /\ flight.at \in {"idle", "posted", "stream", "ended"} /\ flight.key \in Lineage \cup {NoOwner}
         /\ flight.model \in ModelId \cup {"none"} /\ flight.replay \in Seq(LineageItem)
         /\ flight.drop \in BOOLEAN /\ flight.posts \in Nat /\ flight.retries \in Int
         /\ flight.output \in Seq(LineageItem)
         /\ flight = [at |-> flight.at, key |-> flight.key, model |-> flight.model,
                      replay |-> flight.replay, drop |-> flight.drop, posts |-> flight.posts,
                      retries |-> flight.retries, output |-> flight.output]
BY DEF LineageCall

\* A call from its fields.
LEMMA CallOf ==
  \A at \in {"idle", "posted", "stream", "ended"}, key \in Lineage \cup {NoOwner},
     model \in ModelId \cup {"none"}, replay \in Seq(LineageItem), drop \in BOOLEAN,
     posts \in Nat, retries \in Int, output \in Seq(LineageItem) :
        [at |-> at, key |-> key, model |-> model, replay |-> replay, drop |-> drop, posts |-> posts,
         retries |-> retries, output |-> output] \in LineageCall
BY DEF LineageCall

\* A call that ends as it came: nothing kept moves.
LEMMA CallOverKeeps ==
  ASSUME LineagesInv, flight.at \in {"posted", "stream"}, flight' = CallOver
  PROVE  /\ flight' \in LineageCall /\ FlightStands' /\ RetriesReported'
         /\ flight'.replay = flight.replay /\ flight'.key = flight.key
<1>1. flight \in LineageCall /\ flight.posts \in {1, 2} /\ (flight.replay # <<>> => flight.key \in Lineage)
  BY DEF LineagesInv, LineagesTypeOK, FlightStands
<1>2. flight' = [flight EXCEPT !.at = "ended", !.retries = flight.posts - 1]
  BY DEF CallOver
<1>3. /\ flight' \in LineageCall /\ flight'.at = "ended" /\ flight'.retries = flight.posts - 1
      /\ flight'.posts = flight.posts /\ flight'.replay = flight.replay /\ flight'.key = flight.key
  <2>1. flight' = [at |-> "ended", key |-> flight.key, model |-> flight.model, replay |-> flight.replay,
                   drop |-> flight.drop, posts |-> flight.posts, retries |-> flight.posts - 1,
                   output |-> flight.output]
    BY <1>1, <1>2, CallIs
  <2>2. flight' \in LineageCall
    <3>1. /\ flight.key \in Lineage \cup {NoOwner} /\ flight.model \in ModelId \cup {"none"}
          /\ flight.replay \in Seq(LineageItem) /\ flight.drop \in BOOLEAN /\ flight.posts \in Nat
          /\ flight.output \in Seq(LineageItem) /\ flight.posts - 1 \in Int
          /\ "ended" \in {"idle", "posted", "stream", "ended"}
      BY <1>1, CallIs
    <3>2. \A back \in Int :
             [at |-> "ended", key |-> flight.key, model |-> flight.model, replay |-> flight.replay,
              drop |-> flight.drop, posts |-> flight.posts, retries |-> back,
              output |-> flight.output] \in LineageCall
      BY <3>1, CallOf, Zenon
    <3>3. QED BY <2>1, <3>1, <3>2
  <2>3. QED BY <2>1, <2>2
<1>4. QED BY <1>1, <1>3 DEF FlightStands, RetriesReported

\* The kept sets, when only the call moves.
LEMMA KeptKeeps ==
  ASSUME LineagesInv, UNCHANGED <<wire, lineages, owner, sends, kept, cutAt>>
  PROVE  OwnersStand' /\ CutsBehind' /\ TurnsAreWhole'
<1> USE DEF LineagesInv
<1>1. Messages' = Messages
  BY DEF Messages
<1>2. OwnersStand'
  BY <1>1 DEF OwnersStand
<1>3. CutsBehind'
  BY <1>1 DEF CutsBehind
<1>4. TurnsAreWhole'
  BY <1>1 DEF TurnsAreWhole
<1>5. QED BY <1>2, <1>3, <1>4

\* The next call leaves the stale behind: it replays what is kept, or nothing,
\* and a lineage it cuts keeps nothing older.
LEMMA SendKeeps ==
  ASSUME LineagesInv, NEW k \in Lineage, NEW model \in ModelId, NEW mutated \in BOOLEAN,
         Send(k, model, mutated)
  PROVE  LineagesInv'
<1> USE DEF LineagesInv
<1> DEFINE bound == IF Messages THEN Binding(k, model, mutated) ELSE RequestBody(k)
           call == [Landed EXCEPT !.key = k, !.model = model, !.replay = bound.replay, !.drop = bound.drop]
           cut == mutated \/ lineages[k].model \notin {model, "none"}
<1>1. /\ sends' = sends + 1 /\ lineages' = [lineages EXCEPT ![k] = bound.set]
      /\ flight' = [call EXCEPT !.at = "posted", !.posts = 1] \/ flight' = [call EXCEPT !.at = "ended"]
      /\ cutAt' = IF cut THEN [cutAt EXCEPT ![k] = sends'] ELSE cutAt
      /\ wire' = wire /\ owner' = owner /\ kept' = kept
  BY DEF Send
<1>2. /\ lineages \in [Lineage -> ReplaySet] /\ lineages[k] \in ReplaySet /\ lineages[k].items \in Seq(LineageItem)
      /\ sends \in Nat /\ cutAt \in [Lineage -> Nat] /\ kept \in [Lineage -> Seq(LineageItem)]
  BY DEF LineagesTypeOK, ReplaySet
<1>3. NoSet \in ReplaySet /\ NoSet.items = <<>> /\ <<>> \in Seq(LineageItem)
  BY DEF NoSet, ReplaySet
<1>4. /\ bound.set \in ReplaySet /\ bound.replay \in Seq(LineageItem) /\ bound.drop \in BOOLEAN
      /\ bound.set = lineages[k] \/ (Messages /\ bound.set = NoSet)
      /\ Messages /\ cut => bound.set = NoSet /\ bound.replay = <<>>
      /\ bound.replay = <<>> \/ (bound.replay = lineages[k].items /\ bound.set = lineages[k])
  BY <1>2, <1>3 DEF Binding, RequestBody
<1> HIDE DEF bound
<1>5. /\ flight' \in LineageCall /\ flight'.at \in {"posted", "ended"} /\ flight'.key = k
      /\ flight'.replay = bound.replay /\ flight'.output = <<>> /\ flight'.retries = 0
      /\ flight'.posts = IF flight'.at = "posted" THEN 1 ELSE 0
  <2>1. \E at \in {"posted", "ended"} : \E posts \in {0, 1} :
           /\ posts = IF at = "posted" THEN 1 ELSE 0
           /\ flight' = [at |-> at, key |-> k, model |-> model, replay |-> bound.replay,
                         drop |-> bound.drop, posts |-> posts, retries |-> 0, output |-> <<>>]
    BY <1>1 DEF Landed
  <2>2. PICK at \in {"posted", "ended"}, posts \in {0, 1} :
           /\ posts = IF at = "posted" THEN 1 ELSE 0
           /\ flight' = [at |-> at, key |-> k, model |-> model, replay |-> bound.replay,
                         drop |-> bound.drop, posts |-> posts, retries |-> 0, output |-> <<>>]
    BY <2>1
  <2>3. flight' \in LineageCall
    <3>1. /\ k \in Lineage \cup {NoOwner} /\ model \in ModelId \cup {"none"}
          /\ bound.replay \in Seq(LineageItem) /\ bound.drop \in BOOLEAN /\ posts \in Nat
          /\ <<>> \in Seq(LineageItem) /\ 0 \in Int
          /\ at \in {"idle", "posted", "stream", "ended"}
      BY <1>3, <1>4
    <3>2. QED BY <2>2, <3>1, CallOf, Zenon
  <2>4. QED BY <2>2, <2>3
<1> HIDE DEF call, cut
<1>6. LineagesTypeOK'
  BY <1>1, <1>2, <1>4, <1>5 DEF LineagesTypeOK
<1>7. FlightStands' /\ RetriesReported'
  BY <1>5 DEF FlightStands, RetriesReported
<1>8. Messages' = Messages
  BY <1>1 DEF Messages
<1>9. OwnersStand'
  <2> SUFFICES ASSUME ~ Messages PROVE \A j \in Lineage : lineages'[j] = lineages[j]
    BY <1>1, <1>8 DEF OwnersStand
  <2>1. QED BY <1>1, <1>2, <1>4
<1>10. CutsBehind'
  <2>1. \A j \in Lineage : j # k => lineages'[j] = lineages[j] /\ cutAt'[j] = cutAt[j]
    BY <1>1, <1>2
  <2>2. lineages'[k] = bound.set /\ cutAt'[k] = IF cut THEN sends + 1 ELSE cutAt[k]
    BY <1>1, <1>2
  <2>3. \A j \in Lineage : cutAt'[j] \in Nat /\ cutAt[j] \in Nat /\ cutAt[j] <= sends
    BY <1>2, <1>6 DEF LineagesTypeOK, CutsBehind
  <2>4. ASSUME NEW j \in Lineage PROVE cutAt'[j] <= sends'
    BY <1>1, <1>2, <2>1, <2>2, <2>3
  <2>5. ASSUME NEW j \in Lineage, Messages, NEW i \in ToSet(lineages'[j].items) PROVE i.minted >= cutAt'[j]
    <3>1. CASE j # k
      BY <2>1, <2>5, <3>1 DEF CutsBehind
    <3>2. CASE j = k /\ bound.set = NoSet
      BY <1>3, <2>2, <2>5, <3>2, ToSetIs
    <3>3. CASE j = k /\ bound.set # NoSet
      <4>1. bound.set = lineages[k] /\ ~ cut
        BY <1>4, <2>5, <3>3
      <4>2. QED BY <2>2, <2>5, <3>3, <4>1 DEF CutsBehind
    <3>4. QED BY <3>1, <3>2, <3>3
  <2>6. QED BY <1>8, <2>4, <2>5 DEF CutsBehind
<1>11. TurnsAreWhole'
  <2>1. \A j \in Lineage : lineages'[j] = lineages[j] \/ (Messages /\ lineages'[j] = NoSet)
    BY <1>1, <1>2, <1>4
  <2>2. QED BY <1>1, <1>3, <1>8, <2>1 DEF TurnsAreWhole
<1>12. StaleNeverReplayed'
  <2> SUFFICES ASSUME Messages, NEW i \in ToSet(bound.replay) PROVE i.minted >= cutAt'[k]
    BY <1>5, <1>8 DEF StaleNeverReplayed
  <2>1. bound.replay # <<>>
    BY ToSetIs
  <2>2. bound.replay = lineages[k].items /\ ~ cut
    BY <1>4, <2>1
  <2>3. QED BY <1>1, <2>2 DEF CutsBehind
<1>13. QED BY <1>6, <1>7, <1>9, <1>10, <1>11, <1>12

\* A rejected signature: the set is forgotten and the second post replays nothing.
LEMMA StripKeeps == ASSUME LineagesInv, StripAndRetry PROVE LineagesInv'
<1> USE DEF LineagesInv
<1>1. /\ Messages /\ flight.at = "posted" /\ lineages' = [lineages EXCEPT ![flight.key] = NoSet]
      /\ flight' = [flight EXCEPT !.replay = <<>>, !.posts = 2] \/ flight' = [flight EXCEPT !.at = "ended"]
      /\ UNCHANGED <<wire, owner, sends, kept, cutAt>> /\ flight.replay # <<>>
  BY DEF StripAndRetry
<1>2. /\ flight \in LineageCall /\ flight.key \in Lineage /\ flight.posts = 1 /\ flight.retries = 0
      /\ flight.output = <<>> /\ lineages \in [Lineage -> ReplaySet]
  BY <1>1 DEF LineagesTypeOK, FlightStands
<1>3. NoSet \in ReplaySet /\ NoSet.items = <<>> /\ <<>> \in Seq(LineageItem)
  BY DEF NoSet, ReplaySet
<1>4. /\ flight' \in LineageCall /\ flight'.key = flight.key /\ flight'.retries = 0
      /\ flight'.output = <<>>
      /\ \/ flight'.at = "posted" /\ flight'.replay = <<>> /\ flight'.posts = 2
         \/ flight'.at = "ended" /\ flight'.replay = flight.replay /\ flight'.posts = 1
  <2>1. \/ flight' = [at |-> "posted", key |-> flight.key, model |-> flight.model, replay |-> <<>>,
                      drop |-> flight.drop, posts |-> 2, retries |-> 0, output |-> <<>>]
        \/ flight' = [at |-> "ended", key |-> flight.key, model |-> flight.model,
                      replay |-> flight.replay, drop |-> flight.drop, posts |-> 1, retries |-> 0,
                      output |-> <<>>]
    BY <1>1, <1>2, CallIs
  <2>2. flight' \in LineageCall
    <3>1. /\ flight.key \in Lineage \cup {NoOwner} /\ flight.model \in ModelId \cup {"none"}
          /\ flight.replay \in Seq(LineageItem) /\ flight.drop \in BOOLEAN
          /\ <<>> \in Seq(LineageItem) /\ 0 \in Int /\ 1 \in Nat /\ 2 \in Nat
          /\ "ended" \in {"idle", "posted", "stream", "ended"}
          /\ "posted" \in {"idle", "posted", "stream", "ended"}
      BY <1>2, <1>3, CallIs
    <3>2. [at |-> "posted", key |-> flight.key, model |-> flight.model, replay |-> <<>>,
           drop |-> flight.drop, posts |-> 2, retries |-> 0, output |-> <<>>] \in LineageCall
      BY <3>1, CallOf, Zenon
    <3>3. [at |-> "ended", key |-> flight.key, model |-> flight.model, replay |-> flight.replay,
           drop |-> flight.drop, posts |-> 1, retries |-> 0, output |-> <<>>] \in LineageCall
      BY <3>1, CallOf, Zenon
    <3>4. QED BY <2>1, <3>2, <3>3
  <2>3. QED BY <2>1, <2>2
<1>5. LineagesTypeOK'
  BY <1>1, <1>2, <1>3, <1>4 DEF LineagesTypeOK
<1>6. FlightStands' /\ RetriesReported'
  BY <1>2, <1>4 DEF FlightStands, RetriesReported
<1>7. Messages'
  BY <1>1 DEF Messages
<1>8. \A j \in Lineage : lineages'[j] = lineages[j] \/ lineages'[j] = NoSet
  BY <1>1, <1>2
<1>9. OwnersStand' /\ TurnsAreWhole'
  BY <1>1, <1>3, <1>7, <1>8 DEF OwnersStand, TurnsAreWhole
<1>10. CutsBehind'
  BY <1>1, <1>3, <1>8, ToSetIs DEF CutsBehind
<1>11. StaleNeverReplayed'
  <2>1. \A i \in ToSet(flight'.replay) : i \in ToSet(flight.replay)
    BY <1>4, ToSetIs
  <2>2. QED BY <1>1, <1>4, <1>7, <2>1 DEF StaleNeverReplayed
<1>12. QED BY <1>5, <1>6, <1>9, <1>10, <1>11

\* A reply of the responses or gemini dialect is done: its items join the
\* lineage whole, and the artifacts in them are the lineage's own from then on.
LEMMA CompleteKeeps == ASSUME LineagesInv, NEW usage \in BOOLEAN, Complete(usage) PROVE LineagesInv'
<1> USE DEF LineagesInv
<1> DEFINE k == flight.key
<1>1. /\ ~ Messages /\ flight.at = "stream" /\ flight' = CallOver /\ UNCHANGED <<wire, sends, cutAt>>
      /\ TurnCommitted(usage)
  BY DEF Complete
<1>2. /\ flight' \in LineageCall /\ FlightStands' /\ RetriesReported'
      /\ flight'.replay = flight.replay /\ flight'.key = flight.key
  BY <1>1, CallOverKeeps
<1>3. Messages' = Messages
  BY <1>1 DEF Messages
<1>4. k \in Lineage /\ k # NoOwner /\ flight.output \in Seq(LineageItem) /\ lineages \in [Lineage -> ReplaySet]
      /\ kept \in [Lineage -> Seq(LineageItem)] /\ owner \in [Blob -> Lineage \cup {NoOwner}]
  BY <1>1, CallIs, LineagesAssumption DEF LineagesTypeOK, FlightStands, NoOwner
<1>5. StaleNeverReplayed'
  BY <1>1, <1>3 DEF StaleNeverReplayed
<1>6. CASE ~ (Provenance /\ usage)
  <2>1. UNCHANGED <<wire, lineages, owner, sends, kept, cutAt>>
    BY <1>1, <1>6 DEF TurnCommitted
  <2>2. OwnersStand' /\ CutsBehind' /\ TurnsAreWhole'
    BY <2>1, KeptKeeps
  <2>3. LineagesTypeOK'
    BY <1>2, <2>1 DEF LineagesTypeOK
  <2>4. QED BY <1>2, <1>5, <2>2, <2>3
<1>7. CASE Provenance /\ usage
  <2> DEFINE set == [model |-> lineages[k].model, items |-> lineages[k].items \o Replayed]
  <2>1. /\ lineages' = [lineages EXCEPT ![k] = set] /\ owner' = Owned
        /\ kept' = [kept EXCEPT ![k] = kept[k] \o Replayed]
    BY <1>1, <1>7 DEF TurnCommitted
  <2>2. lineages[k] \in ReplaySet /\ lineages[k].model \in ModelId \cup {"none"}
        /\ lineages[k].items \in Seq(LineageItem) /\ kept[k] \in Seq(LineageItem)
    BY <1>4 DEF ReplaySet
  <2>3. Replayed \in Seq(LineageItem) /\ ToSet(Replayed) \subseteq ToSet(flight.output)
    BY <1>4, SelectionsAre
  <2>4. /\ set.items \in Seq(LineageItem) /\ ToSet(set.items) = ToSet(lineages[k].items) \cup ToSet(Replayed)
        /\ kept[k] \o Replayed \in Seq(LineageItem)
    BY <2>2, <2>3, ToSetIs
  <2>5. set \in ReplaySet /\ set.items = lineages[k].items \o Replayed
    BY <2>2, <2>4 DEF ReplaySet
  <2> HIDE DEF set
  <2>6. /\ lineages'[k] = set /\ kept'[k] = kept[k] \o Replayed
        /\ \A j \in Lineage : j # k => lineages'[j] = lineages[j] /\ kept'[j] = kept[j]
    BY <1>4, <2>1
  <2>7. owner' = [b \in Blob |-> IF b \in Blobs(flight.output) THEN k ELSE owner[b]]
    BY <2>1 DEF Owned
  <2>8. LineagesTypeOK'
    BY <1>1, <1>2, <1>4, <2>1, <2>4, <2>5, <2>7 DEF LineagesTypeOK
  <2>9. TurnsAreWhole'
    BY <1>1, <1>3, <2>5, <2>6 DEF TurnsAreWhole
  <2>10. CutsBehind'
    BY <1>1, <1>3 DEF CutsBehind
  <2>11. OwnersStand'
    <3>1. \A b \in Blobs(flight.output) : owner[b] = NoOwner \/ owner[b] = k
      BY <1>7 DEF Provenance, ClaimsBlob
    <3>2. \A b \in Blobs(flight.output) : b \in Blob
      <4>1. \A i \in ToSet(flight.output) : i \in LineageItem
        BY <1>4, ToSetIs
      <4>2. QED BY <4>1 DEF Blobs, LineageItem
    <3>3. SUFFICES ASSUME NEW j \in Lineage, NEW b \in Blobs(lineages'[j].items)
                   PROVE  b \in Blob /\ owner'[b] = j
      BY DEF OwnersStand
    <3>4. CASE j # k
      <4>1. b \in Blob /\ owner[b] = j
        BY <1>1, <2>6, <3>3, <3>4 DEF OwnersStand
      <4>2. b \notin Blobs(flight.output)
        BY <1>4, <3>1, <3>4, <4>1, LineagesAssumption DEF NoOwner
      <4>3. QED BY <2>7, <4>1, <4>2
    <3>5. CASE j = k
      <4>1. b \in Blobs(lineages[k].items) \/ b \in Blobs(flight.output)
        BY <2>3, <2>4, <2>6, <3>3, <3>5 DEF Blobs
      <4>2. b \in Blob
        BY <1>1, <1>4, <3>2, <4>1 DEF OwnersStand
      <4>3. b \notin Blobs(flight.output) => owner[b] = k
        BY <1>1, <1>4, <4>1 DEF OwnersStand
      <4>4. QED BY <2>7, <3>5, <4>2, <4>3
    <3>6. QED BY <3>4, <3>5
  <2>12. QED BY <1>2, <1>5, <2>8, <2>9, <2>10, <2>11
<1>8. QED BY <1>6, <1>7

\* A reply of the messages dialect is done: its thinking replaces the set, minted now.
LEMMA CommitKeeps == ASSUME LineagesInv, NEW usage \in BOOLEAN, Commit(usage) PROVE LineagesInv'
<1> USE DEF LineagesInv
<1> DEFINE k == flight.key
           thinking == Reasoning(flight.output)
           set == IF thinking = <<>> THEN NoSet ELSE [model |-> flight.model, items |-> thinking]
<1>1. /\ Messages /\ flight.at = "stream" /\ flight' = CallOver /\ UNCHANGED <<wire, owner, sends, cutAt>>
      /\ \/ usage /\ lineages' = [lineages EXCEPT ![k] = set] /\ kept' = [kept EXCEPT ![k] = set.items]
         \/ ~ usage /\ UNCHANGED <<lineages, kept>>
  BY DEF Commit
<1>2. /\ flight' \in LineageCall /\ FlightStands' /\ RetriesReported'
      /\ flight'.replay = flight.replay /\ flight'.key = flight.key
  BY <1>1, CallOverKeeps
<1>3. Messages'
  BY <1>1 DEF Messages
<1>4. k \in Lineage /\ flight.output \in Seq(LineageItem) /\ lineages \in [Lineage -> ReplaySet]
      /\ kept \in [Lineage -> Seq(LineageItem)] /\ flight.model \in ModelId \cup {"none"}
  BY <1>1, CallIs DEF LineagesTypeOK, FlightStands
<1>5. StaleNeverReplayed'
  BY <1>1, <1>2, <1>3 DEF StaleNeverReplayed
<1>6. OwnersStand'
  BY <1>3 DEF OwnersStand
<1>7. CASE ~ usage
  <2>1. UNCHANGED <<wire, lineages, owner, sends, kept, cutAt>>
    BY <1>1, <1>7
  <2>2. CutsBehind' /\ TurnsAreWhole'
    BY <2>1, KeptKeeps
  <2>3. LineagesTypeOK'
    BY <1>2, <2>1 DEF LineagesTypeOK
  <2>4. QED BY <1>2, <1>5, <1>6, <2>2, <2>3
<1>8. CASE usage
  <2>1. thinking \in Seq(LineageItem) /\ ToSet(thinking) \subseteq ToSet(flight.output)
    BY <1>4, SelectionsAre
  <2> HIDE DEF thinking
  <2>2. set \in ReplaySet /\ set.items = thinking
    BY <1>4, <2>1 DEF NoSet, ReplaySet
  <2>3. \A i \in ToSet(thinking) : i.minted = sends
    BY <1>1, <2>1 DEF FlightStands
  <2> HIDE DEF set
  <2>4. lineages' = [lineages EXCEPT ![k] = set] /\ kept' = [kept EXCEPT ![k] = set.items]
    BY <1>1, <1>8
  <2>5. LineagesTypeOK'
    BY <1>1, <1>2, <1>4, <2>1, <2>2, <2>4 DEF LineagesTypeOK
  <2>6. /\ lineages'[k] = set /\ kept'[k] = thinking
        /\ \A j \in Lineage : j # k => lineages'[j] = lineages[j] /\ kept'[j] = kept[j]
    BY <1>4, <2>2, <2>4
  <2>7. TurnsAreWhole'
    BY <1>1, <1>3, <2>2, <2>6 DEF TurnsAreWhole
  <2>8. CutsBehind'
    <3>1. ASSUME NEW j \in Lineage PROVE cutAt'[j] <= sends'
      BY <1>1 DEF CutsBehind
    <3>2. ASSUME NEW j \in Lineage, NEW i \in ToSet(lineages'[j].items) PROVE i.minted >= cutAt'[j]
      <4>1. CASE j # k
        BY <1>1, <2>6, <3>2, <4>1 DEF CutsBehind
      <4>2. CASE j = k
        <5>1. i.minted = sends /\ cutAt'[j] = cutAt[j] /\ cutAt[j] \in Nat /\ sends \in Nat /\ cutAt[j] <= sends
          BY <1>1, <2>2, <2>3, <2>6, <3>2, <4>2 DEF LineagesTypeOK, CutsBehind
        <5>2. QED BY <5>1
      <4>3. QED BY <4>1, <4>2
    <3>3. QED BY <3>1, <3>2 DEF CutsBehind
  <2>9. QED BY <1>2, <1>5, <1>6, <2>5, <2>7, <2>8
<1>9. QED BY <1>7, <1>8

\* At first nothing is remembered.
LEMMA LineagesInvInit == LineagesInit => LineagesInv
<1> SUFFICES ASSUME LineagesInit PROVE LineagesInv
  OBVIOUS
<1>1. /\ lineages = [k \in Lineage |-> NoSet] /\ owner = [b \in Blob |-> NoOwner] /\ flight = Landed
      /\ sends = 0 /\ kept = [k \in Lineage |-> <<>>] /\ cutAt = [k \in Lineage |-> 0]
  BY DEF LineagesInit
<1>2. /\ NoSet \in ReplaySet /\ NoSet.items = <<>> /\ Landed \in LineageCall /\ <<>> \in Seq(LineageItem)
      /\ Landed.at = "idle" /\ Landed.replay = <<>> /\ Landed.posts = 0
  BY DEF NoSet, ReplaySet, Landed, LineageCall
<1>3. Blobs(<<>>) = {} /\ ToSet(<<>>) = {}
  BY ToSetIs DEF Blobs
<1>4. LineagesTypeOK /\ OwnersStand /\ CutsBehind
  BY <1>1, <1>2, <1>3 DEF LineagesTypeOK, OwnersStand, CutsBehind
<1>5. FlightStands /\ TurnsAreWhole /\ StaleNeverReplayed /\ RetriesReported
  BY <1>1, <1>2, <1>3 DEF FlightStands, TurnsAreWhole, StaleNeverReplayed, RetriesReported
<1>6. QED BY <1>4, <1>5 DEF LineagesInv

\* The steps of a call that keep nothing: a refusal, a failure, the start of an
\* answer and an item of it.
LEMMA CallMoves ==
  ASSUME LineagesInv, UNCHANGED <<wire, owner, kept, cutAt, lineages>>, sends' \in Nat, sends' >= sends,
         flight' \in LineageCall, FlightStands', RetriesReported',
         flight'.replay = <<>> \/ (flight'.replay = flight.replay /\ flight'.key = flight.key)
  PROVE  LineagesInv'
<1> USE DEF LineagesInv
<1>1. Messages' = Messages
  BY DEF Messages
<1>2. LineagesTypeOK'
  BY DEF LineagesTypeOK
<1>3. OwnersStand' /\ TurnsAreWhole'
  BY <1>1 DEF OwnersStand, TurnsAreWhole
<1>4. CutsBehind'
  BY <1>1 DEF CutsBehind, LineagesTypeOK
<1>5. StaleNeverReplayed'
  BY <1>1, ToSetIs DEF StaleNeverReplayed
<1>6. QED BY <1>2, <1>3, <1>4, <1>5

\* Every step of an adapter keeps what it remembers true.
LEMMA LineagesInvNext == LineagesInv /\ [LineagesNext]_lineageVars => LineagesInv'
<1> SUFFICES ASSUME LineagesInv, [LineagesNext]_lineageVars PROVE LineagesInv'
  OBVIOUS
<1>0. flight \in LineageCall /\ sends \in Nat
  BY DEF LineagesInv, LineagesTypeOK
<1>1. CASE UNCHANGED lineageVars
  <2>1. UNCHANGED <<wire, lineages, owner, flight, sends, kept, cutAt>>
    BY <1>1 DEF lineageVars
  <2>2. FlightStands' /\ RetriesReported'
    BY <2>1 DEF LineagesInv, FlightStands, RetriesReported
  <2>3. QED BY <1>0, <2>1, <2>2, CallMoves
<1>2. CASE SendRefused
  <2>1. flight' = [Landed EXCEPT !.at = "ended"] /\ sends' = sends + 1
        /\ UNCHANGED <<wire, lineages, owner, kept, cutAt>>
    BY <1>2 DEF SendRefused
  <2>2. flight' \in LineageCall /\ flight'.at = "ended" /\ flight'.replay = <<>> /\ flight'.posts = 0
    <3>1. flight' = [at |-> "ended", key |-> NoOwner, model |-> "none", replay |-> <<>>, drop |-> FALSE,
                     posts |-> 0, retries |-> 0, output |-> <<>>]
      BY <2>1 DEF Landed
    <3>2. <<>> \in Seq(LineageItem)
      OBVIOUS
    <3>3. flight' \in LineageCall
      <4>1. /\ NoOwner \in Lineage \cup {NoOwner} /\ "none" \in ModelId \cup {"none"} /\ FALSE \in BOOLEAN
            /\ 0 \in Nat /\ 0 \in Int /\ "ended" \in {"idle", "posted", "stream", "ended"}
        OBVIOUS
      <4>2. QED BY <3>1, <3>2, <4>1, CallOf, Zenon
    <3>4. QED BY <3>1, <3>3
  <2>3. FlightStands' /\ RetriesReported'
    BY <2>2 DEF FlightStands, RetriesReported
  <2>4. sends' \in Nat /\ sends' >= sends
    BY <1>0, <2>1
  <2>5. QED BY <2>1, <2>2, <2>3, <2>4, CallMoves
<1>3. ASSUME NEW k \in Lineage, NEW m \in ModelId, NEW mutated \in BOOLEAN, Send(k, m, mutated)
      PROVE  LineagesInv'
  BY <1>3, SendKeeps
<1>4. CASE CallFails
  <2>1. flight.at \in {"posted", "stream"} /\ flight' = CallOver
        /\ UNCHANGED <<wire, lineages, owner, sends, kept, cutAt>>
    BY <1>4 DEF CallFails
  <2>2. /\ flight' \in LineageCall /\ FlightStands' /\ RetriesReported'
        /\ flight'.replay = flight.replay /\ flight'.key = flight.key
    BY <2>1, CallOverKeeps
  <2>3. QED BY <1>0, <2>1, <2>2, CallMoves
<1>5. CASE StripAndRetry
  BY <1>5, StripKeeps
<1>6. CASE AnswerStarts
  <2>1. flight.at = "posted" /\ flight' = [flight EXCEPT !.at = "stream"]
        /\ UNCHANGED <<wire, lineages, owner, sends, kept, cutAt>>
    BY <1>6 DEF AnswerStarts
  <2>2. /\ flight' \in LineageCall /\ flight'.at = "stream" /\ flight'.replay = flight.replay
        /\ flight'.key = flight.key /\ flight'.posts = flight.posts /\ flight'.output = flight.output
    BY <1>0, <2>1 DEF LineageCall
  <2>3. FlightStands' /\ RetriesReported'
    BY <2>1, <2>2, ToSetIs DEF LineagesInv, FlightStands, RetriesReported
  <2>4. QED BY <1>0, <2>1, <2>2, <2>3, CallMoves
<1>7. ASSUME NEW item \in Items, ItemArrives(item) PROVE LineagesInv'
  <2>1. flight.at = "stream" /\ flight' = [flight EXCEPT !.output = Append(flight.output, item)]
        /\ UNCHANGED <<wire, lineages, owner, sends, kept, cutAt>>
    BY <1>7 DEF ItemArrives
  <2>2. item \in LineageItem /\ item.minted = sends
    BY <1>0, <1>7 DEF Items, LineageItem
  <2>3. flight.output \in Seq(LineageItem)
    BY <1>0, CallIs
  <2>4. Append(flight.output, item) \in Seq(LineageItem)
        /\ ToSet(Append(flight.output, item)) = ToSet(flight.output) \cup {item}
    BY <2>2, <2>3, ToSetIs
  <2>5. /\ flight' \in LineageCall /\ flight'.at = "stream" /\ flight'.replay = flight.replay
        /\ flight'.key = flight.key /\ flight'.posts = flight.posts
        /\ flight'.output = Append(flight.output, item)
    BY <1>0, <2>1, <2>4 DEF LineageCall
  <2>6. \A i \in ToSet(flight'.output) : i.minted = sends'
    BY <2>1, <2>2, <2>4, <2>5 DEF LineagesInv, FlightStands
  <2>7. FlightStands' /\ RetriesReported'
    BY <2>1, <2>5, <2>6 DEF LineagesInv, FlightStands, RetriesReported
  <2>8. QED BY <1>0, <2>1, <2>5, <2>7, CallMoves
<1>8. ASSUME NEW usage \in BOOLEAN, Complete(usage) \/ Commit(usage) PROVE LineagesInv'
  BY <1>8, CompleteKeeps, CommitKeeps
<1>9. QED BY <1>1, <1>2, <1>3, <1>4, <1>5, <1>6, <1>7, <1>8 DEF LineagesNext

\* However calls end: a replay set is whole turns of its lineage, an artifact goes
\* back only to the lineage it came from, what was cut is never sent again, and a
\* call reports the posts it made (binding, complete, read_stream, send_manifest).
THEOREM LineagesSafe == LineagesSpec => []LineagesStayTrue
<1>1. LineagesInv => LineagesStayTrue
  <2> SUFFICES ASSUME LineagesInv PROVE TurnsAreWhole /\ ReasoningStaysHome /\ StaleNeverReplayed /\ RetriesReported
    BY DEF LineagesStayTrue
  <2>1. ReasoningStaysHome
    BY DEF LineagesInv, OwnersStand, ReasoningStaysHome
  <2>2. QED BY <2>1 DEF LineagesInv
<1>2. QED BY <1>1, LineagesInvInit, LineagesInvNext, PTL DEF LineagesSpec

-----------------------------------------------------------------------------
(***************************************************************************)
(* The configuration file and its journal.  The invariant says what a      *)
(* command under way knows of the file, of its row and of the view that it *)
(* would have to restore.                                                  *)
(***************************************************************************)
FileRecord == [text : Text \cup {"torn", "absent"}, ino : Inode \cup {0}, token : Nat]
ViewRecord == [retained : Text, entries : Text, sources : Text]
RowRecord == [intended : Text, base : Text \cup {"torn"}, ino : Inode \cup {0}, token : Nat,
              state : {"pending", "applied"}]
CommandRecord == [at : {"idle", "admit", "write", "receipt", "down"}, edit : Text, row : Nat,
                  before : ViewRecord]

EditsTypeOK ==
    /\ attests \in BOOLEAN /\ drifted \in BOOLEAN /\ strangers \in Nat
    /\ onDisk \in FileRecord /\ (onDisk.text = "absent" => onDisk = NoFile)
    /\ view \in ViewRecord /\ brokerView \in [broker : Text, off : Text]
    /\ journal \in Seq(RowRecord) /\ command \in CommandRecord

\* The rows whose bytes stand now have stood, and so have the completed ones.
StandingIsKept == Standing(onDisk, journal) \cup RowsIn("applied") \subseteq stood

\* Every surface names the text t.
Uniform(t) == /\ view.retained = t /\ view.entries = t /\ view.sources = t
              /\ brokerView.broker = t /\ brokerView.off = t

\* The file holds the text t, or somebody else changed it.
HoldsText(t) == ~ drifted => t = IF onDisk = NoFile THEN "unset" ELSE onDisk.text

\* A command in the journal holds its own row; one whose bytes have landed finds
\* them there; a view to be restored names one text, the file's.
CommandIsTrue ==
    /\ command.at \in {"write", "receipt"} =>
          command.row \in DOMAIN journal /\ journal[command.row].intended = command.edit
    /\ command.at = "receipt" =>
          command.row \in stood /\ (~ drifted => onDisk.text = command.edit)
    /\ command.at \in {"admit", "write", "receipt"} =>
          /\ command.before.entries = command.before.retained
          /\ view.retained = command.edit /\ view.entries = command.edit
          /\ view.sources = command.before.retained
          /\ brokerView.broker = command.before.retained
    /\ command.at \in {"admit", "write"} => HoldsText(command.before.retained)
    /\ command.at = "idle" => Uniform(view.retained) /\ HoldsText(view.retained)

EditsInv == EditsTypeOK /\ StandingIsKept /\ CommandIsTrue /\ NeverJournaledTwice

\* Every surface names the shipped text at first, and the file holds it.
LEMMA EditsInitHolds == EditsInit => EditsInv
<1> SUFFICES ASSUME EditsInit PROVE EditsInv
  OBVIOUS
<1>1. PICK i \in Inode : onDisk = [text |-> "unset", ino |-> i, token |-> 1]
  BY DEF EditsInit
<1>2. /\ attests \in BOOLEAN /\ drifted = FALSE /\ strangers = 0
      /\ view = [retained |-> "unset", entries |-> "unset", sources |-> "unset"]
      /\ brokerView = [broker |-> "unset", off |-> "unset"]
      /\ journal = << >> /\ command = [at |-> "idle", edit |-> "unset", row |-> 0, before |-> view]
  BY DEF EditsInit, View, NoCommand
<1>3. journal \in Seq(RowRecord) /\ DOMAIN journal = {}
  BY <1>2
<1>4. EditsTypeOK
  BY <1>1, <1>2, <1>3 DEF EditsTypeOK, FileRecord, ViewRecord, CommandRecord, Text
<1>5. StandingIsKept /\ NeverJournaledTwice
  BY <1>3 DEF StandingIsKept, NeverJournaledTwice, Standing, RowsIn
<1>6. CommandIsTrue
  BY <1>1, <1>2 DEF CommandIsTrue, Uniform, HoldsText, NoFile
<1>7. QED BY <1>4, <1>5, <1>6 DEF EditsInv

\* A row whose bytes are exactly new stands in the file (classify_intent).
LEMMA ExactlyNewStands ==
  ASSUME EditsInv, NEW i \in DOMAIN journal, ClassifyIntent(journal[i]) = "ExactlyNew"
  PROVE  i \in Standing(onDisk, journal) /\ i \in stood
<1>1. onDisk # NoFile /\ onDisk.text = journal[i].intended /\ Attribute(journal[i]) = "Same"
  <2>1. onDisk # NoFile
    BY DEF ClassifyIntent
  <2>2. onDisk.text = journal[i].intended
    BY <2>1 DEF ClassifyIntent
  <2>3. Attribute(journal[i]) \in {"Same", "Different", "Unverifiable"}
    BY DEF Attribute
  <2>4. Attribute(journal[i]) = "Same"
    BY <2>1, <2>2, <2>3 DEF ClassifyIntent
  <2>5. QED BY <2>1, <2>2, <2>4
<1>2. onDisk.ino = journal[i].ino /\ onDisk.token = journal[i].token
  BY <1>1 DEF Attribute
<1>3. i \in Standing(onDisk, journal)
  BY <1>1, <1>2 DEF Standing
<1>4. QED BY <1>3 DEF EditsInv, StandingIsKept

\* A step of a command that leaves the file and the journal keeps the invariant when
\* it keeps what the command knows: the edit, the admission, a refusal and a replay.
LEMMA CommandStepKeeps ==
  ASSUME EditsInv, UNCHANGED <<attests, onDisk, journal, stood, drifted, strangers>>,
         view' \in ViewRecord, brokerView' \in [broker : Text, off : Text],
         command' \in CommandRecord, CommandIsTrue'
  PROVE  EditsInv'
<1>1. EditsTypeOK'
  BY DEF EditsInv, EditsTypeOK
<1>2. StandingIsKept' /\ NeverJournaledTwice'
  BY DEF EditsInv, StandingIsKept, NeverJournaledTwice, Standing, RowsIn
<1>3. QED BY <1>1, <1>2 DEF EditsInv

\* The document, the entries and the off-state take the edit before the journal does
\* (commit_config_edit).
LEMMA RetainedEditKeeps ==
  ASSUME EditsInv, NEW edit \in Text, RetainedEdit(edit) PROVE EditsInv'
<1>1. /\ UNCHANGED <<attests, onDisk, journal, stood, drifted, strangers>>
      /\ view \in ViewRecord /\ brokerView \in [broker : Text, off : Text]
      /\ command' = [at |-> "admit", edit |-> edit, row |-> 0, before |-> view]
      /\ view' = [view EXCEPT !.retained = edit, !.entries = edit]
      /\ brokerView' = [brokerView EXCEPT !.off = edit]
      /\ Uniform(view.retained) /\ HoldsText(view.retained)
  BY DEF RetainedEdit, EditsInv, EditsTypeOK, CommandIsTrue
<1>2. command' \in CommandRecord /\ view' \in ViewRecord /\ brokerView' \in [broker : Text, off : Text]
  BY <1>1 DEF CommandRecord, ViewRecord
<1>3. CommandIsTrue'
  BY <1>1 DEF CommandIsTrue, Uniform, HoldsText, ViewRecord
<1>4. QED BY <1>1, <1>2, <1>3, CommandStepKeeps

\* A view that is restored names the text it named before the edit everywhere
\* (restore_retained_view).
LEMMA RestoredIsUniform ==
  ASSUME EditsInv, command.at \in {"admit", "write", "receipt"}, RestoreRetainedView
  PROVE  /\ view' \in ViewRecord /\ brokerView' \in [broker : Text, off : Text]
         /\ view'.retained = command.before.retained /\ Uniform(view.retained)'
<1>1. /\ view \in ViewRecord /\ brokerView \in [broker : Text, off : Text]
      /\ command.before \in ViewRecord
      /\ command.before.entries = command.before.retained
      /\ view.sources = command.before.retained /\ brokerView.broker = command.before.retained
  BY DEF EditsInv, EditsTypeOK, CommandIsTrue, CommandRecord
<1>2. /\ view' = [command.before EXCEPT !.sources = view.sources]
      /\ brokerView' = [brokerView EXCEPT !.off = command.before.retained]
  BY DEF RestoreRetainedView
<1>3. QED BY <1>1, <1>2 DEF ViewRecord, Uniform

\* A landed edit is named by every surface (serve_landed_config).
LEMMA ServedIsUniform ==
  ASSUME EditsInv, command.at \in {"admit", "write", "receipt"}, ServeLandedConfig
  PROVE  /\ view' \in ViewRecord /\ brokerView' \in [broker : Text, off : Text]
         /\ view'.retained = command.edit /\ Uniform(view.retained)'
<1>1. /\ view \in ViewRecord /\ command.edit \in Text
      /\ view.retained = command.edit /\ view.entries = command.edit
  BY DEF EditsInv, EditsTypeOK, CommandIsTrue, CommandRecord
<1>2. /\ view' = [view EXCEPT !.sources = command.edit]
      /\ brokerView' = [broker |-> view.retained, off |-> view.retained]
  BY DEF ServeLandedConfig
<1>3. QED BY <1>1, <1>2 DEF ViewRecord, Uniform

\* No command is open: nothing but the view is known.
LEMMA IdleIsTyped ==
  /\ NoCommand \in CommandRecord /\ NoCommand.at = "idle"
  /\ [NoCommand EXCEPT !.at = "down"] \in CommandRecord
  /\ [NoCommand EXCEPT !.at = "down"].at = "down"
BY DEF NoCommand, CommandRecord, ViewRecord, View, Text

\* A replay of an applied edit is served, and a refused one is taken back.
LEMMA AdmitEndsKeep ==
  ASSUME EditsInv, AdmitApplied \/ AdmitRefused PROVE EditsInv'
<1>1. /\ UNCHANGED <<attests, onDisk, journal, stood, drifted, strangers>>
      /\ command.at = "admit" /\ command' = NoCommand
  BY DEF AdmitApplied, AdmitRefused
<1>2. /\ view' \in ViewRecord /\ brokerView' \in [broker : Text, off : Text]
      /\ Uniform(view.retained)' /\ HoldsText(view.retained)'
  <2>1. CASE AdmitApplied
    <3>1. ServeLandedConfig /\ AppliedFor(command.edit, "Same") # {}
      BY <2>1 DEF AdmitApplied
    <3>2. onDisk # NoFile /\ onDisk.text = command.edit
      BY <3>1 DEF AppliedFor
    <3>3. QED BY <1>1, <3>1, <3>2, ServedIsUniform DEF HoldsText
  <2>2. CASE AdmitRefused
    <3>1. RestoreRetainedView
      BY <2>2 DEF AdmitRefused
    <3>2. HoldsText(command.before.retained)
      BY <1>1 DEF EditsInv, CommandIsTrue
    <3>3. QED BY <1>1, <3>1, <3>2, RestoredIsUniform DEF HoldsText
  <2>3. QED BY <2>1, <2>2
<1>3. command' \in CommandRecord /\ command'.at = "idle"
  BY <1>1, IdleIsTyped
<1>4. CommandIsTrue'
  BY <1>2, <1>3 DEF CommandIsTrue
<1>5. QED BY <1>1, <1>2, <1>3, <1>4, CommandStepKeeps

\* A pending row of the same edit is taken up again: its bytes stand, or they are
\* written again (resolve_pending_publication).
LEMMA AdmitPendingKeeps ==
  ASSUME EditsInv, AdmitPending PROVE EditsInv'
<1>1. /\ UNCHANGED <<attests, onDisk, view, brokerView, journal, stood, drifted, strangers>>
      /\ command.at = "admit" /\ command \in CommandRecord /\ journal \in Seq(RowRecord)
      /\ view \in ViewRecord /\ brokerView \in [broker : Text, off : Text]
      /\ PendingFor(command.edit) # {}
  BY DEF AdmitPending, EditsInv, EditsTypeOK
<1>2. First(PendingFor(command.edit)) \in PendingFor(command.edit)
  <2>1. PendingFor(command.edit) \subseteq Nat
    BY <1>1 DEF PendingFor, RowsIn
  <2>2. \E i \in PendingFor(command.edit) : \A j \in PendingFor(command.edit) : i <= j
    BY <1>1, <2>1, LeastNat
  <2>3. QED BY <2>2 DEF First
<1>3. PICK row \in DOMAIN journal :
         /\ journal[row].intended = command.edit
         /\ command' = [command EXCEPT !.row = row,
              !.at = IF ClassifyIntent(journal[row]) = "ExactlyNew" THEN "receipt" ELSE "write"]
  BY <1>2 DEF AdmitPending, PendingFor, RowsIn
<1>4. row \in Nat
  BY <1>1, <1>3
<1>5. CASE ClassifyIntent(journal[row]) = "ExactlyNew"
  <2>1. command' = [command EXCEPT !.row = row, !.at = "receipt"]
    BY <1>3, <1>5
  <2>2. command' \in CommandRecord
    BY <1>1, <1>4, <2>1 DEF CommandRecord
  <2>3. row \in stood /\ onDisk.text = command.edit
    BY <1>3, <1>5, ExactlyNewStands DEF Standing
  <2>4. CommandIsTrue'
    BY <1>1, <1>3, <2>1, <2>3 DEF EditsInv, CommandIsTrue, CommandRecord
  <2>5. QED BY <1>1, <2>2, <2>4, CommandStepKeeps
<1>6. CASE ClassifyIntent(journal[row]) # "ExactlyNew"
  <2>1. command' = [command EXCEPT !.row = row, !.at = "write"]
    BY <1>3, <1>6
  <2>2. command' \in CommandRecord
    BY <1>1, <1>4, <2>1 DEF CommandRecord
  <2>3. HoldsText(command.before.retained)
    BY <1>1 DEF EditsInv, CommandIsTrue
  <2>4. CommandIsTrue'
    BY <1>1, <1>3, <2>1, <2>3 DEF EditsInv, CommandIsTrue, CommandRecord, HoldsText
  <2>5. QED BY <1>1, <2>2, <2>4, CommandStepKeeps
<1>7. QED BY <1>5, <1>6

\* The staged row takes the file's identity; no other pending row was for this file
\* and these bytes (stage_publication).
LEMMA StageKeeps ==
  ASSUME EditsInv, StagePublication PROVE EditsInv'
<1> DEFINE row == [intended |-> command.edit, base |-> onDisk.text, ino |-> onDisk.ino,
                   token |-> onDisk.token, state |-> "pending"]
           n == Len(journal) + 1
<1>1. /\ UNCHANGED <<attests, onDisk, view, brokerView, drifted, strangers>>
      /\ command.at = "admit" /\ command \in CommandRecord /\ journal \in Seq(RowRecord)
      /\ onDisk \in FileRecord /\ onDisk.text # "absent" /\ attests \in BOOLEAN
      /\ PendingFor(command.edit) = {} /\ onDisk # NoFile
  BY DEF StagePublication, EditsInv, EditsTypeOK
<1>2. /\ journal' = Append(journal, row)
      /\ command' = [command EXCEPT !.at = "write", !.row = n]
      /\ stood' = stood \cup Standing(onDisk, journal')
  BY DEF StagePublication
<1>3. row \in RowRecord
  BY <1>1 DEF RowRecord, FileRecord, CommandRecord
<1>4. /\ journal' \in Seq(RowRecord) /\ DOMAIN journal' = DOMAIN journal \cup {n}
      /\ n \in Nat /\ n \notin DOMAIN journal /\ journal'[n] = row
      /\ \A i \in DOMAIN journal : journal'[i] = journal[i]
  BY <1>1, <1>2, <1>3
<1>5. EditsTypeOK'
  BY <1>1, <1>2, <1>4 DEF EditsInv, EditsTypeOK, CommandRecord
<1>6. StandingIsKept'
  <2>1. RowsIn("applied")' = RowsIn("applied")
    BY <1>4 DEF RowsIn
  <2>2. QED BY <1>1, <1>2, <2>1 DEF EditsInv, StandingIsKept
<1>7. CommandIsTrue'
  <2>1. command' \in CommandRecord /\ command'.at = "write" /\ command'.row = n
        /\ command'.edit = command.edit /\ command'.before = command.before
    BY <1>1, <1>2, <1>4 DEF CommandRecord
  <2>2. HoldsText(command.before.retained)
    BY <1>1 DEF EditsInv, CommandIsTrue
  <2>3. QED BY <1>1, <1>4, <2>1, <2>2 DEF EditsInv, CommandIsTrue, HoldsText
<1>8. ASSUME NEW i \in RowsIn("pending")
      PROVE  ~ (row.intended = journal[i].intended /\ row.ino = journal[i].ino /\ row.token = journal[i].token)
  <2>1. i \in DOMAIN journal
    BY <1>8 DEF RowsIn
  <2>2. SUFFICES ASSUME command.edit = journal[i].intended, onDisk.ino = journal[i].ino,
                        onDisk.token = journal[i].token
                 PROVE  FALSE
    OBVIOUS
  <2>3. Attribute(journal[i]) # "Different"
    BY <2>2 DEF Attribute
  <2>4. i \in PendingFor(command.edit)
    BY <1>1, <1>8, <2>2, <2>3 DEF PendingFor, SameTargetFile
  <2>5. QED BY <1>1, <2>4
<1>9. NeverJournaledTwice'
  <2>1. RowsIn("pending")' = RowsIn("pending") \cup {n}
    BY <1>4 DEF RowsIn
  <2>2. \A i \in RowsIn("pending") : i \in DOMAIN journal /\ journal'[i] = journal[i]
    BY <1>4 DEF RowsIn
  <2>3. NeverJournaledTwice
    BY DEF EditsInv
  <2>4. QED BY <1>4, <1>8, <2>1, <2>2, <2>3 DEF NeverJournaledTwice
<1>10. QED BY <1>5, <1>6, <1>7, <1>9 DEF EditsInv

\* A step that leaves the rows alone and tears the file, or moves it to a text it
\* records as standing, keeps what has stood.
LEMMA RowsStand ==
  ASSUME EditsInv, UNCHANGED journal,
         \/ stood' = stood /\ (onDisk' = onDisk \/ onDisk'.text = "torn")
         \/ stood' = stood \cup Standing(onDisk', journal)
  PROVE  StandingIsKept' /\ NeverJournaledTwice'
<1>1. RowsIn("applied")' = RowsIn("applied") /\ RowsIn("pending")' = RowsIn("pending")
  BY DEF RowsIn
<1>2. NeverJournaledTwice'
  BY <1>1 DEF EditsInv, NeverJournaledTwice
<1>3. Standing(onDisk, journal)' = Standing(onDisk', journal)
  BY DEF Standing
<1>4. CASE onDisk'.text = "torn"
  <2>1. \A i \in DOMAIN journal : journal[i] \in RowRecord
    BY DEF EditsInv, EditsTypeOK
  <2>4. \A i \in DOMAIN journal : journal[i].intended # "torn"
    BY <2>1 DEF RowRecord, Text
  <2>2. Standing(onDisk', journal) = {}
    BY <1>4, <2>4 DEF Standing
  <2>3. QED BY <1>1, <1>2, <1>3, <2>2 DEF EditsInv, StandingIsKept
<1>5. QED BY <1>1, <1>2, <1>3, <1>4 DEF EditsInv, StandingIsKept

\* The bytes land in the file the row was staged for (publish_intent, write_once).
LEMMA PublishKeeps ==
  ASSUME EditsInv, PublishIntent PROVE EditsInv'
<1>1. /\ UNCHANGED <<attests, view, brokerView, journal, strangers>>
      /\ command.at = "write" /\ Writable(journal[command.row])
      /\ onDisk' = [onDisk EXCEPT !.text = command.edit]
      /\ stood' = stood \cup Standing(onDisk', journal) /\ drifted' = FALSE
      /\ command' = [command EXCEPT !.at = "receipt"]
      /\ command \in CommandRecord /\ onDisk \in FileRecord
  BY DEF PublishIntent, EditsInv, EditsTypeOK
<1>2. /\ command.row \in DOMAIN journal /\ journal[command.row].intended = command.edit
      /\ command.edit \in Text
  BY <1>1 DEF EditsInv, CommandIsTrue, CommandRecord
<1>3. /\ onDisk' \in FileRecord /\ onDisk'.text = command.edit
      /\ onDisk'.ino = onDisk.ino /\ onDisk'.token = onDisk.token /\ onDisk'.text # "absent"
  BY <1>1, <1>2 DEF FileRecord, Text
<1>4. command' \in CommandRecord /\ command'.at = "receipt" /\ command'.row = command.row
      /\ command'.edit = command.edit /\ command'.before = command.before
  BY <1>1 DEF CommandRecord
<1>5. EditsTypeOK'
  BY <1>1, <1>3, <1>4 DEF EditsInv, EditsTypeOK
<1>6. StandingIsKept' /\ NeverJournaledTwice'
  BY <1>1, RowsStand
<1>7. command.row \in Standing(onDisk', journal)
  <2>1. Attribute(journal[command.row]) = "Same"
    BY <1>1 DEF Writable
  <2>2. onDisk.ino = journal[command.row].ino /\ onDisk.token = journal[command.row].token
    BY <2>1 DEF Attribute
  <2>3. QED BY <1>2, <1>3, <2>2 DEF Standing
<1>8. CommandIsTrue'
  BY <1>1, <1>2, <1>3, <1>4, <1>7 DEF EditsInv, CommandIsTrue
<1>9. QED BY <1>5, <1>6, <1>8 DEF EditsInv

\* A write that fails leaves the file alone or torn, and the view goes back.
LEMMA PublishFailsKeeps ==
  ASSUME EditsInv, PublishFails PROVE EditsInv'
<1>1. /\ UNCHANGED <<attests, journal, stood, strangers>>
      /\ command.at = "write" /\ RestoreRetainedView /\ command' = NoCommand
      /\ onDisk \in FileRecord /\ (onDisk.text = "absent" => onDisk = NoFile) /\ drifted \in BOOLEAN
      /\ \/ UNCHANGED <<onDisk, drifted>>
         \/ onDisk' = [onDisk EXCEPT !.text = "torn"] /\ drifted' = TRUE
  BY DEF PublishFails, EditsInv, EditsTypeOK
<1>2. /\ onDisk' \in FileRecord /\ (onDisk'.text = "absent" => onDisk' = NoFile)
      /\ drifted' \in BOOLEAN /\ (onDisk' = onDisk \/ onDisk'.text = "torn")
  BY <1>1 DEF FileRecord
<1>3. StandingIsKept' /\ NeverJournaledTwice'
  BY <1>1, <1>2, RowsStand
<1>4. /\ view' \in ViewRecord /\ brokerView' \in [broker : Text, off : Text]
      /\ view'.retained = command.before.retained /\ Uniform(view.retained)'
  BY <1>1, RestoredIsUniform
<1>5. command' \in CommandRecord /\ command'.at = "idle"
  BY <1>1, IdleIsTyped
<1>6. EditsTypeOK'
  BY <1>1, <1>2, <1>4, <1>5 DEF EditsInv, EditsTypeOK
<1>7. HoldsText(view.retained)'
  <2>1. HoldsText(command.before.retained)
    BY <1>1 DEF EditsInv, CommandIsTrue
  <2>2. QED BY <1>1, <1>4, <2>1 DEF HoldsText
<1>8. CommandIsTrue'
  BY <1>4, <1>5, <1>7 DEF CommandIsTrue
<1>9. QED BY <1>3, <1>6, <1>8 DEF EditsInv

\* A row becomes applied only if it has stood: the journal loses pending rows and
\* gains receipts of those (complete_publication, recover_publications).
LEMMA ReceiptsKeep ==
  ASSUME EditsInv, NEW S, S \subseteq DOMAIN journal, S \subseteq stood,
         UNCHANGED <<onDisk, stood>>,
         journal' = [i \in DOMAIN journal |-> IF i \in S THEN AppliedRow(journal[i]) ELSE journal[i]]
  PROVE  /\ journal' \in Seq(RowRecord) /\ StandingIsKept' /\ NeverJournaledTwice'
         /\ DOMAIN journal' = DOMAIN journal
         /\ \A i \in DOMAIN journal : journal'[i].intended = journal[i].intended
<1>1. journal \in Seq(RowRecord)
  BY DEF EditsInv, EditsTypeOK
<1>2. \A r \in RowRecord : /\ AppliedRow(r) \in RowRecord /\ AppliedRow(r).state = "applied"
                           /\ AppliedRow(r).intended = r.intended /\ AppliedRow(r).ino = r.ino
                           /\ AppliedRow(r).token = r.token
  BY DEF AppliedRow, RowRecord
<1>3. \A i \in DOMAIN journal :
         /\ journal[i] \in RowRecord /\ journal'[i] \in RowRecord
         /\ journal'[i].intended = journal[i].intended /\ journal'[i].ino = journal[i].ino
         /\ journal'[i].token = journal[i].token
         /\ i \in S => journal'[i].state = "applied"
         /\ i \notin S => journal'[i].state = journal[i].state
  BY <1>1, <1>2
<1>4. Len(journal) \in Nat /\ DOMAIN journal = 1 .. Len(journal) /\ DOMAIN journal' = DOMAIN journal
  BY <1>1
<1>5. journal' \in Seq(RowRecord)
  BY <1>3, <1>4
<1>6. /\ Standing(onDisk, journal)' = Standing(onDisk, journal)
      /\ RowsIn("applied")' = RowsIn("applied") \cup S
      /\ RowsIn("pending")' \subseteq RowsIn("pending")
  BY <1>3, <1>4 DEF Standing, RowsIn
<1>7. StandingIsKept'
  BY <1>6 DEF EditsInv, StandingIsKept
<1>8. NeverJournaledTwice'
  <2>1. \A i \in RowsIn("pending") : i \in DOMAIN journal
    BY DEF RowsIn
  <2>2. NeverJournaledTwice
    BY DEF EditsInv
  <2>3. QED BY <1>3, <1>6, <2>1, <2>2 DEF NeverJournaledTwice
<1>9. QED BY <1>3, <1>4, <1>5, <1>7, <1>8

\* A row is completed, or its receipt is lost; the landed edit is served either way
\* (complete_publication).
LEMMA ReceiptStepKeeps ==
  ASSUME EditsInv, CompletePublication PROVE EditsInv'
<1>1. /\ UNCHANGED <<attests, onDisk, stood, drifted, strangers>>
      /\ command.at = "receipt" /\ ServeLandedConfig /\ command' = NoCommand
      /\ journal \in Seq(RowRecord)
  BY DEF CompletePublication, EditsInv, EditsTypeOK
<1>2. PICK S \in SUBSET {command.row} :
         journal' = [i \in DOMAIN journal |-> IF i \in S THEN AppliedRow(journal[i]) ELSE journal[i]]
  <2>1. CASE UNCHANGED journal
    <3>1. journal' = [i \in DOMAIN journal |-> IF i \in {} THEN AppliedRow(journal[i]) ELSE journal[i]]
      BY <1>1, <2>1
    <3>2. WITNESS {} \in SUBSET {command.row}
    <3>3. QED BY <3>1
  <2>2. CASE journal' = [journal EXCEPT ![command.row] = AppliedRow(journal[command.row])]
    <3>1. journal' = [i \in DOMAIN journal |->
                        IF i \in {command.row} THEN AppliedRow(journal[i]) ELSE journal[i]]
      BY <1>1, <2>2
    <3>2. WITNESS {command.row} \in SUBSET {command.row}
    <3>3. QED BY <3>1
  <2>3. QED BY <2>1, <2>2 DEF CompletePublication
<1>3. command.row \in stood /\ command.row \in DOMAIN journal
  BY <1>1 DEF EditsInv, CommandIsTrue
<1>4. journal' \in Seq(RowRecord) /\ StandingIsKept' /\ NeverJournaledTwice'
  BY <1>1, <1>2, <1>3, ReceiptsKeep
<1>5. /\ view' \in ViewRecord /\ brokerView' \in [broker : Text, off : Text]
      /\ view'.retained = command.edit /\ Uniform(view.retained)'
  BY <1>1, ServedIsUniform
<1>6. command' \in CommandRecord /\ command'.at = "idle"
  BY <1>1, IdleIsTyped
<1>7. EditsTypeOK'
  BY <1>1, <1>4, <1>5, <1>6 DEF EditsInv, EditsTypeOK
<1>8. HoldsText(view.retained)'
  <2>1. ~ drifted => onDisk.text = command.edit
    BY <1>1 DEF EditsInv, CommandIsTrue
  <2>2. command.edit # "absent"
    BY DEF EditsInv, EditsTypeOK, CommandRecord, Text
  <2>3. QED BY <1>1, <1>5, <2>1, <2>2 DEF HoldsText, NoFile
<1>9. CommandIsTrue'
  BY <1>5, <1>6, <1>8 DEF CommandIsTrue
<1>10. QED BY <1>4, <1>7, <1>9 DEF EditsInv

\* The process dies: an in-place write may be cut, and the command is forgotten.
LEMMA EditorCrashKeeps ==
  ASSUME EditsInv, EditorCrash PROVE EditsInv'
<1>1. /\ UNCHANGED <<attests, view, brokerView, journal, stood, strangers>>
      /\ command' = [NoCommand EXCEPT !.at = "down"]
      /\ onDisk \in FileRecord /\ (onDisk.text = "absent" => onDisk = NoFile) /\ drifted \in BOOLEAN
      /\ \/ UNCHANGED <<onDisk, drifted>>
         \/ onDisk' = [onDisk EXCEPT !.text = "torn"] /\ drifted' = TRUE
  BY DEF EditorCrash, EditsInv, EditsTypeOK
<1>2. /\ onDisk' \in FileRecord /\ (onDisk'.text = "absent" => onDisk' = NoFile)
      /\ drifted' \in BOOLEAN /\ (onDisk' = onDisk \/ onDisk'.text = "torn")
  BY <1>1 DEF FileRecord
<1>3. StandingIsKept' /\ NeverJournaledTwice'
  BY <1>1, <1>2, RowsStand
<1>4. command' \in CommandRecord /\ command'.at = "down"
  BY <1>1, IdleIsTyped
<1>5. EditsTypeOK'
  BY <1>1, <1>2, <1>4 DEF EditsInv, EditsTypeOK
<1>6. CommandIsTrue'
  BY <1>4 DEF CommandIsTrue
<1>7. QED BY <1>3, <1>5, <1>6 DEF EditsInv

\* What is loaded is the file's text, or the shipped one (resolve_effective).
LEMMA LoadsAreUniform ==
  ASSUME EditsInv, Loads, onDisk' = onDisk
  PROVE  /\ view' \in ViewRecord /\ brokerView' \in [broker : Text, off : Text]
         /\ Uniform(view.retained)' /\ HoldsText(view.retained)'
<1> DEFINE t == IF onDisk = NoFile THEN "unset" ELSE onDisk.text
<1>1. onDisk \in FileRecord /\ onDisk.text # "torn" /\ (onDisk.text = "absent" => onDisk = NoFile)
  BY DEF EditsInv, EditsTypeOK, Loads
<1>2. t \in Text
  BY <1>1 DEF FileRecord, Text
<1>3. /\ view' = [retained |-> t, entries |-> t, sources |-> t]
      /\ brokerView' = [broker |-> t, off |-> t]
  BY DEF Loads, View
<1>4. view' \in ViewRecord /\ brokerView' \in [broker : Text, off : Text]
  BY <1>2, <1>3 DEF ViewRecord
<1>5. Uniform(view.retained)'
  BY <1>3 DEF Uniform
<1>6. HoldsText(view.retained)'
  BY <1>3 DEF HoldsText
<1>7. QED BY <1>4, <1>5, <1>6

\* A start completes the rows whose bytes are exactly new, then loads the file; a
\* reload loads it alone (recover_publications, reload_config).
LEMMA LoadKeeps ==
  ASSUME EditsInv, EditorOpens \/ ReloadConfig PROVE EditsInv'
<1>1. /\ UNCHANGED <<attests, onDisk, stood, strangers>>
      /\ Loads /\ drifted' = FALSE
      /\ command' \in CommandRecord /\ command'.at = "idle"
  BY IdleIsTyped DEF EditorOpens, ReloadConfig, EditsInv, EditsTypeOK
<1>2. journal' \in Seq(RowRecord) /\ StandingIsKept' /\ NeverJournaledTwice'
  <2>1. CASE EditorOpens
    <3>1. Recovered \subseteq DOMAIN journal /\ Recovered \subseteq stood
      BY ExactlyNewStands DEF Recovered, RowsIn
    <3>2. journal' = [i \in DOMAIN journal |->
                        IF i \in Recovered THEN AppliedRow(journal[i]) ELSE journal[i]]
      BY <2>1 DEF EditorOpens
    <3>3. QED BY <1>1, <3>1, <3>2, ReceiptsKeep
  <2>2. CASE ReloadConfig
    <3>1. UNCHANGED journal
      BY <2>2 DEF ReloadConfig
    <3>2. QED BY <1>1, <3>1, RowsStand DEF EditsInv, EditsTypeOK
  <2>3. QED BY <2>1, <2>2
<1>3. /\ view' \in ViewRecord /\ brokerView' \in [broker : Text, off : Text]
      /\ Uniform(view.retained)' /\ HoldsText(view.retained)'
  BY <1>1, LoadsAreUniform
<1>4. EditsTypeOK'
  BY <1>1, <1>2, <1>3 DEF EditsInv, EditsTypeOK
<1>5. CommandIsTrue'
  BY <1>1, <1>3 DEF CommandIsTrue
<1>6. QED BY <1>2, <1>4, <1>5 DEF EditsInv

\* An operator edits, replaces or removes the file: it has drifted from what any
\* command knows of it.
LEMMA OperatorKeeps ==
  ASSUME EditsInv,
         \/ OperatorRemoves
         \/ \E text \in Text \cup {"torn"} :
              OperatorEdits(text) \/ \E i \in Inode : OperatorReplaces(text, i)
  PROVE  EditsInv'
<1> DEFINE Touched(f) == Touch(f) /\ f \in FileRecord /\ (f.text = "absent" => f = NoFile)
<1>1. PICK f : Touched(f)
  <2>1. onDisk \in FileRecord /\ strangers \in Nat
    BY DEF EditsInv, EditsTypeOK
  <2>2. CASE OperatorRemoves
    <3>1. Touch(NoFile) /\ NoFile \in FileRecord
      BY <2>2 DEF OperatorRemoves, NoFile, FileRecord
    <3>2. QED BY <3>1
  <2>3. ASSUME NEW text \in Text \cup {"torn"}, OperatorEdits(text) PROVE \E f : Touched(f)
    <3>1. Touch([onDisk EXCEPT !.text = text])
      BY <2>3 DEF OperatorEdits
    <3>2. /\ [onDisk EXCEPT !.text = text] \in FileRecord
          /\ [onDisk EXCEPT !.text = text].text # "absent"
      BY <2>1, <2>3 DEF FileRecord, Text
    <3>3. QED BY <3>1, <3>2
  <2>4. ASSUME NEW text \in Text \cup {"torn"}, NEW i \in Inode, OperatorReplaces(text, i) PROVE \E f : Touched(f)
    <3>1. Touch([text |-> text, ino |-> i, token |-> strangers + 2])
      BY <2>4 DEF OperatorReplaces
    <3>2. /\ [text |-> text, ino |-> i, token |-> strangers + 2] \in FileRecord
          /\ text # "absent"
      BY <2>1, <2>4 DEF FileRecord, Text
    <3>3. QED BY <3>1, <3>2
  <2>5. QED BY <2>2, <2>3, <2>4
<1>2. /\ onDisk' = f /\ drifted' = TRUE /\ stood' = stood \cup Standing(onDisk', journal)
      /\ strangers' = strangers + 1
      /\ UNCHANGED <<attests, view, brokerView, journal, command>>
  BY <1>1 DEF Touch
<1>3. StandingIsKept' /\ NeverJournaledTwice'
  BY <1>2, RowsStand
<1>4. EditsTypeOK'
  BY <1>1, <1>2 DEF EditsInv, EditsTypeOK
<1>5. CommandIsTrue'
  BY <1>2 DEF EditsInv, CommandIsTrue, Uniform, HoldsText
<1>6. QED BY <1>3, <1>4, <1>5 DEF EditsInv

\* Every step of a config command, a crash, a start or an operator keeps the invariant.
LEMMA EditsStep == EditsInv /\ [EditsNext]_editVars => EditsInv'
<1> SUFFICES ASSUME EditsInv, [EditsNext]_editVars PROVE EditsInv'
  OBVIOUS
<1>1. CASE UNCHANGED editVars
  BY <1>1, RowsStand DEF editVars, EditsInv, EditsTypeOK, CommandIsTrue, Uniform, HoldsText
<1>2. QED
  BY <1>1, RetainedEditKeeps, AdmitPendingKeeps, AdmitEndsKeep, StageKeeps, PublishKeeps,
     PublishFailsKeeps, ReceiptStepKeeps, EditorCrashKeeps, LoadKeeps, OperatorKeeps
  DEF EditsNext

\* Configuration, the file: a receipt is for bytes that stood in the very file its row
\* was staged for, every surface serves one text, which is the file's unless somebody
\* else changed it, and no pending edit is journaled twice (admit_config_edit,
\* recover_publications).
THEOREM EditsSafe == EditsSpec => [](ReceiptHeld /\ ServedIsLanded /\ NeverJournaledTwice)
<1>1. EditsInv => ReceiptHeld /\ ServedIsLanded /\ NeverJournaledTwice
  <2> SUFFICES ASSUME EditsInv PROVE ReceiptHeld /\ ServedIsLanded /\ NeverJournaledTwice
    OBVIOUS
  <2>1. ReceiptHeld
    BY DEF EditsInv, StandingIsKept, ReceiptHeld
  <2>2. command.at = "idle" => Uniform(view.retained) /\ HoldsText(view.retained)
    BY DEF EditsInv, CommandIsTrue
  <2>3. ServedIsLanded
    BY <2>2 DEF ServedIsLanded, Uniform, HoldsText
  <2>4. QED BY <2>1, <2>3 DEF EditsInv
<1>2. QED BY <1>1, EditsInitHolds, EditsStep, PTL DEF EditsSpec

-----------------------------------------------------------------------------
(***************************************************************************)
(* The document of the configuration and its layers.  An edit checks only  *)
(* the key it touches, so the invariant has to say that the rest of the    *)
(* document still names what is declared, and what the base may bring.     *)
(***************************************************************************)
ModelRecord == [mode : {"none", "inherit", "auto", "fixed", "off", "chain"}, refs : SUBSET Connections]
DefaultsRecord == [model : ModelRecord, fallback : ModelRecord]
PurposeRecord == [declared : BOOLEAN, group : Groups \cup {"none"}, model : ModelRecord,
                  fallback : ModelRecord]
ConnectionRecord == {NoConnection} \cup
    [kind : {"api_key", "subscription", "local"}, credential : {"none", "ref"},
     profile : Profiles \cup {"none"}]
DocRecord == [connections : [Connections -> ConnectionRecord], profiles : [Profiles -> {"none", "ref"}],
              defaults : DefaultsRecord, groups : [Groups -> ModelRecord],
              purposes : [Purposes -> PurposeRecord]]

\* The base names no connection, and a purpose it binds is bound to a group of its own.
BaseIsShipped ==
    /\ baseLayer.model = Model("auto", {})
    /\ baseLayer.groups \in [Groups -> {Model("auto", {}), NoModel}]
    /\ \A p \in Purposes :
        \/ baseLayer.purposes[p] = NoPurpose
        \/ \E g \in Groups : /\ baseLayer.groups[g] = Model("auto", {})
                             /\ baseLayer.purposes[p] = BoundTo(g)

RulesInv ==
    /\ doc \in DocRecord /\ BaseIsShipped
    /\ doc.defaults.model # NoModel
    /\ EditsKeepValid

\* The models an edit states are models, and none of them is the absent one.
LEMMA WireIsModel ==
  /\ WireModel \subseteq ModelRecord /\ WireFallback \subseteq ModelRecord
  /\ NoModel \in ModelRecord /\ NoModel.refs = {} /\ NoModel \notin WireModel
  /\ Model("auto", {}) \in ModelRecord /\ Model("inherit", {}) \in ModelRecord
  /\ Model("off", {}) \in ModelRecord /\ Model("auto", {}) # NoModel
<1>1. \A mode \in {"none", "inherit", "auto", "fixed", "off", "chain"}, refs \in SUBSET Connections :
         /\ Model(mode, refs) \in ModelRecord /\ Model(mode, refs).mode = mode
         /\ Model(mode, refs).refs = refs
  BY DEF ModelRecord, Model
<1>2. /\ NoModel \in ModelRecord /\ NoModel.refs = {} /\ NoModel.mode = "none"
      /\ Model("auto", {}) \in ModelRecord /\ Model("auto", {}).mode = "auto"
      /\ Model("inherit", {}) \in ModelRecord /\ Model("off", {}) \in ModelRecord
  BY <1>1 DEF NoModel
<1>3. /\ Model("inherit", {}).mode = "inherit"
      /\ \A c \in Connections :
            /\ Model("fixed", {c}) \in ModelRecord /\ Model("fixed", {c}).mode = "fixed"
            /\ Model("chain", {c}) \in ModelRecord
  BY <1>1
<1>4. \A m \in WireModel : \/ m = Model("inherit", {}) \/ m = Model("auto", {})
                           \/ \E c \in Connections : m = Model("fixed", {c})
  BY DEF WireModel
<1>5. \A m \in WireModel : m \in ModelRecord /\ m.mode \in {"inherit", "auto", "fixed"}
  <2> SUFFICES ASSUME NEW m \in WireModel
               PROVE  m \in ModelRecord /\ m.mode \in {"inherit", "auto", "fixed"}
    OBVIOUS
  <2>1. CASE m = Model("inherit", {}) \/ m = Model("auto", {})
    BY <1>2, <1>3, <2>1
  <2>2. ASSUME NEW c \in Connections, m = Model("fixed", {c})
        PROVE  m \in ModelRecord /\ m.mode \in {"inherit", "auto", "fixed"}
    BY <1>3, <2>2
  <2>3. QED BY <1>4, <2>1, <2>2
<1>6. \A m \in WireFallback : m = Model("off", {}) \/ \E c \in Connections : m = Model("chain", {c})
  BY DEF WireFallback
<1>7. WireFallback \subseteq ModelRecord
  BY <1>2, <1>3, <1>6
<1>8. QED BY <1>2, <1>5, <1>7

\* The absent binding names nothing.
LEMMA NoPurposeIs ==
  /\ NoPurpose \in PurposeRecord /\ NoPurpose.group = "none" /\ NoPurpose.model.refs = {}
  /\ NoPurpose.fallback.refs = {} /\ NoPurpose.declared = FALSE
BY DEF NoPurpose, PurposeRecord, NoModel, Model, ModelRecord

\* A whole document by its parts: the connections and profiles that fit, the defaults,
\* the groups and the purposes (validated_document, check_model_references).
PurposeNames(d, def) ==
    /\ def.group # "none" => d.groups[def.group] # NoModel
    /\ def.model.refs \subseteq Declared(d) /\ def.fallback.refs \subseteq Declared(d)

LEMMA ValidatedParts ==
  ASSUME NEW d
  PROVE  ValidatedDocument(d) <=>
           /\ Declared(d) # {}
           /\ \A c \in Declared(d) : ConnectionAdmitted(d, d.connections[c])
           /\ d.defaults.model.refs \subseteq Declared(d)
           /\ d.defaults.fallback.refs \subseteq Declared(d)
           /\ \A g \in Groups : d.groups[g].refs \subseteq Declared(d)
           /\ \A p \in Purposes : PurposeNames(d, d.purposes[p])
BY DEF ValidatedDocument, CheckModelReferences, CheckDefaults, CheckModelRefs, PurposeNames

\* An edit whose target validates, or that is taken back, keeps a document that
\* validates when the checks of its target are enough for the whole (commit_edit).
LEMMA CommitEditKeeps ==
  ASSUME RulesInv, UNCHANGED baseLayer, NEW d, NEW ok \in BOOLEAN, CommitEdit(d, ok),
         ok => d \in DocRecord /\ d.defaults.model # NoModel /\ ValidatedDocument(d)
  PROVE  RulesInv'
<1>1. CASE ok
  <2>1. doc' = d /\ typedView' = d
    BY <1>1 DEF CommitEdit, ValidateTarget, RefreshView
  <2>2. BaseIsShipped'
    BY DEF RulesInv, BaseIsShipped
  <2>3. ValidatedDocument(doc)'
    BY <1>1, <2>1 DEF ValidatedDocument, CheckModelReferences, CheckDefaults, CheckModelRefs,
                      Declared, ConnectionAdmitted
  <2>4. QED BY <1>1, <2>1, <2>2, <2>3 DEF RulesInv, EditsKeepValid
<1>2. CASE ~ ok
  <2>1. UNCHANGED <<doc, typedView>>
    BY <1>2 DEF CommitEdit, ValidateTarget
  <2>2. QED
    BY <2>1 DEF RulesInv, BaseIsShipped, EditsKeepValid, ValidatedDocument, CheckModelReferences,
                CheckDefaults, CheckModelRefs, Declared, ConnectionAdmitted
<1>3. QED BY <1>1, <1>2

\* Another slot of a binding.
LEMMA SlottedIs ==
  ASSUME NEW field \in {"model", "fallback"}, NEW v \in ModelRecord
  PROVE  /\ \A def \in DefaultsRecord :
              /\ Slotted(def, field, v) \in DefaultsRecord
              /\ Slotted(def, field, v).model = IF field = "model" THEN v ELSE def.model
              /\ Slotted(def, field, v).fallback = IF field = "model" THEN def.fallback ELSE v
         /\ \A def \in PurposeRecord :
              /\ Slotted(def, field, v) \in PurposeRecord
              /\ Slotted(def, field, v).model = IF field = "model" THEN v ELSE def.model
              /\ Slotted(def, field, v).fallback = IF field = "model" THEN def.fallback ELSE v
              /\ Slotted(def, field, v).group = def.group
BY DEF Slotted, DefaultsRecord, PurposeRecord

\* A document with another purpose, group or defaults.
LEMMA WithParts ==
  ASSUME doc \in DocRecord
  PROVE  /\ \A def \in DefaultsRecord :
              LET d == [doc EXCEPT !.defaults = def]
              IN /\ d \in DocRecord /\ d.defaults = def /\ d.groups = doc.groups
                 /\ d.purposes = doc.purposes /\ d.connections = doc.connections /\ d.profiles = doc.profiles
         /\ \A p \in Purposes, def \in PurposeRecord :
              LET d == WithPurpose(p, def)
              IN /\ d \in DocRecord /\ d.defaults = doc.defaults /\ d.groups = doc.groups
                 /\ d.purposes[p] = def /\ (\A q \in Purposes : q # p => d.purposes[q] = doc.purposes[q])
                 /\ d.connections = doc.connections /\ d.profiles = doc.profiles
         /\ \A g \in Groups, m \in ModelRecord :
              LET d == WithGroup(g, m)
              IN /\ d \in DocRecord /\ d.defaults = doc.defaults /\ d.purposes = doc.purposes
                 /\ d.groups[g] = m /\ (\A h \in Groups : h # g => d.groups[h] = doc.groups[h])
                 /\ d.connections = doc.connections /\ d.profiles = doc.profiles
BY DEF DocRecord, WithPurpose, WithGroup

\* A document with the connections and the profiles it had declares what it declared
\* and admits what it admitted.
LEMMA ConnectionsStand ==
  ASSUME RulesInv, NEW d, d.connections = doc.connections, d.profiles = doc.profiles
  PROVE  /\ Declared(d) = Declared(doc) /\ Declared(d) # {}
         /\ \A c \in Declared(d) : ConnectionAdmitted(d, d.connections[c])
<1>1. ValidatedDocument(doc)
  BY DEF RulesInv, EditsKeepValid
<1>2. QED BY <1>1 DEF Declared, ConnectionAdmitted, ValidatedDocument

\* The defaults take a value (set models.defaults).
LEMMA SetDefaultsKeeps ==
  ASSUME RulesInv, UNCHANGED baseLayer, NEW field \in {"model", "fallback"},
         NEW v \in IF field = "model" THEN WireModel ELSE WireFallback, SetDefaults(field, v)
  PROVE  RulesInv'
<1> DEFINE def == Slotted(doc.defaults, field, v)
           d == [doc EXCEPT !.defaults = def]
<1>1. doc \in DocRecord /\ doc.defaults \in DefaultsRecord /\ v \in ModelRecord
      /\ doc.defaults.model # NoModel /\ (field = "model" => v # NoModel)
  BY WireIsModel DEF RulesInv, DocRecord
<1>2. def \in DefaultsRecord
      /\ def.model = (IF field = "model" THEN v ELSE doc.defaults.model)
      /\ def.fallback = (IF field = "model" THEN doc.defaults.fallback ELSE v)
  BY <1>1, SlottedIs
<1>3. d \in DocRecord /\ d.defaults = def /\ d.groups = doc.groups
      /\ d.purposes = doc.purposes /\ d.connections = doc.connections /\ d.profiles = doc.profiles
  BY <1>1, <1>2, WithParts
<1>4. CommitEdit(d, CheckModelRefs(d, v))
  BY DEF SetDefaults
<1> HIDE DEF d, def
<1>5. Declared(d) = Declared(doc) /\ Declared(d) # {}
      /\ \A c \in Declared(d) : ConnectionAdmitted(d, d.connections[c])
  BY <1>3, ConnectionsStand
<1>6. ASSUME CheckModelRefs(d, v) PROVE ValidatedDocument(d)
  <2>1. ValidatedDocument(doc)
    BY DEF RulesInv, EditsKeepValid
  <2>2. v.refs \subseteq Declared(d)
    BY <1>6 DEF CheckModelRefs
  <2>3. QED BY <1>2, <1>3, <1>5, <2>1, <2>2, ValidatedParts DEF PurposeNames
<1>7. CheckModelRefs(d, v) \in BOOLEAN
  BY DEF CheckModelRefs
<1>8. d.defaults.model # NoModel
  BY <1>1, <1>2, <1>3
<1>9. QED BY <1>3, <1>4, <1>6, <1>7, <1>8, CommitEditKeeps

\* A group takes a model (set models.groups).
LEMMA SetGroupKeeps ==
  ASSUME RulesInv, UNCHANGED baseLayer, NEW g \in Groups, NEW m \in WireModel, SetGroup(g, m)
  PROVE  RulesInv'
<1> DEFINE d == WithGroup(g, m)
<1>1. doc \in DocRecord /\ m \in ModelRecord /\ m # NoModel /\ doc.defaults.model # NoModel
  BY WireIsModel DEF RulesInv
<1>2. d \in DocRecord /\ d.defaults = doc.defaults /\ d.purposes = doc.purposes
      /\ d.groups[g] = m /\ (\A h \in Groups : h # g => d.groups[h] = doc.groups[h])
      /\ d.connections = doc.connections /\ d.profiles = doc.profiles
  BY <1>1, WithParts
<1>3. CommitEdit(d, CheckModelRefs(d, m))
  BY DEF SetGroup
<1> HIDE DEF d
<1>4. Declared(d) = Declared(doc) /\ Declared(d) # {}
      /\ \A c \in Declared(d) : ConnectionAdmitted(d, d.connections[c])
  BY <1>2, ConnectionsStand
<1>5. ASSUME CheckModelRefs(d, m) PROVE ValidatedDocument(d)
  <2>1. ValidatedDocument(doc)
    BY DEF RulesInv, EditsKeepValid
  <2>2. m.refs \subseteq Declared(d)
    BY <1>5 DEF CheckModelRefs
  <2>3. \A p \in Purposes : d.purposes[p].group \in Groups \cup {"none"}
    BY <1>2 DEF DocRecord, PurposeRecord
  <2>4. \A p \in Purposes : PurposeNames(d, d.purposes[p])
    BY <1>1, <1>2, <1>4, <2>1, <2>3, ValidatedParts DEF PurposeNames
  <2>5. \A h \in Groups : d.groups[h].refs \subseteq Declared(d)
    BY <1>2, <1>4, <2>1, <2>2, ValidatedParts
  <2>6. QED BY <1>2, <1>4, <2>1, <2>4, <2>5, ValidatedParts
<1>6. CheckModelRefs(d, m) \in BOOLEAN
  BY DEF CheckModelRefs
<1>7. QED BY <1>1, <1>2, <1>3, <1>5, <1>6, CommitEditKeeps

\* A purpose keeps its group and takes another model or fallback (set and reset
\* models.purposes).
LEMMA PurposeKeeps ==
  ASSUME RulesInv, UNCHANGED baseLayer, NEW p \in Purposes, NEW def \in PurposeRecord,
         def.group = doc.purposes[p].group, NEW ok \in BOOLEAN, CommitEdit(WithPurpose(p, def), ok),
         ok => def.model.refs \subseteq Declared(doc) /\ def.fallback.refs \subseteq Declared(doc)
  PROVE  RulesInv'
<1> DEFINE d == WithPurpose(p, def)
<1>1. doc \in DocRecord /\ doc.defaults.model # NoModel /\ ValidatedDocument(doc)
  BY DEF RulesInv, EditsKeepValid
<1>2. d \in DocRecord /\ d.defaults = doc.defaults /\ d.groups = doc.groups
      /\ d.purposes[p] = def /\ (\A q \in Purposes : q # p => d.purposes[q] = doc.purposes[q])
      /\ d.connections = doc.connections /\ d.profiles = doc.profiles
  BY <1>1, WithParts
<1>3. CommitEdit(d, ok)
  OBVIOUS
<1> HIDE DEF d
<1>4. Declared(d) = Declared(doc) /\ Declared(d) # {}
      /\ \A c \in Declared(d) : ConnectionAdmitted(d, d.connections[c])
  BY <1>2, ConnectionsStand
<1>5. ok => ValidatedDocument(d)
  <2>1. ok => \A q \in Purposes : PurposeNames(d, d.purposes[q])
    BY <1>1, <1>2, <1>4, ValidatedParts DEF PurposeNames
  <2>2. QED BY <1>1, <1>2, <1>4, <2>1, ValidatedParts
<1>6. QED BY <1>1, <1>2, <1>3, <1>5, CommitEditKeeps

\* The models a purpose names are declared, and so is what an edit adds.
LEMMA SetPurposeKeeps ==
  ASSUME RulesInv, UNCHANGED baseLayer, NEW field \in {"model", "fallback"}, NEW p \in Purposes,
         \/ \E v \in IF field = "model" THEN WireModel ELSE WireFallback : SetPurpose(p, field, v)
         \/ ResetPurpose(p, field)
  PROVE  RulesInv'
<1> DEFINE own == doc.purposes[p]
           named == [doc.purposes[p] EXCEPT !.declared = TRUE]
<1>1. /\ own \in PurposeRecord /\ named \in PurposeRecord /\ named.group = own.group
      /\ named.model = own.model /\ named.fallback = own.fallback
  BY DEF RulesInv, DocRecord, PurposeRecord
<1>2. own.model.refs \subseteq Declared(doc) /\ own.fallback.refs \subseteq Declared(doc)
  BY ValidatedParts DEF RulesInv, EditsKeepValid, PurposeNames
<1>3. CASE ResetPurpose(p, field)
  <2> DEFINE def == Slotted(own, field, NoModel)
  <2>1. CommitEdit(WithPurpose(p, def), TRUE)
    BY <1>3 DEF ResetPurpose
  <2>2. /\ def \in PurposeRecord /\ def.group = own.group
        /\ def.model = (IF field = "model" THEN NoModel ELSE own.model)
        /\ def.fallback = (IF field = "model" THEN own.fallback ELSE NoModel)
    <3> HIDE DEF own, named
    <3>1. QED BY <1>1, WireIsModel, SlottedIs
  <2> HIDE DEF def
  <2>3. def.model.refs \subseteq Declared(doc) /\ def.fallback.refs \subseteq Declared(doc)
    BY <1>2, <2>2, WireIsModel
  <2>4. QED BY <2>1, <2>2, <2>3, PurposeKeeps
<1>4. ASSUME NEW v \in IF field = "model" THEN WireModel ELSE WireFallback, SetPurpose(p, field, v)
      PROVE  RulesInv'
  <2> DEFINE def == Slotted(named, field, v)
             d == WithPurpose(p, def)
  <2>1. v \in ModelRecord
    BY WireIsModel
  <2>2. CommitEdit(d, CheckModelRefs(d, v))
    BY <1>4 DEF SetPurpose
  <2>3. /\ def \in PurposeRecord /\ def.group = own.group
        /\ def.model = (IF field = "model" THEN v ELSE own.model)
        /\ def.fallback = (IF field = "model" THEN own.fallback ELSE v)
    <3> HIDE DEF own, named
    <3>1. QED BY <1>1, <2>1, SlottedIs
  <2> HIDE DEF def
  <2>4. d.connections = doc.connections
    BY <2>3, WithParts DEF RulesInv
  <2>5. CheckModelRefs(d, v) \in BOOLEAN /\ (CheckModelRefs(d, v) => v.refs \subseteq Declared(doc))
    BY <2>4 DEF CheckModelRefs, Declared
  <2>6. CheckModelRefs(d, v) => /\ def.model.refs \subseteq Declared(doc)
                                /\ def.fallback.refs \subseteq Declared(doc)
    BY <1>2, <2>3, <2>5
  <2>7. QED BY <2>2, <2>3, <2>5, <2>6, PurposeKeeps
<1>5. QED BY <1>3, <1>4

\* A declared connection takes a declared profile, or none (set connections.profile).
LEMMA SetConnectionProfileKeeps ==
  ASSUME RulesInv, UNCHANGED baseLayer, NEW c \in Connections, NEW f \in Profiles \cup {"none"},
         SetConnectionProfile(c, f)
  PROVE  RulesInv'
<1> DEFINE own == [doc.connections[c] EXCEPT !.profile = f]
           d == [doc EXCEPT !.connections = [doc.connections EXCEPT ![c] = own]]
           ok == f # "none" => doc.profiles[f] # "none"
<1>1. doc \in DocRecord /\ doc.defaults.model # NoModel /\ ValidatedDocument(doc) /\ c \in Declared(doc)
  BY DEF RulesInv, EditsKeepValid, SetConnectionProfile
<1>2. CommitEdit(d, ok)
  BY DEF SetConnectionProfile
<1>3. doc.connections[c] # NoConnection /\ doc.connections[c] \in ConnectionRecord
  BY <1>1 DEF Declared, DocRecord
<1>4. /\ own \in ConnectionRecord /\ own # NoConnection /\ own.profile = f
      /\ own.kind = doc.connections[c].kind /\ own.credential = doc.connections[c].credential
  BY <1>3 DEF ConnectionRecord, NoConnection
<1> HIDE DEF own
<1>5. /\ d \in DocRecord /\ d.defaults = doc.defaults /\ d.groups = doc.groups
      /\ d.purposes = doc.purposes /\ d.profiles = doc.profiles
      /\ d.connections[c] = own /\ \A e \in Connections : e # c => d.connections[e] = doc.connections[e]
  BY <1>1, <1>4 DEF DocRecord
<1> HIDE DEF d
<1>6. Declared(d) = Declared(doc)
  BY <1>3, <1>4, <1>5 DEF Declared
<1>7. ok => \A e \in Declared(d) : ConnectionAdmitted(d, d.connections[e])
  <2>1. \A e \in Declared(doc) : e \in Connections /\ ConnectionAdmitted(doc, doc.connections[e])
    BY <1>1, ValidatedParts DEF Declared
  <2>2. QED BY <1>1, <1>4, <1>5, <1>6, <2>1 DEF ConnectionAdmitted
<1>8. ok => ValidatedDocument(d)
  BY <1>1, <1>5, <1>6, <1>7, ValidatedParts DEF PurposeNames
<1>9. ok \in BOOLEAN
  OBVIOUS
<1> HIDE DEF ok
<1>10. QED BY <1>1, <1>2, <1>5, <1>8, <1>9, CommitEditKeeps

\* A profile takes a credential (set profiles.credential_ref).
LEMMA SetProfileKeeps ==
  ASSUME RulesInv, UNCHANGED baseLayer, NEW f \in Profiles, SetProfile(f, "ref")
  PROVE  RulesInv'
<1> DEFINE d == [doc EXCEPT !.profiles = [doc.profiles EXCEPT ![f] = "ref"]]
<1>1. doc \in DocRecord /\ doc.defaults.model # NoModel /\ ValidatedDocument(doc)
  BY DEF RulesInv, EditsKeepValid
<1>2. CommitEdit(d, TRUE)
  BY DEF SetProfile
<1>3. /\ d \in DocRecord /\ d.defaults = doc.defaults /\ d.groups = doc.groups
      /\ d.purposes = doc.purposes /\ d.connections = doc.connections
      /\ \A e \in Profiles : d.profiles[e] # "none" \/ d.profiles[e] = doc.profiles[e]
  BY <1>1 DEF DocRecord
<1> HIDE DEF d
<1>4. Declared(d) = Declared(doc)
  BY <1>3 DEF Declared
<1>5. \A e \in Declared(d) : ConnectionAdmitted(d, d.connections[e])
  <2>1. \A e \in Declared(doc) : /\ ConnectionAdmitted(doc, doc.connections[e])
                                 /\ doc.connections[e].profile \in Profiles \cup {"none"}
    BY <1>1, ValidatedParts DEF Declared, DocRecord, ConnectionRecord, NoConnection
  <2>2. QED BY <1>3, <1>4, <2>1 DEF ConnectionAdmitted
<1>6. ValidatedDocument(d)
  BY <1>1, <1>3, <1>4, <1>5, ValidatedParts DEF PurposeNames
<1>7. QED BY <1>1, <1>2, <1>3, <1>6, CommitEditKeeps

\* A binding moves with its group to a purpose that holds nothing, or the same
\* (rebind_purpose).
LEMMA RebindIs ==
  ASSUME doc \in DocRecord, NEW from \in Purposes, NEW to \in Purposes, RebindPurpose(from, to)
  PROVE  /\ doc' \in DocRecord /\ from # to /\ doc.purposes[to] \in {NoPurpose, doc.purposes[from]}
         /\ doc'.defaults = doc.defaults /\ doc'.groups = doc.groups
         /\ doc'.connections = doc.connections /\ doc'.profiles = doc.profiles
         /\ doc'.purposes[to] = doc.purposes[from] /\ doc'.purposes[from] = NoPurpose
         /\ \A q \in Purposes \ {from, to} : doc'.purposes[q] = doc.purposes[q]
<1> DEFINE ps == [doc.purposes EXCEPT ![to] = doc.purposes[from], ![from] = NoPurpose]
<1>1. /\ doc' = [doc EXCEPT !.purposes = ps] /\ from # to
      /\ doc.purposes[to] \in {NoPurpose, doc.purposes[from]}
  BY DEF RebindPurpose, Rebindable
<1>2. /\ ps \in [Purposes -> PurposeRecord] /\ ps[to] = doc.purposes[from] /\ ps[from] = NoPurpose
      /\ \A q \in Purposes \ {from, to} : ps[q] = doc.purposes[q]
  BY <1>1, NoPurposeIs DEF DocRecord
<1> HIDE DEF ps
<1>3. QED BY <1>1, <1>2 DEF DocRecord

LEMMA RebindKeeps ==
  ASSUME RulesInv, UNCHANGED baseLayer, NEW from \in Purposes, NEW to \in Purposes,
         RebindPurpose(from, to)
  PROVE  RulesInv'
<1>1. doc \in DocRecord /\ doc.defaults.model # NoModel /\ ValidatedDocument(doc)
  BY DEF RulesInv, EditsKeepValid
<1>2. PICK d : /\ doc' = d /\ RefreshView(d)
  BY DEF RebindPurpose
<1>3. /\ d \in DocRecord /\ d.defaults = doc.defaults /\ d.groups = doc.groups
      /\ d.connections = doc.connections /\ d.profiles = doc.profiles
      /\ d.purposes[to] = doc.purposes[from] /\ d.purposes[from] = NoPurpose
      /\ \A q \in Purposes \ {from, to} : d.purposes[q] = doc.purposes[q]
  BY <1>1, <1>2, RebindIs
<1>4. Declared(d) = Declared(doc) /\ Declared(d) # {}
      /\ \A c \in Declared(d) : ConnectionAdmitted(d, d.connections[c])
  BY <1>3, ConnectionsStand
<1>5. \A q \in Purposes : PurposeNames(d, d.purposes[q])
  <2>1. PurposeNames(d, NoPurpose)
    BY NoPurposeIs DEF PurposeNames
  <2>2. \A q \in Purposes : PurposeNames(d, doc.purposes[q])
    BY <1>1, <1>3, <1>4, ValidatedParts DEF PurposeNames
  <2>3. QED BY <1>3, <2>1, <2>2
<1>6. ValidatedDocument(d)
  BY <1>1, <1>3, <1>4, <1>5, ValidatedParts
<1>7. CommitEdit(d, TRUE)
  BY <1>2 DEF CommitEdit, ValidateTarget
<1>8. QED BY <1>1, <1>3, <1>6, <1>7, CommitEditKeeps

\* A started runtime holds a document that validated, over the shipped base.
LEMMA RulesInitHolds == RulesInit => RulesInv
<1> SUFFICES ASSUME RulesInit PROVE RulesInv
  OBVIOUS
<1>1. BaseIsShipped
  <2>1. PICK grouped \in {own \in BOOLEAN : own => Groups # {}} :
          baseLayer = [model |-> Model("auto", {}),
             groups |-> [g \in Groups |-> IF grouped THEN Model("auto", {}) ELSE NoModel],
             purposes |-> [p \in Purposes |-> IF grouped THEN BoundTo(Group1) ELSE NoPurpose]]
    BY DEF RulesInit, BaseLayers
  <2>2. grouped => Group1 \in Groups
    BY <2>1 DEF Group1
  <2>3. QED BY <2>1, <2>2 DEF BaseIsShipped
<1>2. ValidatedDocument(doc) /\ typedView = doc
  BY DEF RulesInit
<1>3. /\ doc.defaults = [model |-> Model("auto", {}), fallback |-> Model("off", {})]
      /\ doc.profiles \in [Profiles -> {"none", "ref"}]
      /\ doc.connections \in InitialConnections
      /\ doc.groups \in {[g \in Groups |-> NoModel], [g \in Groups |-> Model("inherit", {})]}
      /\ doc.purposes \in [Purposes -> {NoPurpose} \cup {BoundTo(g) : g \in Groups}]
      /\ doc = [connections |-> doc.connections, profiles |-> doc.profiles, defaults |-> doc.defaults,
                groups |-> doc.groups, purposes |-> doc.purposes]
  BY DEF RulesInit
<1>4. doc.defaults \in DefaultsRecord /\ doc.defaults.model # NoModel
  BY <1>3, WireIsModel DEF DefaultsRecord
<1>5. doc.groups \in [Groups -> ModelRecord]
  BY <1>3, WireIsModel
<1>6. doc.connections \in [Connections -> ConnectionRecord]
  BY <1>3 DEF InitialConnections, ConnectionRecord
<1>7. doc.purposes \in [Purposes -> PurposeRecord]
  <2>1. \A g \in Groups : BoundTo(g) \in PurposeRecord
    BY WireIsModel DEF BoundTo, PurposeRecord
  <2>2. QED BY <1>3, <2>1, NoPurposeIs
<1>8. doc \in DocRecord
  BY <1>3, <1>4, <1>5, <1>6, <1>7 DEF DocRecord
<1>9. QED BY <1>1, <1>2, <1>4, <1>8 DEF RulesInv, EditsKeepValid

\* Every edit of the document keeps the invariant.
LEMMA RulesStep == RulesInv /\ [RulesNext]_rulesVars => RulesInv'
<1> SUFFICES ASSUME RulesInv, [RulesNext]_rulesVars PROVE RulesInv'
  OBVIOUS
<1>1. CASE UNCHANGED rulesVars
  <2>1. CommitEdit(doc, FALSE) /\ UNCHANGED baseLayer
    BY <1>1 DEF rulesVars, CommitEdit, ValidateTarget
  <2>2. QED BY <2>1, CommitEditKeeps
<1>2. CASE RulesNext
  <2>1. UNCHANGED baseLayer
    BY <1>2 DEF RulesNext
  <2>2. ASSUME NEW f \in {"model", "fallback"}, NEW v \in IF f = "model" THEN WireModel ELSE WireFallback,
               SetDefaults(f, v)
        PROVE  RulesInv'
    BY <2>1, <2>2, SetDefaultsKeeps
  <2>3. ASSUME NEW f \in {"model", "fallback"}, NEW p \in Purposes,
               \/ \E v \in IF f = "model" THEN WireModel ELSE WireFallback : SetPurpose(p, f, v)
               \/ ResetPurpose(p, f)
        PROVE  RulesInv'
    BY <2>1, <2>3, SetPurposeKeeps
  <2>4. ASSUME NEW m \in WireModel, NEW g \in Groups, SetGroup(g, m) PROVE RulesInv'
    BY <2>1, <2>4, SetGroupKeeps
  <2>5. ASSUME NEW p \in Purposes, NEW q \in Purposes, RebindPurpose(p, q) PROVE RulesInv'
    BY <2>1, <2>5, RebindKeeps
  <2>6. ASSUME NEW c \in Connections, NEW f \in Profiles \cup {"none"}, SetConnectionProfile(c, f)
        PROVE  RulesInv'
    BY <2>1, <2>6, SetConnectionProfileKeeps
  <2>7. ASSUME NEW f \in Profiles, SetProfile(f, "ref") PROVE RulesInv'
    BY <2>1, <2>7, SetProfileKeeps
  <2>8. QED BY <1>2, <2>2, <2>3, <2>4, <2>5, <2>6, <2>7 DEF RulesNext
<1>3. QED BY <1>1, <1>2

\* A purpose of the layers resolves: its own model, or its group's, or the defaults'
\* over the base's (compose_models, resolve_purpose).
LEMMA PurposesResolve == RulesInv => EveryPurposeResolves
<1> SUFFICES ASSUME RulesInv, NEW p \in Purposes
             PROVE  LET all == Composed(typedView)
                    IN /\ ResolvedModel(all, p) # NoModel
                       /\ CheckModelRefs(all, ResolvedModel(all, p))
                       /\ CheckModelRefs(all, ResolvedFallback(all, p))
  BY DEF EveryPurposeResolves
<1> DEFINE all == Composed(doc)
           def == all.purposes[p]
<1>1. doc \in DocRecord /\ doc.defaults.model # NoModel /\ ValidatedDocument(doc) /\ typedView = doc
      /\ BaseIsShipped
  BY DEF RulesInv, EditsKeepValid
<1>2. /\ all.connections = doc.connections /\ all.defaults = ComposeDefaults(doc.defaults)
      /\ all.groups = [g \in Groups |-> Over(doc.groups[g], baseLayer.groups[g], NoModel)]
      /\ all.purposes = [q \in Purposes |-> Over(doc.purposes[q], baseLayer.purposes[q], NoPurpose)]
  BY <1>1 DEF Composed, DocRecord
<1>3. Declared(all) = Declared(doc)
  BY <1>2 DEF Declared
<1>4. /\ all.defaults.model # NoModel /\ all.defaults.model.refs \subseteq Declared(doc)
      /\ all.defaults.fallback.refs \subseteq Declared(doc)
  <2>1. /\ all.defaults.fallback = doc.defaults.fallback
        /\ all.defaults.model = IF doc.defaults.model.mode = "inherit" THEN Model("auto", {})
                                ELSE doc.defaults.model
    BY <1>1, <1>2 DEF ComposeDefaults, BaseIsShipped, DocRecord, DefaultsRecord
  <2>2. Model("auto", {}).refs = {}
    BY DEF Model
  <2>3. QED BY <1>1, <2>1, <2>2, WireIsModel, ValidatedParts
<1>5. \A g \in Groups :
         /\ all.groups[g].refs \subseteq Declared(doc)
         /\ doc.groups[g] # NoModel \/ baseLayer.groups[g] = Model("auto", {}) => all.groups[g] # NoModel
  <2>1. \A g \in Groups : all.groups[g] = IF doc.groups[g] # NoModel THEN doc.groups[g]
                                          ELSE baseLayer.groups[g]
    BY <1>2 DEF Over
  <2>2. \A g \in Groups : baseLayer.groups[g] = Model("auto", {}) \/ baseLayer.groups[g] = NoModel
    BY <1>1 DEF BaseIsShipped
  <2>3. Model("auto", {}).refs = {}
    BY DEF Model
  <2>4. QED BY <1>1, <2>1, <2>2, <2>3, WireIsModel, ValidatedParts
<1>6. /\ def.model.refs \subseteq Declared(doc) /\ def.fallback.refs \subseteq Declared(doc)
      /\ def.model.mode \in {"auto", "fixed"} => def.model # NoModel
      /\ def.group # "none" => def.group \in Groups /\ all.groups[def.group] # NoModel
  <2>1. NoModel.mode = "none"
    BY DEF NoModel, Model
  <2>2. CASE doc.purposes[p] # NoPurpose
    <3>1. def = doc.purposes[p] /\ doc.purposes[p] \in PurposeRecord
      BY <1>1, <1>2, <2>2 DEF Over, DocRecord
    <3>2. PurposeNames(doc, doc.purposes[p])
      BY <1>1, ValidatedParts
    <3>3. doc.purposes[p].group \in Groups \cup {"none"}
      BY <3>1 DEF PurposeRecord
    <3>4. QED BY <1>5, <2>1, <3>1, <3>2, <3>3 DEF PurposeNames
  <2>3. CASE doc.purposes[p] = NoPurpose
    <3>1. def = baseLayer.purposes[p]
      BY <1>2, <2>3 DEF Over
    <3>2. CASE baseLayer.purposes[p] = NoPurpose
      BY <2>1, <3>1, <3>2, NoPurposeIs DEF NoPurpose
    <3>3. CASE \E g \in Groups : baseLayer.groups[g] = Model("auto", {}) /\ baseLayer.purposes[p] = BoundTo(g)
      BY <1>5, <2>1, <3>1, <3>3, WireIsModel DEF BoundTo
    <3>4. QED BY <1>1, <3>2, <3>3 DEF BaseIsShipped
  <2>4. QED BY <2>2, <2>3
<1> HIDE DEF all
<1>7. ResolvedModel(all, p) # NoModel /\ ResolvedModel(all, p).refs \subseteq Declared(doc)
  BY <1>4, <1>5, <1>6 DEF ResolvedModel
<1>8. ResolvedFallback(all, p).refs \subseteq Declared(doc)
  BY <1>4, <1>6 DEF ResolvedFallback
<1>9. CheckModelRefs(all, ResolvedModel(all, p)) /\ CheckModelRefs(all, ResolvedFallback(all, p))
  BY <1>3, <1>7, <1>8 DEF CheckModelRefs
<1>10. QED BY <1>1, <1>7, <1>9 DEF all

\* A step leaves a bound purpose its group, or moves it to one that held nothing or
\* the same.
BindingStep ==
    \A p \in Purposes :
        doc.purposes[p].group # "none" =>
            \E q \in Purposes : doc'.purposes[q].group = doc.purposes[p].group
                                /\ (q # p => doc.purposes[q] \in {NoPurpose, doc.purposes[p]})

LEMMA BindingsStep == RulesInv /\ [RulesNext]_rulesVars => BindingStep
<1> SUFFICES ASSUME RulesInv, [RulesNext]_rulesVars PROVE BindingStep
  OBVIOUS
<1> DEFINE Keeps == \A p \in Purposes : doc'.purposes[p].group = doc.purposes[p].group
<1>1. Keeps => BindingStep
  BY DEF BindingStep
<1>2. doc \in DocRecord
  BY DEF RulesInv
<1>3. \A d, ok : CommitEdit(d, ok) => doc' = d \/ doc' = doc
  BY DEF CommitEdit, ValidateTarget
<1>4. CASE UNCHANGED rulesVars
  BY <1>1, <1>4 DEF rulesVars
<1>5. ASSUME NEW f \in {"model", "fallback"}, NEW v \in IF f = "model" THEN WireModel ELSE WireFallback,
             SetDefaults(f, v)
      PROVE  Keeps
  <2> DEFINE def == Slotted(doc.defaults, f, v)
  <2>1. [doc EXCEPT !.defaults = def].purposes = doc.purposes
    BY <1>2 DEF DocRecord
  <2>2. QED BY <1>3, <1>5, <2>1 DEF SetDefaults
<1>6. ASSUME NEW p \in Purposes, NEW def \in PurposeRecord, def.group = doc.purposes[p].group,
             doc' = WithPurpose(p, def) \/ doc' = doc
      PROVE  Keeps
  BY <1>2, <1>6, WithParts
<1>7. ASSUME NEW f \in {"model", "fallback"}, NEW p \in Purposes,
             \/ \E v \in IF f = "model" THEN WireModel ELSE WireFallback : SetPurpose(p, f, v)
             \/ ResetPurpose(p, f)
      PROVE  Keeps
  <2> DEFINE own == doc.purposes[p]
             named == [doc.purposes[p] EXCEPT !.declared = TRUE]
  <2>1. own \in PurposeRecord /\ named \in PurposeRecord /\ named.group = own.group
    BY <1>2 DEF DocRecord, PurposeRecord
  <2>2. PICK v \in ModelRecord :
          \/ doc' = WithPurpose(p, Slotted(named, f, v)) \/ doc' = WithPurpose(p, Slotted(own, f, v))
          \/ doc' = doc
    BY <1>3, <1>7, WireIsModel DEF SetPurpose, ResetPurpose
  <2> HIDE DEF own, named
  <2>3. /\ Slotted(named, f, v) \in PurposeRecord /\ Slotted(own, f, v) \in PurposeRecord
        /\ Slotted(named, f, v).group = own.group /\ Slotted(own, f, v).group = own.group
    BY <2>1, SlottedIs
  <2>4. QED BY <1>6, <2>2, <2>3 DEF own
<1>8. ASSUME NEW m \in WireModel, NEW g \in Groups, SetGroup(g, m) PROVE Keeps
  <2>1. WithGroup(g, m).purposes = doc.purposes
    BY <1>2, WireIsModel, WithParts
  <2>2. QED BY <1>3, <1>8, <2>1 DEF SetGroup
<1>9. ASSUME NEW p \in Purposes, NEW q \in Purposes, RebindPurpose(p, q) PROVE BindingStep
  <2> SUFFICES ASSUME NEW b \in Purposes, doc.purposes[b].group # "none"
               PROVE  \E a \in Purposes :
                         doc'.purposes[a].group = doc.purposes[b].group
                         /\ (a # b => doc.purposes[a] \in {NoPurpose, doc.purposes[b]})
    BY DEF BindingStep
  <2>1. /\ p # q /\ doc.purposes[q] \in {NoPurpose, doc.purposes[p]}
        /\ doc'.purposes[q] = doc.purposes[p]
        /\ \A a \in Purposes \ {p, q} : doc'.purposes[a] = doc.purposes[a]
    BY <1>2, <1>9, RebindIs
  <2>2. doc.purposes[b] # NoPurpose
    BY NoPurposeIs
  <2>3. CASE b = p \/ b = q
    <3>1. doc'.purposes[q].group = doc.purposes[b].group
      BY <2>1, <2>2, <2>3
    <3>2. q # b => doc.purposes[q] \in {NoPurpose, doc.purposes[b]}
      BY <2>1, <2>3
    <3>3. QED BY <3>1, <3>2
  <2>4. CASE b \notin {p, q}
    BY <2>1, <2>4
  <2>5. QED BY <2>3, <2>4
<1>10. ASSUME NEW c \in Connections, NEW f \in Profiles \cup {"none"}, SetConnectionProfile(c, f)
       PROVE  Keeps
  <2> DEFINE cs == [doc.connections EXCEPT ![c] = [doc.connections[c] EXCEPT !.profile = f]]
  <2>1. [doc EXCEPT !.connections = cs].purposes = doc.purposes
    BY <1>2 DEF DocRecord
  <2>2. QED BY <1>3, <1>10, <2>1 DEF SetConnectionProfile
<1>11. ASSUME NEW f \in Profiles, SetProfile(f, "ref") PROVE Keeps
  <2> DEFINE fs == [doc.profiles EXCEPT ![f] = "ref"]
  <2>1. [doc EXCEPT !.profiles = fs].purposes = doc.purposes
    BY <1>2 DEF DocRecord
  <2>2. QED BY <1>3, <1>11, <2>1 DEF SetProfile
<1> HIDE DEF Keeps
<1>12. QED BY <1>1, <1>4, <1>5, <1>7, <1>8, <1>9, <1>10, <1>11 DEF RulesNext

\* Configuration as a whole: a receipt is for bytes that stood in its file, what is served
\* has landed, no pending edit is journaled twice, edits that check their own key alone
\* keep the document valid and every purpose of the layers resolvable, and no edit loses
\* a purpose's binding (commit_edit, resolve_purpose, rebind_purpose).
THEOREM ConfigurationSafe == EditsSpec /\ RulesSpec => ConfigurationStands
<1>1. RulesInv => EditsKeepValid /\ EveryPurposeResolves
  BY PurposesResolve DEF RulesInv
<1>2. RulesSpec => [](EditsKeepValid /\ EveryPurposeResolves)
  BY <1>1, RulesInitHolds, RulesStep, PTL DEF RulesSpec
<1>3. RulesInv /\ [RulesNext]_rulesVars => [BindingStep]_rulesVars
  BY BindingsStep
<1>4. RulesSpec => [][BindingStep]_rulesVars
  BY <1>3, RulesInitHolds, RulesStep, PTL DEF RulesSpec
<1>5. QED BY <1>2, <1>4, EditsSafe, PTL DEF ConfigurationStands, BindingsSurvive, BindingStep

-----------------------------------------------------------------------------
(***************************************************************************)
(* Requests.                                                               *)
(***************************************************************************)
\* Where an open in progress stands.
Opened == [of : {"open"}, at : {"attach", "session", "receipt"}, key : Bootstrap, id : Nat, session : Nat]

BootTypeOK ==
    bootstraps \in [sessions : SUBSET Nat, attached : SUBSET Nat,
                    receipts : [Bootstrap -> [id : Nat, session : Nat]],
                    opening : {NoReceipt} \cup Opened, minted : Nat]

\* What an open has written when it comes to each of its statements.
OpenedStands ==
    bootstraps.opening # NoReceipt =>
        /\ bootstraps.opening.at # "attach" => bootstraps.opening.id \in bootstraps.attached
        /\ bootstraps.opening.at = "receipt" => bootstraps.opening.session \in bootstraps.sessions

BootInv == BootTypeOK /\ OpenedStands /\ BootstrapStands

\* No session is being opened at first.
LEMMA BootInvInit == BootInit => BootInv
<1> SUFFICES ASSUME BootInit PROVE BootInv
  OBVIOUS
<1>1. /\ bootstraps.receipts = [b \in Bootstrap |-> NoBootstrap] /\ bootstraps.opening = NoReceipt
      /\ bootstraps.minted = 0
  BY DEF BootInit
<1>2. BootTypeOK
  BY <1>1 DEF BootInit, BootTypeOK, NoBootstrap
<1>3. QED BY <1>1, <1>2 DEF BootInv, OpenedStands, BootstrapStands, NoBootstrap

\* An open that begins, and each of its statements or the death of its process, keep the rows
\* before the receipt (open_session).
LEMMA BootInvNext == BootInv /\ [BootNext]_bootstraps => BootInv'
<1> SUFFICES ASSUME BootInv, [BootNext]_bootstraps PROVE BootInv'
  OBVIOUS
<1> USE DEF BootInv
<1>1. ASSUME NEW ingress \in Ingress, NEW key \in Bootstrap, NEW attach \in 0..Cardinality(Bootstrap),
             OpenSession(ingress, key, attach)
      PROVE  BootInv'
  <2> DEFINE o == [of |-> "open", at |-> "attach", key |-> key, id |-> bootstraps.minted + 1,
                   session |-> IF attach = 0 THEN bootstraps.minted + 1 ELSE attach]
  <2>1. o \in Opened /\ o.at = "attach"
    BY DEF BootTypeOK, Opened
  <2> HIDE DEF o
  <2>2. bootstraps' =
                   [sessions |-> bootstraps.sessions, attached |-> bootstraps.attached,
                    receipts |-> bootstraps.receipts, opening |-> o, minted |-> bootstraps.minted + 1]
    BY <1>1 DEF OpenSession, BootTypeOK, o
  <2>3. /\ bootstraps'.opening = o /\ bootstraps'.minted = bootstraps.minted + 1
        /\ bootstraps'.receipts = bootstraps.receipts /\ bootstraps'.sessions = bootstraps.sessions
        /\ bootstraps'.attached = bootstraps.attached
    BY <2>2 DEF BootTypeOK
  <2>4. BootTypeOK'
    BY <2>1, <2>2, <2>3 DEF BootTypeOK
  <2>5. QED BY <2>1, <2>3, <2>4 DEF OpenedStands, BootstrapStands
<1>2. CASE OpenContinues
  <2> DEFINE o == bootstraps.opening
  <2>1. o \in Opened /\ o.at \in {"attach", "session", "receipt"} /\ o.key \in Bootstrap
        /\ o.id \in Nat /\ o.session \in Nat
    BY <1>2 DEF OpenContinues, BootTypeOK, Opened
  <2>2. CASE bootstraps' = [bootstraps EXCEPT !.opening = NoReceipt]
    <3>1. /\ bootstraps'.opening = NoReceipt /\ bootstraps'.minted = bootstraps.minted
          /\ bootstraps'.receipts = bootstraps.receipts /\ bootstraps'.sessions = bootstraps.sessions
          /\ bootstraps'.attached = bootstraps.attached
      BY <2>2 DEF BootTypeOK
    <3>2. BootTypeOK'
      BY <2>2, <3>1 DEF BootTypeOK
    <3>3. QED BY <3>1, <3>2 DEF OpenedStands, BootstrapStands
  <2>3. CASE bootstraps' = OpenSessionStep(o) /\ o.at = "attach"
    <3> DEFINE n == [o EXCEPT !.at = "session"]
    <3>1. n \in Opened /\ n.at = "session" /\ n.id = o.id
      BY <2>1 DEF Opened
    <3> HIDE DEF n
    <3>2. bootstraps' =
                   [sessions |-> bootstraps.sessions, attached |-> bootstraps.attached \cup {o.id},
                    receipts |-> bootstraps.receipts, opening |-> n, minted |-> bootstraps.minted]
      BY <2>3 DEF OpenSessionStep, BootTypeOK, n
    <3>3. /\ bootstraps'.opening = n /\ bootstraps'.minted = bootstraps.minted
          /\ bootstraps'.receipts = bootstraps.receipts /\ bootstraps'.sessions = bootstraps.sessions
          /\ bootstraps'.attached = bootstraps.attached \cup {o.id}
      BY <3>2 DEF BootTypeOK
    <3>4. /\ bootstraps.attached \cup {o.id} \in SUBSET Nat
          /\ bootstraps.sessions \in SUBSET Nat /\ bootstraps.minted \in Nat
          /\ bootstraps.receipts \in [Bootstrap -> [id : Nat, session : Nat]]
      BY <2>1 DEF BootTypeOK
    <3>5. BootTypeOK'
      BY ONLY <3>1, <3>2, <3>4 DEF BootTypeOK
    <3>6. QED BY <3>1, <3>3, <3>5 DEF OpenedStands, BootstrapStands
  <2>4. CASE bootstraps' = OpenSessionStep(o) /\ o.at = "session"
    <3> DEFINE n == [o EXCEPT !.at = "receipt"]
    <3>1. n \in Opened /\ n.at = "receipt" /\ n.id = o.id /\ n.session = o.session
      BY <2>1 DEF Opened
    <3> HIDE DEF n
    <3>2. bootstraps' =
                   [sessions |-> bootstraps.sessions \cup {o.session}, attached |-> bootstraps.attached,
                    receipts |-> bootstraps.receipts, opening |-> n, minted |-> bootstraps.minted]
      BY <2>4 DEF OpenSessionStep, BootTypeOK, n
    <3>3. /\ bootstraps'.opening = n /\ bootstraps'.minted = bootstraps.minted
          /\ bootstraps'.receipts = bootstraps.receipts /\ bootstraps'.attached = bootstraps.attached
          /\ bootstraps'.sessions = bootstraps.sessions \cup {o.session}
      BY <3>2 DEF BootTypeOK
    <3>4. /\ bootstraps.sessions \cup {o.session} \in SUBSET Nat
          /\ bootstraps.attached \in SUBSET Nat /\ bootstraps.minted \in Nat
          /\ bootstraps.receipts \in [Bootstrap -> [id : Nat, session : Nat]]
      BY <2>1 DEF BootTypeOK
    <3>5. BootTypeOK'
      BY ONLY <3>1, <3>2, <3>4 DEF BootTypeOK
    <3>6. bootstraps.opening.id \in bootstraps.attached
      BY <1>2, <2>4 DEF OpenContinues, OpenedStands
    <3>7. QED BY <3>1, <3>3, <3>5, <3>6 DEF OpenedStands, BootstrapStands
  <2>5. CASE bootstraps' = OpenSessionStep(o) /\ o.at = "receipt"
    <3> DEFINE r == BootstrapReceipts(o)
    <3>1. /\ r \in [Bootstrap -> [id : Nat, session : Nat]]
          /\ r[o.key] = [id |-> o.id, session |-> o.session]
          /\ \A k \in Bootstrap \ {o.key} : r[k] = bootstraps.receipts[k]
      BY <2>1 DEF BootstrapReceipts, BootTypeOK
    <3>2. bootstraps' =
                   [sessions |-> bootstraps.sessions, attached |-> bootstraps.attached,
                    receipts |-> r, opening |-> NoReceipt, minted |-> bootstraps.minted]
      BY <2>5 DEF OpenSessionStep, BootTypeOK
    <3> HIDE DEF r
    <3>3. /\ bootstraps'.opening = NoReceipt /\ bootstraps'.minted = bootstraps.minted
          /\ bootstraps'.receipts = r /\ bootstraps'.attached = bootstraps.attached
          /\ bootstraps'.sessions = bootstraps.sessions
      BY <3>2 DEF BootTypeOK
    <3>4. BootTypeOK'
      BY <3>1, <3>2, <3>3 DEF BootTypeOK
    <3>5. bootstraps.opening.id \in bootstraps.attached /\ bootstraps.opening.session \in bootstraps.sessions
      BY <1>2, <2>5 DEF OpenContinues, OpenedStands
    <3>6. BootstrapStands'
      <4> SUFFICES ASSUME NEW k \in Bootstrap, r[k].session # 0
                   PROVE  r[k].session \in bootstraps.sessions /\ r[k].id \in bootstraps.attached
        BY <3>3 DEF BootstrapStands
      <4>1. CASE k = o.key
        BY <3>1, <3>5, <4>1
      <4>2. CASE k # o.key
        BY <3>1, <4>2 DEF BootstrapStands
      <4>3. QED BY <4>1, <4>2
    <3>7. QED BY <3>3, <3>4, <3>6 DEF OpenedStands
  <2>6. QED BY <1>2, <2>1, <2>2, <2>3, <2>4, <2>5 DEF OpenContinues
<1>3. CASE UNCHANGED bootstraps
  BY <1>3 DEF BootTypeOK, OpenedStands, BootstrapStands
<1>4. QED BY <1>1, <1>2, <1>3 DEF BootNext

\* What the task's row, the journal and the receipts may be.
Question == [revision : Nat, intent : Nat, state : {"none", "pending", "answered", "superseded"}]
TaskRow == [life : {"running", "waiting", "completed", "cancelled"}, intent : Nat, question : Question,
            asked : Nat]
Attempts == [author : Ingress, applied : Nat]
Edited == [of : {"decisions"}, command : Command]

RequestsTypeOK ==
    /\ task \in {NoTask} \cup TaskRow
    /\ answerLog \in Seq(Attempts)
    /\ sent \in [taken : Nat, gaps : Nat]
    /\ DOMAIN receipts = Command
    /\ document \in [mode : Modes, edits : Nat, pending : {NoReceipt} \cup Edited]
    /\ effects \in [Command -> Nat]

\* A row of an answer that was applied is a human's, of a question that was asked, and the
\* only one of its question; the question that is pending has none.
RowsAreOfTask ==
    \A i \in DOMAIN answerLog : answerLog[i].applied # 0 =>
        /\ answerLog[i].author = "human"
        /\ task # NoTask /\ answerLog[i].applied <= task.asked
        /\ task.question.state = "pending" => answerLog[i].applied # task.question.revision

PendingIsLast ==
    task # NoTask /\ task.question.state = "pending" =>
        task.question.revision = task.asked /\ task.life # "running"

\* A command whose edit is served and not yet receipted has no receipt.
EditIsNew == document.pending # NoReceipt => receipts[document.pending.command] = NoReceipt

RequestsInv ==
    /\ RequestsTypeOK /\ RowsAreOfTask /\ PendingIsLast /\ EditIsNew
    /\ AnswersAreAccounted /\ OneAnswerPerQuestion

\* Nothing was asked, answered or edited at first.
LEMMA RequestsInvInit == RequestsInit => RequestsInv
BY DEF RequestsInit, RequestsInv, RequestsTypeOK, RowsAreOfTask, PendingIsLast, EditIsNew,
   AnswersAreAccounted, OneAnswerPerQuestion, Modes

\* A task whose row changes but for its journal keeps what the journal says of it, when no
\* question comes up that was answered.
LEMMA RowKept ==
    ASSUME RequestsInv, task' \in TaskRow, UNCHANGED answerLog, task # NoTask => task'.asked >= task.asked,
           task'.question.state = "pending" =>
               /\ task'.question.revision = task'.asked /\ task'.life # "running"
               /\ task = NoTask \/ task'.asked > task.asked \/ task'.question = task.question
    PROVE  RowsAreOfTask' /\ PendingIsLast'
<1>1. task' # NoTask /\ task'.asked \in Nat
  BY DEF TaskRow, NoTask
<1>2. ASSUME NEW i \in DOMAIN answerLog, answerLog[i].applied # 0
      PROVE  /\ answerLog[i].author = "human" /\ answerLog[i].applied <= task'.asked
             /\ task'.question.state = "pending" => answerLog[i].applied # task'.question.revision
  <2>1. /\ answerLog[i].author = "human" /\ task # NoTask /\ answerLog[i].applied <= task.asked
        /\ task.question.state = "pending" => answerLog[i].applied # task.question.revision
    BY <1>2 DEF RequestsInv, RowsAreOfTask
  <2>2. answerLog \in Seq(Attempts)
    BY DEF RequestsInv, RequestsTypeOK
  <2>3. answerLog[i] \in Attempts
    BY <2>2
  <2>4. task.asked \in Nat
    BY <2>1 DEF RequestsInv, RequestsTypeOK, TaskRow
  <2>5. task.question.state = "pending" => task.question.revision = task.asked
    BY <2>1 DEF RequestsInv, PendingIsLast
  <2>6. answerLog[i].applied \in Nat
    BY <2>3 DEF Attempts
  <2>7. QED BY <1>1, <2>1, <2>5, <2>6, <2>4
<1>3. QED BY <1>1, <1>2 DEF RowsAreOfTask, PendingIsLast

\* A row for an answer that was refused, or for the first one to its question.
LEMMA RowAdded ==
    ASSUME RequestsInv, NEW row \in Attempts, answerLog' = Append(answerLog, row),
           row.applied # 0 => row.author = "human" /\ \A i \in DOMAIN answerLog : answerLog[i].applied # row.applied
    PROVE  /\ answerLog' \in Seq(Attempts) /\ Len(answerLog') = Len(answerLog) + 1
           /\ OneAnswerPerQuestion'
           /\ \A i \in DOMAIN answerLog' : answerLog'[i] = row \/ (i \in DOMAIN answerLog /\ answerLog'[i] = answerLog[i])
<1>1. answerLog \in Seq(Attempts) /\ Len(answerLog) \in Nat /\ DOMAIN answerLog = 1..Len(answerLog)
  BY DEF RequestsInv, RequestsTypeOK
<1>2. /\ answerLog' \in Seq(Attempts) /\ Len(answerLog') = Len(answerLog) + 1
      /\ DOMAIN answerLog' = 1..Len(answerLog) + 1
      /\ answerLog'[Len(answerLog) + 1] = row
      /\ \A i \in 1..Len(answerLog) : answerLog'[i] = answerLog[i]
  BY <1>1
<1>3. \A i \in DOMAIN answerLog' :
         i = Len(answerLog) + 1 \/ (i \in DOMAIN answerLog /\ answerLog'[i] = answerLog[i])
  BY <1>1, <1>2
<1>4. OneAnswerPerQuestion'
  <2> SUFFICES ASSUME NEW i \in DOMAIN answerLog', NEW j \in DOMAIN answerLog', answerLog'[i].applied # 0
               PROVE  /\ answerLog'[i].author = "human"
                      /\ answerLog'[j].applied = answerLog'[i].applied => i = j
    BY DEF OneAnswerPerQuestion
  <2>1. \A k, l \in DOMAIN answerLog : answerLog[k].applied # 0 =>
           answerLog[k].author = "human" /\ (answerLog[l].applied = answerLog[k].applied => k = l)
    BY DEF RequestsInv, OneAnswerPerQuestion
  <2>2. CASE i = Len(answerLog) + 1
    <3>1. row.applied # 0 /\ answerLog'[i] = row
      BY <1>2, <2>2
    <3>2. j # i => j \in DOMAIN answerLog /\ answerLog'[j] = answerLog[j]
      BY <1>3, <2>2
    <3>3. QED BY <3>1, <3>2
  <2>3. CASE i \in DOMAIN answerLog /\ answerLog'[i] = answerLog[i]
    <3>1. CASE j = Len(answerLog) + 1
      BY <1>2, <2>1, <2>3, <3>1
    <3>2. CASE j \in DOMAIN answerLog /\ answerLog'[j] = answerLog[j]
      BY <2>1, <2>3, <3>2
    <3>3. QED BY <1>3, <3>1, <3>2
  <2>4. QED BY <1>3, <2>2, <2>3
<1>5. QED BY <1>2, <1>3, <1>4

\* An answer that no refusal stops is a human's, to the question that is pending.
LEMMA AnswerAccepted ==
    ASSUME RequestsInv, NEW ingress \in Ingress, NEW p \in AnswerParams, Admitted(ingress),
           Denial(ingress, p) = "none"
    PROVE  /\ ingress = "human" /\ task # NoTask /\ task.question.state = "pending"
           /\ p.revision = task.question.revision /\ p.revision = task.asked /\ p.revision \in Nat \ {0}
<1>1. /\ ingress # "machine" /\ p.revision # 0 /\ task # NoTask /\ CommitDenial(p) = "none"
  BY DEF Denial
<1>2. task.question.state = "pending" /\ task.question.revision = p.revision
  BY <1>1 DEF CommitDenial
<1>3. task.question.revision = task.asked /\ task.asked \in Nat
  BY <1>1, <1>2 DEF RequestsInv, PendingIsLast, RequestsTypeOK, TaskRow
<1>4. ingress = "human"
  BY <1>1 DEF Admitted, Ingress
<1>5. QED BY <1>1, <1>2, <1>3, <1>4

\* An answer leaves one row or one counted gap, and a question it is applied to is closed
\* with it (submit_task, answer_question_commit, journal_denied_answer).
LEMMA AnswerKeeps ==
    ASSUME RequestsInv, NEW ingress \in Ingress, NEW p \in AnswerParams, Answer(ingress, p)
    PROVE  RequestsInv'
<1> DEFINE denial == Denial(ingress, p)
           row == AttemptRow(p, ingress, denial)
<1>1. /\ Admitted(ingress) /\ UNCHANGED <<receipts, document, effects>>
      /\ task' = IF denial # "none" THEN task
                 ELSE [task EXCEPT !.life = "running", !.question = [task.question EXCEPT !.state = "answered"]]
      /\ sent'.taken = sent.taken + 1 /\ sent' \in [taken : Nat, gaps : Nat]
      /\ \/ answerLog' = Append(answerLog, row) /\ sent'.gaps = sent.gaps
         \/ denial # "none" /\ answerLog' = answerLog /\ sent'.gaps = sent.gaps + 1
  <2>1. PICK j \in Journal(p, ingress, denial) :
           answerLog' = j.rows /\ sent' = [taken |-> sent.taken + 1, gaps |-> j.gaps]
    BY DEF Answer
  <2>2. \/ j = [rows |-> Append(answerLog, row), gaps |-> sent.gaps]
        \/ denial # "none" /\ j = [rows |-> answerLog, gaps |-> sent.gaps + 1]
    BY <2>1 DEF Journal
  <2>3. /\ Admitted(ingress) /\ UNCHANGED <<receipts, document, effects>>
        /\ task' = IF denial # "none" THEN task
                   ELSE [task EXCEPT !.life = "running", !.question = [task.question EXCEPT !.state = "answered"]]
    BY DEF Answer
  <2>4. sent.taken \in Nat /\ sent.gaps \in Nat
    BY DEF RequestsInv, RequestsTypeOK
  <2> HIDE DEF denial, row
  <2>5. QED BY <2>1, <2>2, <2>3, <2>4
<1>2. row \in Attempts /\ row.author = ingress
      /\ (denial # "none" => row.applied = 0) /\ (denial = "none" => row.applied = p.revision)
  BY DEF AttemptRow, Attempts, AnswerParams
<1>3. denial = "none" =>
        /\ ingress = "human" /\ task # NoTask /\ task.question.state = "pending"
        /\ p.revision = task.question.revision /\ p.revision = task.asked /\ p.revision \in Nat \ {0}
  BY <1>1, AnswerAccepted
<1> HIDE DEF denial, row
<1>4. task \in {NoTask} \cup TaskRow /\ sent.taken \in Nat /\ sent.gaps \in Nat /\ Len(answerLog) \in Nat
  BY DEF RequestsInv, RequestsTypeOK
<1>5. CASE answerLog' = answerLog
  <2>1. denial # "none" /\ sent'.gaps = sent.gaps + 1 /\ task' = task
    <3>1. answerLog \in Seq(Attempts)
      BY DEF RequestsInv, RequestsTypeOK
    <3>2. Append(answerLog, row) # answerLog
      <4>1. Len(Append(answerLog, row)) = Len(answerLog) + 1
        BY <1>2, <3>1
      <4>2. QED BY <1>4, <4>1
    <3>3. QED BY <1>1, <1>5, <3>2
  <2>2. AnswersAreAccounted'
    BY <1>1, <1>4, <1>5, <2>1 DEF RequestsInv, AnswersAreAccounted
  <2>3. QED BY <1>1, <1>5, <2>1, <2>2
            DEF RequestsInv, RequestsTypeOK, RowsAreOfTask, PendingIsLast, EditIsNew, OneAnswerPerQuestion
<1>6. CASE answerLog' = Append(answerLog, row) /\ sent'.gaps = sent.gaps
  <2>1. row.applied # 0 => row.author = "human" /\ \A i \in DOMAIN answerLog : answerLog[i].applied # row.applied
    <3> SUFFICES ASSUME row.applied # 0, NEW i \in DOMAIN answerLog
                 PROVE  row.author = "human" /\ answerLog[i].applied # row.applied
      BY <1>2, <1>3
    <3>1. denial = "none"
      BY <1>2
    <3>2. row.applied = task.question.revision /\ row.applied # 0 /\ task.question.state = "pending"
      BY <1>2, <1>3, <3>1
    <3>3. QED BY <1>2, <1>3, <3>1, <3>2 DEF RequestsInv, RowsAreOfTask
  <2>2. /\ answerLog' \in Seq(Attempts) /\ Len(answerLog') = Len(answerLog) + 1
        /\ OneAnswerPerQuestion'
        /\ \A i \in DOMAIN answerLog' : answerLog'[i] = row \/ (i \in DOMAIN answerLog /\ answerLog'[i] = answerLog[i])
    BY <1>2, <1>6, <2>1, RowAdded
  <2>3. AnswersAreAccounted'
    <3>1. Len(answerLog) + sent.gaps = sent.taken
      BY DEF RequestsInv, AnswersAreAccounted
    <3>2. sent'.taken = sent.taken + 1 /\ sent'.gaps = sent.gaps
      BY <1>1, <1>6
    <3>3. Len(answerLog') = Len(answerLog) + 1
      BY <2>2
    <3>4. QED BY ONLY <1>4, <3>1, <3>2, <3>3 DEF AnswersAreAccounted
  <2>4. /\ task' \in {NoTask} \cup TaskRow /\ (task # NoTask => task' # NoTask /\ task'.asked = task.asked)
        /\ (denial = "none" => task'.question.state = "answered")
    <3>1. CASE denial # "none"
      BY <1>1, <1>4, <3>1
    <3>2. CASE denial = "none"
      <4>1. task \in TaskRow
        BY <1>3, <1>4, <3>2
      <4>2. task' = [task EXCEPT !.life = "running", !.question = [task.question EXCEPT !.state = "answered"]]
        BY <1>1, <3>2
      <4>3. task' \in TaskRow /\ task'.asked = task.asked /\ task'.question.state = "answered"
        BY ONLY <4>1, <4>2 DEF TaskRow, Question
      <4>4. task' # NoTask
        BY ONLY <4>3 DEF TaskRow, NoTask
      <4>5. QED BY <4>3, <4>4
    <3>3. QED BY <3>1, <3>2
  <2>5. RowsAreOfTask'
    <3> SUFFICES ASSUME NEW i \in DOMAIN answerLog', answerLog'[i].applied # 0
                 PROVE  /\ answerLog'[i].author = "human"
                        /\ task' # NoTask /\ answerLog'[i].applied <= task'.asked
                        /\ task'.question.state = "pending" => answerLog'[i].applied # task'.question.revision
      BY DEF RowsAreOfTask
    <3>1. CASE answerLog'[i] = row
      <4>1. denial = "none" /\ row.applied = task.asked /\ task.asked \in Nat
        BY <1>2, <1>3, <3>1
      <4>2. QED BY <1>2, <1>3, <2>4, <3>1, <4>1
    <3>2. CASE i \in DOMAIN answerLog /\ answerLog'[i] = answerLog[i]
      <4>1. /\ answerLog[i].author = "human" /\ task # NoTask /\ answerLog[i].applied <= task.asked
            /\ task.question.state = "pending" => answerLog[i].applied # task.question.revision
        BY <3>2 DEF RequestsInv, RowsAreOfTask
      <4>2. denial # "none" => task' = task
        BY <1>1
      <4>3. QED BY <2>4, <3>2, <4>1, <4>2
    <3>3. QED BY <2>2, <3>1, <3>2
  <2>6. PendingIsLast'
    BY <1>1, <2>4 DEF RequestsInv, PendingIsLast
  <2>7. RequestsTypeOK' /\ EditIsNew'
    BY <1>1, <2>2, <2>4 DEF RequestsInv, RequestsTypeOK, EditIsNew
  <2>8. QED BY <2>2, <2>3, <2>5, <2>6, <2>7 DEF RequestsInv
<1>7. QED BY <1>1, <1>5, <1>6

\* A step of the requests that adds no row to the journal keeps the invariant when it keeps
\* what the journal says of the task, and leaves no receipt to an edit that is pending.
LEMMA RestKept ==
    ASSUME RequestsInv, UNCHANGED <<answerLog, sent>>, RowsAreOfTask', PendingIsLast',
           task' \in {NoTask} \cup TaskRow, DOMAIN receipts' = Command, EditIsNew',
           document' \in [mode : Modes, edits : Nat, pending : {NoReceipt} \cup Edited],
           effects' \in [Command -> Nat]
    PROVE  RequestsInv'
BY DEF RequestsInv, RequestsTypeOK, AnswersAreAccounted, OneAnswerPerQuestion

\* What a request may not do to the commands that have their receipt.
Receiptful ==
    \A c \in Command : receipts[c] # NoReceipt => receipts'[c] = receipts[c] /\ effects'[c] = effects[c]

\* A task is created under the receipt of its command (create_task).
LEMMA CreateKeeps ==
    ASSUME RequestsInv, NEW ingress \in Ingress, NEW c \in Command, Create(ingress, c)
    PROVE  RequestsInv' /\ Receiptful
<1>1. /\ receipts[c] = NoReceipt /\ document.pending = NoReceipt /\ UNCHANGED <<answerLog, sent, document>>
      /\ receipts' = [receipts EXCEPT ![c] = Receipt("create")] /\ effects' = [effects EXCEPT ![c] = effects[c] + 1]
      /\ task' = IF task # NoTask THEN task
                 ELSE [life |-> "running", intent |-> 1, question |-> NoQuestion, asked |-> 0]
  BY DEF Create, Receipted, Serving
<1>2. /\ DOMAIN receipts' = Command /\ EditIsNew'
      /\ document' \in [mode : Modes, edits : Nat, pending : {NoReceipt} \cup Edited]
      /\ effects' \in [Command -> Nat]
  BY <1>1 DEF RequestsInv, RequestsTypeOK, EditIsNew
<1>3. task \in {NoTask} \cup TaskRow
  BY DEF RequestsInv, RequestsTypeOK
<1>4. task' \in TaskRow /\ RowsAreOfTask' /\ PendingIsLast'
  <2>1. CASE task # NoTask
    BY <1>1, <1>3, <2>1 DEF RequestsInv, RowsAreOfTask, PendingIsLast
  <2>2. CASE task = NoTask
    <3>1. task' = [life |-> "running", intent |-> 1, question |-> NoQuestion, asked |-> 0]
      BY <1>1, <2>2
    <3>2. task' \in TaskRow /\ task'.question.state = "none"
      BY <3>1 DEF TaskRow, Question, NoQuestion
    <3>3. UNCHANGED answerLog
      BY <1>1
    <3>4. QED BY <2>2, <3>2, <3>3, RowKept
  <2>3. QED BY <2>1, <2>2
<1>5. Receiptful
  BY <1>1 DEF Receiptful, RequestsInv, RequestsTypeOK
<1>6. QED BY <1>1, <1>2, <1>4, <1>5, RestKept

\* A step that moves the task alone leaves the receipts (Ask, steer_task, cancel_task).
LEMMA TaskAlone ==
    ASSUME RequestsInv, UNCHANGED <<answerLog, sent, receipts, document, effects>>,
           task' \in TaskRow, RowsAreOfTask', PendingIsLast'
    PROVE  RequestsInv' /\ Receiptful
<1>1. EditIsNew' /\ Receiptful
  BY DEF RequestsInv, EditIsNew, Receiptful
<1>2. QED BY <1>1, RestKept DEF RequestsInv, RequestsTypeOK

\* A question comes up when none is pending, under a revision of its own (Ask).
LEMMA AskKeeps == ASSUME RequestsInv, Ask PROVE RequestsInv' /\ Receiptful
<1>1. task \in TaskRow /\ task.life = "running"
  BY DEF Ask, RequestsInv, RequestsTypeOK, NoTask
<1> DEFINE q == [revision |-> task.asked + 1, intent |-> task.intent, state |-> "pending"]
<1>2. q \in Question /\ q.revision = task.asked + 1
  BY <1>1 DEF TaskRow, Question
<1>3. task' = [life |-> "waiting", intent |-> task.intent, question |-> q, asked |-> task.asked + 1]
  BY <1>1 DEF Ask, TaskRow
<1> HIDE DEF q
<1>4. task.intent \in Nat /\ task.asked \in Nat
  BY <1>1 DEF TaskRow
<1>5. /\ task' \in TaskRow /\ task'.asked = task.asked + 1 /\ task'.question = q /\ task'.life = "waiting"
      /\ task.asked \in Nat
  BY ONLY <1>2, <1>3, <1>4 DEF TaskRow
<1>6. UNCHANGED <<answerLog, sent, receipts, document, effects>>
  BY DEF Ask
<1>7. RowsAreOfTask' /\ PendingIsLast'
  BY <1>2, <1>5, <1>6, RowKept
<1>8. QED BY <1>5, <1>6, <1>7, TaskAlone

\* A question that is superseded is pending no longer.
LEMMA SupersededIs ==
    ASSUME NEW q \in Question
    PROVE  Superseded(q) \in Question /\ Superseded(q).state # "pending"
BY DEF Superseded, Question

\* A steer supersedes the question of the older intent (steer_task).
LEMMA SteerKeeps ==
    ASSUME RequestsInv, NEW ingress \in Ingress, Steer(ingress) PROVE RequestsInv' /\ Receiptful
<1>1. task \in TaskRow /\ task.question \in Question
  BY DEF Steer, RequestsInv, RequestsTypeOK, NoTask, TaskRow
<1> DEFINE q == Superseded(task.question)
<1>2. q \in Question /\ q.state # "pending"
  BY <1>1, SupersededIs
<1>3. task' = [life |-> "running", intent |-> task.intent + 1, question |-> q, asked |-> task.asked]
  BY <1>1 DEF Steer, TaskRow
<1> HIDE DEF q
<1>4. task.intent \in Nat /\ task.asked \in Nat
  BY <1>1 DEF TaskRow
<1>5. task' \in TaskRow /\ task'.asked = task.asked /\ task'.question = q /\ task.asked \in Nat
  BY ONLY <1>2, <1>3, <1>4 DEF TaskRow
<1>6. UNCHANGED <<answerLog, sent, receipts, document, effects>>
  BY DEF Steer
<1>7. RowsAreOfTask' /\ PendingIsLast'
  BY <1>2, <1>5, <1>6, RowKept
<1>8. QED BY <1>5, <1>6, <1>7, TaskAlone

\* A cancel supersedes the question of the task it ends (cancel_task).
LEMMA CancelKeeps ==
    ASSUME RequestsInv, NEW ingress \in Ingress, Cancel(ingress) PROVE RequestsInv' /\ Receiptful
<1>1. task \in TaskRow /\ task.question \in Question
  BY DEF Cancel, RequestsInv, RequestsTypeOK, NoTask, TaskRow
<1> DEFINE q == Superseded(task.question)
<1>2. q \in Question /\ q.state # "pending"
  BY <1>1, SupersededIs
<1>3. task' = [life |-> "cancelled", intent |-> task.intent, question |-> q, asked |-> task.asked]
  BY <1>1 DEF Cancel, TaskRow
<1> HIDE DEF q
<1>4. task.intent \in Nat /\ task.asked \in Nat
  BY <1>1 DEF TaskRow
<1>5. task' \in TaskRow /\ task'.asked = task.asked /\ task'.question = q /\ task.asked \in Nat
  BY ONLY <1>2, <1>3, <1>4 DEF TaskRow
<1>6. UNCHANGED <<answerLog, sent, receipts, document, effects>>
  BY DEF Cancel
<1>7. RowsAreOfTask' /\ PendingIsLast'
  BY <1>2, <1>5, <1>6, RowKept
<1>8. QED BY <1>5, <1>6, <1>7, TaskAlone

\* The document of an edit.
Documents == [mode : Modes, edits : Nat, pending : {NoReceipt} \cup Edited]

\* A document whose parts are of their kinds is one.
LEMMA DocumentIs ==
    ASSUME NEW m \in Modes, NEW n \in Nat, NEW p \in {NoReceipt} \cup Edited
    PROVE  [mode |-> m, edits |-> n, pending |-> p] \in Documents
BY DEF Documents

\* An edit is served for a command that has no receipt; its receipt is the command's first;
\* an edit without a command leaves the receipts (decisions_control, config.set).
LEMMA EditKeeps ==
    ASSUME RequestsInv,
           \/ \E ingress \in Ingress, c \in Command, op \in Modes, expected \in Modes :
                 DecisionsControl(ingress, c, op, expected)
           \/ RecordCommandReceipt
           \/ \E mode \in Modes : ConfigSet(mode)
    PROVE  RequestsInv' /\ Receiptful
<1>1. /\ DOMAIN receipts = Command /\ effects \in [Command -> Nat]
      /\ document \in [mode : Modes, edits : Nat, pending : {NoReceipt} \cup Edited]
      /\ task \in {NoTask} \cup TaskRow /\ EditIsNew
  BY DEF RequestsInv, RequestsTypeOK
<1>2. UNCHANGED <<task, answerLog, sent>>
  BY DEF DecisionsControl, RecordCommandReceipt, ConfigSet
<1>3. RowsAreOfTask' /\ PendingIsLast'
  BY <1>2 DEF RequestsInv, RowsAreOfTask, PendingIsLast
<1>4. ASSUME NEW ingress \in Ingress, NEW c \in Command, NEW op \in Modes, NEW expected \in Modes,
             DecisionsControl(ingress, c, op, expected)
      PROVE  RequestsInv' /\ Receiptful
  <2> DEFINE e == [of |-> "decisions", command |-> c]
  <2>1. /\ receipts[c] = NoReceipt /\ UNCHANGED receipts /\ effects' = [effects EXCEPT ![c] = effects[c] + 1]
        /\ document' = [mode |-> op, edits |-> document.edits + 1, pending |-> e]
    BY <1>1, <1>4 DEF DecisionsControl, Receipted
  <2>2. e \in Edited /\ e.command = c
    BY DEF Edited
  <2> HIDE DEF e
  <2>3. document.edits \in Nat /\ op \in Modes
    BY <1>1
  <2>4. /\ document'.pending = e
        /\ document' \in [mode : Modes, edits : Nat, pending : {NoReceipt} \cup Edited]
    BY ONLY <2>1, <2>2, <2>3
  <2>5. EditIsNew' /\ Receiptful /\ effects' \in [Command -> Nat] /\ DOMAIN receipts' = Command
    BY <1>1, <2>1, <2>2, <2>4 DEF EditIsNew, Receiptful
  <2>6. QED BY <1>1, <1>2, <1>3, <2>4, <2>5, RestKept
<1>5. CASE RecordCommandReceipt
  <2> DEFINE c == document.pending.command
  <2>1. document.pending # NoReceipt /\ c \in Command /\ receipts[c] = NoReceipt
    BY <1>1, <1>5 DEF RecordCommandReceipt, EditIsNew, Edited
  <2>2. /\ receipts' = [receipts EXCEPT ![c] = Receipt("decisions")] \/ UNCHANGED receipts
        /\ UNCHANGED effects
    BY <1>1, <1>5 DEF RecordCommandReceipt
  <2>4. document' = [mode |-> document.mode, edits |-> document.edits, pending |-> NoReceipt]
    BY <1>1, <1>5 DEF RecordCommandReceipt
  <2> HIDE DEF c
  <2>3. document.edits \in Nat /\ document.mode \in Modes
    BY <1>1
  <2>5. document'.pending = NoReceipt /\ document' \in Documents
    BY <2>3, <2>4, DocumentIs
  <2>6. EditIsNew' /\ Receiptful /\ effects' \in [Command -> Nat] /\ DOMAIN receipts' = Command
    BY <1>1, <2>1, <2>2, <2>5 DEF EditIsNew, Receiptful
  <2>7. QED BY <1>1, <1>2, <1>3, <2>5, <2>6, RestKept DEF Documents
<1>6. ASSUME NEW mode \in Modes, ConfigSet(mode) PROVE RequestsInv' /\ Receiptful
  <2>1. /\ document.pending = NoReceipt /\ UNCHANGED <<receipts, effects>>
    BY <1>6 DEF ConfigSet, Serving
  <2>2. document' = [mode |-> mode, edits |-> document.edits + 1, pending |-> document.pending]
    BY <1>1, <1>6 DEF ConfigSet
  <2>3. document'.pending = NoReceipt /\ document' \in Documents
    <3>1. document.edits + 1 \in Nat
      BY <1>1
    <3>2. QED BY <2>1, <2>2, <3>1, DocumentIs
  <2>4. EditIsNew' /\ Receiptful
    BY <2>1, <2>3 DEF EditIsNew, Receiptful
  <2>5. QED BY <1>1, <1>2, <1>3, <2>1, <2>3, <2>4, RestKept DEF Documents
<1>7. QED BY <1>4, <1>5, <1>6

\* Every request keeps the invariant, and the commands that have their receipt.
LEMMA RequestsInvNext == RequestsInv /\ [RequestsNext]_requestVars => RequestsInv' /\ [Receiptful]_requestVars
<1> SUFFICES ASSUME RequestsInv, [RequestsNext]_requestVars
             PROVE  RequestsInv' /\ [Receiptful]_requestVars
  OBVIOUS
<1>1. ASSUME NEW ingress \in Ingress, NEW p \in AnswerParams, Answer(ingress, p)
      PROVE  RequestsInv' /\ Receiptful
  <2>1. UNCHANGED <<receipts, effects>>
    BY <1>1 DEF Answer
  <2>2. QED BY <1>1, <2>1, AnswerKeeps DEF Receiptful
<1>2. CASE UNCHANGED requestVars
  BY <1>2 DEF requestVars, RequestsInv, RequestsTypeOK, RowsAreOfTask, PendingIsLast, EditIsNew,
     AnswersAreAccounted, OneAnswerPerQuestion
<1>3. QED BY <1>1, <1>2, CreateKeeps, AskKeeps, SteerKeeps, CancelKeeps, EditKeeps DEF RequestsNext

\* Requests as a whole: every answer taken up is journaled or a counted gap, no question is
\* answered twice or by a machine, a command with a receipt never takes effect again, and a
\* bootstrap receipt answers with rows that exist, wherever the process died
\* (answer_question, record_receipt, open_session).
THEOREM RequestsSafe == RequestsSpec /\ BootSpec => RequestsCountOnce
<1>1. RequestsInv => AnswersAreAccounted /\ OneAnswerPerQuestion
  BY DEF RequestsInv
<1>2. RequestsSpec => [](AnswersAreAccounted /\ OneAnswerPerQuestion)
  BY <1>1, RequestsInvInit, RequestsInvNext, PTL DEF RequestsSpec
<1>3. RequestsSpec => [][Receiptful]_requestVars
  BY RequestsInvInit, RequestsInvNext, PTL DEF RequestsSpec
<1>4. BootInv => BootstrapStands
  BY DEF BootInv
<1>5. BootSpec => []BootstrapStands
  BY <1>4, BootInvInit, BootInvNext, PTL DEF BootSpec
<1>6. QED BY <1>2, <1>3, <1>5, PTL DEF RequestsCountOnce, ReceiptedOnce, Receiptful

=============================================================================
