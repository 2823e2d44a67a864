------------------------------ MODULE Writers -------------------------------
(***************************************************************************)
(* Who may write a data root: the election of src/src/owner.rs and the     *)
(* writer registry of src/src/state.rs.  Every process keeps one registry  *)
(* behind a mutex; a store is admitted by the inode its path names, under  *)
(* an open-file-description lock on that inode.  Another program may       *)
(* replace the database, or put an old one back, at any moment.  POSIX     *)
(* drops a process' record locks on a file when it closes ANY descriptor   *)
(* of it: that is why a superfluous descriptor is parked and not closed.   *)
(***************************************************************************)
EXTENDS Integers, FiniteSets, Sums

CONSTANTS
    Process,
    MaxInodes,      \* bound: files the database path ever names
    STORE_PARKED_MAX

ASSUME WritersAssumption ==
    MaxInodes \in Nat /\ STORE_PARKED_MAX \in Nat /\ {"free", "child"} \cap Process = {}

VARIABLES
    dbPath,         \* the inode the database path names, 0: none
    inodes,         \* inodes made so far
    aliased,        \* inodes that have a second name
    election,       \* owner.lock: its process, "child" or "free"
    ofd,            \* inode -> who holds the writer lock on it
    registry,       \* process -> held, parked, unidentified, the mutex
    store           \* store -> its phase, writer, candidate and connection
writersVars == <<dbPath, inodes, aliased, election, ofd, registry, store>>

LockInode == 1 .. MaxInodes
\* Two stores of each process: the owner's, and one opened beside it.
Stores == Process \X {"owner", "other"}
ProcessOf(s) == s[1]
NoStore == [phase |-> "none", writer |-> 0, id |-> 0, conn |-> 0, kept |-> TRUE]
EmptyRegistry == [held |-> {}, parked |-> [i \in LockInode |-> 0], unidentified |-> 0, guard |-> FALSE]

WritersInit ==
    /\ dbPath = 0 /\ inodes = 0 /\ aliased = {}
    /\ election = "free"
    /\ ofd = [i \in LockInode |-> "free"]
    /\ registry = [p \in Process |-> EmptyRegistry]
    /\ store = [s \in Stores |-> NoStore]

-----------------------------------------------------------------------------
\* elect_lock: the advisory lock of the data root, before any store.
ElectLock(p) ==
    /\ election = "free" /\ store[<<p, "owner">>].phase = "none"
    /\ election' = p
    /\ UNCHANGED <<dbPath, inodes, aliased, ofd, registry, store>>

\* Mutant: only the parked descriptors count.
SaturatedParked(p) == SumTo(registry[p].parked, MaxInodes) >= STORE_PARKED_MAX

Parked(p) == SumTo(registry[p].parked, MaxInodes)

\* admit_writer: the cap on descriptors that must not close.
Saturated(p) == Parked(p) + registry[p].unidentified >= STORE_PARKED_MAX

\* guard_database_file: a missing file is made, privately.
GuardDatabaseFile ==
    IF dbPath = 0
    THEN inodes < MaxInodes /\ dbPath' = inodes + 1 /\ inodes' = inodes + 1
    ELSE UNCHANGED <<dbPath, inodes>>

\* admit_writer, to the lstat: a store's own inode is admitted at once, one the
\* process holds is refused, and any other goes on under the guard.
AdmitWriter(s) ==
    /\ store[s].phase \in {"none", "empty"}
    /\ s[2] = "owner" => election = ProcessOf(s)
    /\ ~ registry[ProcessOf(s)].guard /\ ~ Saturated(ProcessOf(s))
    /\ GuardDatabaseFile
    /\ \/ /\ store[s].phase = "empty" /\ store[s].writer = dbPath'
          /\ store' = [store EXCEPT ![s] = [@ EXCEPT !.phase = "admitted", !.id = dbPath']]
          /\ UNCHANGED registry
       \/ /\ dbPath' \notin registry[ProcessOf(s)].held
          /\ store' = [store EXCEPT ![s] = [@ EXCEPT !.phase = "placing", !.id = dbPath']]
          /\ registry' = [registry EXCEPT ![ProcessOf(s)] = [@ EXCEPT !.guard = TRUE]]
    /\ UNCHANGED <<aliased, election, ofd>>

\* The store as it was before the admission it began: nothing, or an empty slot.
StoreRefused(s) ==
    [store EXCEPT ![s] = [@ EXCEPT !.phase = IF store[s].writer = 0 THEN "none" ELSE "empty",
                                !.id = 0]]

\* Closing a descriptor of inode i drops the locks of the process' connections.
Closes(st, p, i) ==
    [s \in Stores |-> IF i # 0 /\ ProcessOf(s) = p /\ st[s].conn = i THEN [st[s] EXCEPT !.kept = FALSE] ELSE st[s]]

\* Mutant: the descriptor of an inode the process holds is closed.
PlaceClosing(s) ==
    LET p == ProcessOf(s)
    IN  /\ store[s].phase = "placing" /\ dbPath # 0
        /\ dbPath \in registry[p].held
        /\ registry' = [registry EXCEPT ![p].guard = FALSE]
        /\ store' = Closes(StoreRefused(s), p, dbPath)
        /\ UNCHANGED <<dbPath, inodes, aliased, election, ofd>>

\* place_writer on an inode the process holds already (the path was replaced
\* since the lstat): the descriptor is parked under its holder.
PlacePark(s) ==
    LET p == ProcessOf(s)
    IN  /\ store[s].phase = "placing" /\ dbPath # 0
        /\ dbPath \in registry[p].held
        /\ registry' = [registry EXCEPT ![p] =
              [@ EXCEPT !.guard = FALSE,
                        !.parked = [registry[p].parked EXCEPT ![dbPath] = @ + 1]]]
        /\ store' = StoreRefused(s)
        /\ UNCHANGED <<dbPath, inodes, aliased, election, ofd>>

\* place_writer: the descriptor can not be identified, and is kept for ever.
PlaceUnidentified(s) ==
    /\ store[s].phase = "placing" /\ dbPath # 0
    /\ registry' = [registry EXCEPT ![ProcessOf(s)] =
          [@ EXCEPT !.guard = FALSE, !.unidentified = registry[ProcessOf(s)].unidentified + 1]]
    /\ store' = StoreRefused(s)
    /\ UNCHANGED <<dbPath, inodes, aliased, election, ofd>>

\* place_writer: the path is gone, has a second name, or names another inode
\* than the lstat saw, or the writer lock is held: the descriptor is closed.
PlaceRefused(s) ==
    /\ store[s].phase = "placing"
    /\ dbPath \notin registry[ProcessOf(s)].held
    /\ dbPath # 0 /\ dbPath \notin aliased /\ dbPath = store[s].id => ofd[dbPath] # "free"
    /\ registry' = [registry EXCEPT ![ProcessOf(s)] = [@ EXCEPT !.guard = FALSE]]
    /\ store' = Closes(StoreRefused(s), ProcessOf(s), dbPath)
    /\ UNCHANGED <<dbPath, inodes, aliased, election, ofd>>

\* place_writer: the identity descriptor becomes the registry's entry.
PlaceWriter(s) ==
    LET p == ProcessOf(s)
    IN  /\ store[s].phase = "placing" /\ dbPath = store[s].id
        /\ dbPath \notin registry[p].held /\ dbPath \notin aliased /\ ofd[dbPath] = "free"
        /\ ofd' = [ofd EXCEPT ![dbPath] = p]
        /\ registry' = [registry EXCEPT ![p] = [@ EXCEPT !.guard = FALSE, !.held = registry[p].held \union {dbPath}]]
        /\ store' = [store EXCEPT ![s] = [@ EXCEPT !.phase = "admitted"]]
        /\ UNCHANGED <<dbPath, inodes, aliased, election>>

\* unlock_or_hand_off: the lock is free, or a descriptor that a forked child
\* inherited still holds it.
LocksDropped(who) == {"free"} \union (IF who \in Process THEN {"child"} ELSE {})

\* retire_writer: the entry, its parked descriptors and last its lock.
RetireWriter(p, i) ==
    /\ registry' = [registry EXCEPT ![p] =
          [@ EXCEPT !.held = registry[p].held \ {i}, !.parked = [registry[p].parked EXCEPT ![i] = 0]]]
    /\ \E rest \in LocksDropped(ofd[i]) : ofd' = [ofd EXCEPT ![i] = rest]

Settled(s) == dbPath = store[s].id /\ dbPath \notin aliased

\* settle_admitted, and the tail of reopen: an entry of another inode than
\* the store had is left, and the old one retired.
SettleAdmitted(s) ==
    /\ store[s].phase = "admitted" /\ Settled(s)
    /\ store' = [store EXCEPT ![s] = [phase |-> "open", writer |-> dbPath, id |-> 0,
                                         conn |-> dbPath, kept |-> TRUE]]
    /\ IF store[s].writer \in {0, dbPath} THEN UNCHANGED <<registry, ofd>>
       ELSE ~ registry[ProcessOf(s)].guard /\ RetireWriter(ProcessOf(s), store[s].writer)
    /\ UNCHANGED <<dbPath, inodes, aliased, election>>

\* Mutant: the entry is retired whether this admission made it or not.
SettleFailsRetiring(s) ==
    /\ store[s].phase = "admitted" /\ ~ registry[ProcessOf(s)].guard
    /\ store' = StoreRefused(s)
    /\ RetireWriter(ProcessOf(s), store[s].id)
    /\ UNCHANGED <<dbPath, inodes, aliased, election>>

\* connect fails after the admission (the path moved, a pragma did not take,
\* the schema is newer): only an entry this call made is retired.
SettleFails(s) ==
    /\ store[s].phase = "admitted" /\ ~ registry[ProcessOf(s)].guard
    /\ store' = StoreRefused(s)
    /\ IF store[s].writer = store[s].id THEN UNCHANGED <<registry, ofd>>
       ELSE RetireWriter(ProcessOf(s), store[s].id)
    /\ UNCHANGED <<dbPath, inodes, aliased, election>>

\* close, and the first half of reopen and of drop: the connection ends, the
\* entry stays.
CloseConnection(s) ==
    /\ store[s].phase = "open"
    /\ store' = [store EXCEPT ![s] = [@ EXCEPT !.phase = "empty", !.conn = 0, !.kept = TRUE]]
    /\ UNCHANGED <<dbPath, inodes, aliased, election, ofd, registry>>

\* Drop of a TaskStore without a connection: its entry is retired.  An owner
\* drops its store first and its election last.
DropStore(s) ==
    /\ store[s].phase = "empty" /\ ~ registry[ProcessOf(s)].guard
    /\ store' = [store EXCEPT ![s] = NoStore]
    /\ RetireWriter(ProcessOf(s), store[s].writer)
    /\ UNCHANGED <<dbPath, inodes, aliased, election>>

\* Mutant: the election is released before the store's entry.
DropElectionFirst(p) ==
    /\ election = p
    /\ election' = "free"
    /\ UNCHANGED <<dbPath, inodes, aliased, ofd, registry, store>>

\* Drop of an Election, after the store's.
DropElection(p) ==
    /\ election = p /\ store[<<p, "owner">>].phase = "none"
    /\ \E rest \in LocksDropped(p) : election' = rest
    /\ UNCHANGED <<dbPath, inodes, aliased, ofd, registry, store>>

\* The process dies: the kernel closes everything but what a child inherited.
ProcessDies(p) ==
    /\ registry' = [registry EXCEPT ![p] = EmptyRegistry]
    /\ store' = [s \in Stores |-> IF ProcessOf(s) = p THEN NoStore ELSE store[s]]
    /\ ofd' = [i \in LockInode |-> IF ofd[i] = p THEN "free" ELSE ofd[i]]
    /\ election' = IF election = p THEN "free" ELSE election
    /\ UNCHANGED <<dbPath, inodes, aliased>>

\* A child execs or exits, and its inherited descriptors close.
ChildExits ==
    /\ \/ election = "child" /\ election' = "free" /\ UNCHANGED ofd
       \/ \E i \in LockInode : ofd[i] = "child" /\ ofd' = [ofd EXCEPT ![i] = "free"]
                           /\ UNCHANGED election
    /\ UNCHANGED <<dbPath, inodes, aliased, registry, store>>

\* Another program replaces, removes, puts back or links the database.
Replace ==
    /\ inodes # 0
    /\ \/ \E i \in 0 .. MaxInodes :
              /\ i # dbPath /\ i <= inodes + 1
              /\ dbPath' = i
              /\ inodes' = IF i > inodes THEN i ELSE inodes
              /\ UNCHANGED aliased
       \/ dbPath # 0 /\ aliased' = aliased \union {dbPath} /\ UNCHANGED <<dbPath, inodes>>
    /\ UNCHANGED <<election, ofd, registry, store>>

WritersNext ==
    \/ \E p \in Process : ElectLock(p) \/ DropElection(p) \/ ProcessDies(p)
    \/ \E s \in Stores : \/ AdmitWriter(s) \/ PlacePark(s) \/ PlaceUnidentified(s)
                         \/ PlaceRefused(s) \/ PlaceWriter(s) \/ SettleAdmitted(s)
                         \/ SettleFails(s) \/ CloseConnection(s) \/ DropStore(s)
    \/ ChildExits \/ Replace

WritersSpec == WritersInit /\ [][WritersNext]_writersVars

-----------------------------------------------------------------------------
\* The owner election and the registry admit one writer of a file, in whichever
\* process, while it is connected and while it is being reopened.
OneWriter ==
    \A s, t \in Stores :
        /\ store[s].writer # 0 /\ store[s].writer = store[t].writer => s = t
        /\ store[s].writer # 0 => /\ store[s].writer \in registry[ProcessOf(s)].held
                                  /\ ofd[store[s].writer] = ProcessOf(s)

\* No admission, refused or not, closes a descriptor that would drop the record
\* locks of a connection of the same process.
SqliteLocksKept == \A s \in Stores : store[s].kept

\* The descriptors that can not be closed stay below the cap.
ParkedBounded ==
    \A p \in Process : Parked(p) + registry[p].unidentified <= STORE_PARKED_MAX

\* An owner's store never outlives its election: a second owner that wins the
\* election finds no store of the first one.
ElectionOutlivesStore ==
    \A p \in Process : store[<<p, "owner">>].phase # "none" => election = p

\* Writer admission as a whole: a file has one writer, no admission drops a connection's
\* record locks, parking is bounded, and the election outlives the owner's store.
OneWriterHolds == OneWriter /\ SqliteLocksKept /\ ParkedBounded /\ ElectionOutlivesStore
=============================================================================
