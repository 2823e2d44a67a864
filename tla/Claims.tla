------------------------------- MODULE Claims -------------------------------
(***************************************************************************)
(* How a confined check claims its planned Exec attempt: claim_check of    *)
(* src/src/state.rs, called by execute_check of src/src/executor.rs.  One  *)
(* transaction moves the attempt to running and writes the first-only      *)
(* marker; the check is dispatched after its COMMIT and after nothing else.*)
(* A COMMIT that reports an error is ambiguous: a record of it is written, *)
(* or held in memory while the store is quarantined until a reopen carries *)
(* it.  The busy wait is zero during a claim and is put back at every exit,*)
(* or the connection is given up.                                          *)
(***************************************************************************)
EXTENDS Integers

CONSTANTS Attempt, NoAttempt

ASSUME ClaimsAssumption == NoAttempt \notin Attempt

VARIABLES
    attemptRow,        \* attempts table: "planned" or "running"
    marker,         \* attempts with the retained row admit.claim
    commitRow,      \* attempts with the retained row admit.claim_commit
    claimTask,           \* the claim's task: its lifecycle, selection and gate
    slot,           \* the slot: "open", "intx" (a transaction is left open), "empty"
    busyWait,           \* the connection's busy timeout: "prior" or "zero"
    held,           \* held_claim_commit
    claimed,        \* the admission in phase Claimed that is about to dispatch
    dispatched             \* how often each attempt was dispatched
claimsVars == <<attemptRow, marker, commitRow, claimTask, slot, busyWait, held, claimed, dispatched>>
claimRows == <<attemptRow, marker, commitRow>>

ClaimsInit ==
    /\ attemptRow = [a \in Attempt |-> "planned"] /\ marker = {} /\ commitRow = {}
    /\ claimTask = [ended |-> FALSE, selected |-> TRUE, open |-> TRUE]
    /\ slot = "open" /\ busyWait = "prior" /\ held = NoAttempt
    /\ claimed = NoAttempt /\ dispatched = [a \in Attempt |-> 0]

Quarantined == slot # "open" \/ held # NoAttempt
SlotUsable == ~ Quarantined /\ claimed = NoAttempt

\* Mutant: the ambiguous COMMIT of an earlier claim is not looked up.
ClaimableForgets(a, native) ==
    /\ a \notin marker /\ ~ claimTask.ended /\ attemptRow[a] = "planned"
    /\ native => claimTask.selected /\ claimTask.open

\* claim_in_transaction, its reads: no marker, a live task, a planned attempt,
\* no record of an ambiguous COMMIT; a Native claim has its selection and an
\* open gate.
Claimable(a, native) ==
    /\ a \notin marker /\ ~ claimTask.ended /\ attemptRow[a] = "planned"
    /\ a \notin commitRow
    /\ native => claimTask.selected /\ claimTask.open

\* Mutant: a connection whose wait can not be restored is kept.
RestoreOrKeep == slot' = slot /\ busyWait' \in {"prior", "zero"}

\* restore_or_quarantine.
RestoreOrQuarantine ==
    \/ slot' = slot /\ busyWait' = "prior"
    \/ slot' = "empty" /\ busyWait' = "prior"

\* claim_check refuses: the wait can not be read or set, the caller cancelled,
\* the deadline passed, the lock is busy, a read or a write failed, or a fact
\* does not hold.  Before the dispatch; the transaction is rolled back.
ClaimRefused ==
    /\ SlotUsable
    /\ RestoreOrQuarantine
    /\ UNCHANGED <<claimRows, claimTask, held, claimed, dispatched>>

\* claim_in_transaction: the wait is put back before the COMMIT, and a failure
\* of it costs the claim and the connection.
ClaimWaitRestore(a, native) ==
    /\ SlotUsable /\ Claimable(a, native)
    /\ slot' = "empty" /\ busyWait' = "prior"
    /\ UNCHANGED <<claimRows, claimTask, held, claimed, dispatched>>

\* The claim's two writes, in one COMMIT.
CommitClaim(a) == attemptRow' = [attemptRow EXCEPT ![a] = "running"] /\ marker' = marker \union {a}

ClaimCommits(a, native) ==
    /\ SlotUsable /\ Claimable(a, native)
    /\ CommitClaim(a)
    /\ claimed' = a
    /\ UNCHANGED <<commitRow, claimTask, slot, busyWait, held, dispatched>>

\* Mutant: an ambiguous COMMIT is taken for a claim.
ClaimReportedClaims(a, native) ==
    /\ SlotUsable /\ Claimable(a, native)
    /\ CommitClaim(a) \/ UNCHANGED <<attemptRow, marker>>
    /\ claimed' = a
    /\ UNCHANGED <<commitRow, claimTask, slot, busyWait, held, dispatched>>

\* The COMMIT reported an error, durable or not, and ended the transaction or
\* not: the record is written on the same connection, or held.
ClaimReported(a, native) ==
    /\ SlotUsable /\ Claimable(a, native)
    /\ \/ CommitClaim(a) /\ slot' = "open"
       \/ UNCHANGED <<attemptRow, marker>> /\ slot' \in {"open", "intx"}
    /\ \/ slot' = "open" /\ commitRow' = commitRow \union {a} /\ UNCHANGED held
       \/ held' = a /\ UNCHANGED commitRow
    /\ UNCHANGED <<claimTask, busyWait, claimed, dispatched>>

\* execute_check: only a Claimed outcome reaches execute_check_inner.
DispatchCheck ==
    /\ claimed # NoAttempt
    /\ dispatched' = [dispatched EXCEPT ![claimed] = @ + 1]
    /\ claimed' = NoAttempt
    /\ UNCHANGED <<claimRows, claimTask, slot, busyWait, held>>

\* refuse_pre_claim: a refusal before the claim leaves its row under a zero
\* wait of its own.
PreClaimRejection ==
    /\ SlotUsable
    /\ RestoreOrQuarantine
    /\ UNCHANGED <<claimRows, claimTask, held, claimed, dispatched>>

\* reopen: the old connection closes (a failure, or one of the open, empties
\* the slot); the carried write is the first on the new one, before the
\* bootstrap, whose failure empties the slot and holds the same record again.
\* A failed carry with a good bootstrap ends the record.
ReopenStore ==
    /\ claimed = NoAttempt
    /\ busyWait' = "prior"
    /\ \E carried \in BOOLEAN, up \in {"no", "half", "yes"} :
          /\ slot' = IF up = "yes" THEN "open" ELSE "empty"
          /\ commitRow' = commitRow \union (IF carried /\ up # "no" THEN {held} \ {NoAttempt} ELSE {})
          /\ held' = IF up = "yes" THEN NoAttempt ELSE held
    /\ UNCHANGED <<attemptRow, marker, claimTask, claimed, dispatched>>

\* close: an unhealthy store emits no SQL and ends the holder.
CloseStore ==
    /\ claimed = NoAttempt
    /\ slot' = "empty" /\ busyWait' = "prior" /\ held' = NoAttempt
    /\ UNCHANGED <<claimRows, claimTask, claimed, dispatched>>

\* The process ends and another opens the store.
StoreRestarts ==
    /\ slot' = "open" /\ busyWait' = "prior" /\ held' = NoAttempt /\ claimed' = NoAttempt
    /\ UNCHANGED <<claimRows, claimTask, dispatched>>

\* The rest of the program: the task ends, is selected anew, its gate moves.
TaskMoves ==
    /\ SlotUsable
    /\ \E f \in {"ended", "selected", "open"} :
          /\ f = "ended" => ~ claimTask.ended
          /\ claimTask' = [claimTask EXCEPT ![f] = ~ @]
    /\ UNCHANGED <<claimRows, slot, busyWait, held, claimed, dispatched>>

ClaimsNext ==
    \/ \E a \in Attempt, native \in BOOLEAN :
          \/ ClaimWaitRestore(a, native) \/ ClaimCommits(a, native) \/ ClaimReported(a, native)
    \/ ClaimRefused \/ DispatchCheck \/ PreClaimRejection \/ ReopenStore \/ CloseStore \/ StoreRestarts \/ TaskMoves

ClaimsSpec == ClaimsInit /\ [][ClaimsNext]_claimsVars

-----------------------------------------------------------------------------
\* A claimed attempt is dispatched once, whatever failed, reopened or restarted
\* in between, and after its claim is durable.
FirstOnly == \A a \in Attempt : dispatched[a] <= 1 /\ (dispatched[a] = 1 => a \in marker)

\* An attempt whose COMMIT was ambiguous is never run while a record of that
\* exists, in the table or in the holder.
AmbiguousNeverRuns ==
    \A a \in Attempt : a \in commitRow \/ a = held => dispatched[a] = 0 /\ claimed # a

\* A store that can be used has its own busy wait: no exit of a claim leaves a
\* connection that fails at once on a lock.
WaitRestoredOrEmpty == slot # "empty" => busyWait = "prior"

\* claim_check as a whole: a check is dispatched once and under its marker, an
\* ambiguous COMMIT never dispatches, and a connection is kept with its wait put back.
ClaimRunsOnce == FirstOnly /\ AmbiguousNeverRuns /\ WaitRestoredOrEmpty
=============================================================================
