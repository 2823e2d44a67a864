------------------------------ MODULE Evidence ------------------------------
(***************************************************************************)
(* What a task has proved and what its next request carries                *)
(* (src/src/state.rs, src/src/controller.rs): evidence rows and the        *)
(* obligations they support, the context assembled from them, the          *)
(* compaction that folds its history into a checkpoint and the             *)
(* continuation that resumes from it.  A crash may fall between the        *)
(* statements of an insertion that is not one transaction.                 *)
(***************************************************************************)
EXTENDS Naturals, Sequences, FiniteSets, Functions

CONSTANTS
    Obligation,      \* the task's obligations
    MaxRows,         \* evidence ever inserted
    MaxProofs,     \* attempts of the task
    MaxIntents,       \* revisions of the intent
    FoldedLine,      \* the length of a compacted history line, its count aside
    RecordLine,      \* the length of a record's or an attempt's line
    TwoDigits        \* the first count written with two digits

ASSUME ContinuationAssumption ==
    /\ {MaxRows, MaxProofs, MaxIntents, FoldedLine, RecordLine, TwoDigits} \subseteq Nat
    /\ IsFiniteSet(Obligation)

VARIABLES
    proof,           \* the obligations' execution and the evidence rows
    pinned,          \* intent and answer of the task, and its attempts
    compactions,     \* the checkpoints, oldest first
    resumed,         \* what a continuation that just ended found and ran
    inserting        \* the row inserted whose obligation is not yet satisfied
continuationVars == <<proof, pinned, compactions, resumed, inserting>>

NoRow == [id |-> 0, ob |-> "none", valid |-> TRUE]
NoOutcome == [kind |-> "none", same |-> TRUE]

ContinuationInit ==
    /\ proof = [execution |-> [o \in Obligation |-> "pending"], rows |-> {}, made |-> 0]
    /\ pinned = [intent |-> 1, answer |-> 0, attempts |-> 0, blocked |-> FALSE]
    /\ compactions = <<>>
    /\ resumed = NoOutcome
    /\ inserting = NoRow

----------------------------------------------------------------------------
\* Evidence.

FreshRow(o) == [id |-> proof.made + 1, ob |-> o, valid |-> TRUE]
Satisfied(os) == [o \in Obligation |-> IF o \in os THEN "satisfied" ELSE proof.execution[o]]
BetweenCalls == inserting = NoRow /\ resumed' = NoOutcome /\ UNCHANGED compactions

\* A slip: the obligation is satisfied before its row exists.
InsertFirst(o) == [proof EXCEPT !.execution[o] = "satisfied", !.made = @ + 1]

\* insert_evidence, its INSERT: the first of two statements of their own.
InsertRow(o) == [proof EXCEPT !.rows = proof.rows \cup {FreshRow(o)}, !.made = proof.made + 1]
InsertEvidence ==
    /\ BetweenCalls /\ proof.made < MaxRows
    /\ \E o \in Obligation : inserting' = FreshRow(o) /\ proof' = InsertRow(o)
    /\ UNCHANGED pinned
\* Its SATISFY_OBLIGATION.
SatisfyObligation ==
    /\ inserting # NoRow
    /\ proof' = [proof EXCEPT !.execution = Satisfied({inserting.ob})]
    /\ inserting' = NoRow /\ resumed' = NoOutcome
    /\ UNCHANGED <<pinned, compactions>>
\* The process ends between them.
CrashInserting ==
    /\ inserting # NoRow /\ inserting' = NoRow /\ resumed' = NoOutcome
    /\ UNCHANGED <<proof, pinned, compactions>>

\* insert_evidence_for_task: one row for every obligation, in a transaction.
InsertForTask ==
    /\ BetweenCalls /\ proof.made + Cardinality(Obligation) <= MaxRows
    /\ LET f == CHOOSE f \in [Obligation -> (proof.made + 1)..(proof.made + Cardinality(Obligation))] :
                    IsInjective(f)
       IN proof' = [execution |-> Satisfied(Obligation),
                    rows |-> proof.rows \cup {[id |-> f[o], ob |-> o, valid |-> TRUE] :
                                              o \in Obligation},
                    made |-> proof.made + Cardinality(Obligation)]
    /\ UNCHANGED <<pinned, inserting>>

\* invalidate_evidence: the row, its obligation and the task, in a transaction.
InvalidateEvidence ==
    /\ BetweenCalls
    /\ \E r \in proof.rows :
         proof' = [proof EXCEPT !.rows = (proof.rows \ {r}) \cup {[r EXCEPT !.valid = FALSE]},
                                !.execution = [proof.execution EXCEPT ![r.ob] = "stale"]]
    /\ pinned' = [pinned EXCEPT !.blocked = TRUE]
    /\ UNCHANGED inserting

\* A slip: the obligation of a deleted row stays as it is.
ReopenedNever(rows, o) == proof.execution

\* delete_scoped_record: reopened when no row of the obligation remains.
Reopened(rows, o) ==
    IF \E r \in rows : r.ob = o THEN proof.execution
    ELSE [proof.execution EXCEPT ![o] = "pending"]
DeleteScopedRecord ==
    /\ BetweenCalls
    /\ \E r \in proof.rows :
         proof' = [proof EXCEPT !.rows = proof.rows \ {r},
                                !.execution = Reopened(proof.rows \ {r}, r.ob)]
    /\ UNCHANGED <<pinned, inserting>>

----------------------------------------------------------------------------
\* The context and its compaction.

\* A slip: the index is pinned by its records' names alone.
EvidenceIndexNames == {r.id : r \in proof.rows}

\* evidence_index_bytes, as what it tells apart.
EvidenceIndex == {<<r.id, r.valid>> : r \in proof.rows}
\* pinned_inputs, compared by stale_pin one after the other.
PinnedInputs == <<pinned.intent, pinned.answer, EvidenceIndex>>

\* The inputs themselves.
Inputs == <<pinned.intent, pinned.answer, proof.rows>>

continuation_checkpoint == compactions[Len(compactions)]
Folded == Cardinality(proof.rows) + pinned.attempts
FoldedLength(n) == FoldedLine + (IF n >= TwoDigits THEN 2 ELSE 1)
\* assembled_context: the length of its history part.
HistoryLength ==
    IF compactions = <<>> THEN RecordLine * Folded
    ELSE FoldedLength(continuation_checkpoint.folded)

\* A slip: the history may stay as long as it was.
NotShorterLonger(folded) == folded > HistoryLength

\* force_compaction's refusal.
NotShorter(folded) == folded >= HistoryLength
ForceCompaction ==
    /\ inserting = NoRow
    /\ ~ NotShorter(FoldedLength(Folded))
    /\ compactions' = Append(compactions,
                             [pins |-> PinnedInputs, made |-> Inputs,
                              folded |-> Folded, was |-> HistoryLength])
    /\ resumed' = NoOutcome
    /\ UNCHANGED <<proof, pinned, inserting>>

\* A slip: the checkpoint's own copy is served.
ScopedIndexCopied == IF compactions = <<>> THEN {} ELSE continuation_checkpoint.made[3]

\* scoped_index: the checkpoint's records that are still there.
ScopedIndex ==
    IF compactions = <<>> THEN {}
    ELSE {r \in continuation_checkpoint.made[3] : \E l \in proof.rows : l.id = r.id}

----------------------------------------------------------------------------
\* The continuation.

\* resume_continuation: the pins against the live inputs, then one step of
\* the scheduler, which runs an attempt of this task or of another's node.
ResumeContinuation ==
    /\ inserting = NoRow
    /\ IF compactions = <<>>
       THEN resumed' = [NoOutcome EXCEPT !.kind = "no_continuation"] /\ UNCHANGED pinned
       ELSE IF continuation_checkpoint.pins # PinnedInputs
       THEN resumed' = [NoOutcome EXCEPT !.kind = "stale"] /\ UNCHANGED pinned
       ELSE \/ /\ pinned.attempts < MaxProofs
               /\ resumed' = [kind |-> "resumed", same |-> continuation_checkpoint.made = Inputs]
               /\ pinned' = [pinned EXCEPT !.attempts = @ + 1]
            \/ /\ resumed' = [NoOutcome EXCEPT !.kind = "no_continuation"]
               /\ UNCHANGED pinned
    /\ UNCHANGED <<proof, compactions, inserting>>

\* A step outside a continuation, a steer and an answer.
OtherStep ==
    /\ BetweenCalls
    /\ \/ pinned.attempts < MaxProofs /\ pinned' = [pinned EXCEPT !.attempts = @ + 1]
       \/ pinned.intent < MaxIntents
          /\ pinned' = [pinned EXCEPT !.intent = @ + 1, !.blocked = FALSE]
       \/ pinned.answer < 1 /\ pinned' = [pinned EXCEPT !.answer = 1]
    /\ UNCHANGED <<proof, inserting>>

ContinuationNext ==
    \/ InsertEvidence \/ SatisfyObligation \/ CrashInserting \/ InsertForTask
    \/ InvalidateEvidence \/ DeleteScopedRecord
    \/ ForceCompaction \/ ResumeContinuation \/ OtherStep

ContinuationSpec == ContinuationInit /\ [][ContinuationNext]_continuationVars

----------------------------------------------------------------------------
\* Properties.

\* A satisfied obligation has a row that supports it, after a crash between
\* the two statements of an insertion and after its records were deleted
\* (insert_evidence, delete_scoped_record).
SatisfiedIsSupported ==
    \A o \in Obligation :
        proof.execution[o] = "satisfied" => \E r \in proof.rows : r.ob = o

\* A continuation runs only when everything its checkpoint was made from is
\* as it was: the intent, the answer, and every record with its validity
\* (resume_continuation, stale_pin).
ResumeRunsCurrent == resumed.kind = "resumed" => resumed.same

\* No view of a continuation serves a deleted record, though the checkpoint
\* keeps its copy (scoped_index).
DeletedNeverServed ==
    \A r \in ScopedIndex : \E l \in proof.rows : l.id = r.id /\ l.ob = r.ob

\* Each compaction leaves a shorter history than it found
\* (force_compaction, CompactionNotShorter).
CompactionShortens ==
    \A i \in DOMAIN compactions : FoldedLength(compactions[i].folded) < compactions[i].was

-----------------------------------------------------------------------------
(***************************************************************************)
(* Assumption checks and the restores they ask for (src/src/actions.rs,    *)
(* src/src/verification.rs, src/src/state.rs, src/src/controller.rs): the  *)
(* result of a check against its expectation, the evidence retained once   *)
(* per seam, and the environment restore of a recorded setup gap.          *)
(***************************************************************************)

CONSTANTS
    Check,         \* check ids
    Assertion,     \* what a check asserts
    GapCause,      \* the causes of a setup gap
    MaxRestores,   \* restores asked for
    MaxBuilds      \* builds that write the store

ASSUME AssumptionAssumption == MaxRestores \in Nat /\ MaxBuilds \in Nat \ {0}

VARIABLES
    checks,        \* check -> its record, or NoCheck
    retained,      \* the retained rows: boundary, cause, build
    restore,       \* the restore under way
    restored,      \* restores that wrote: attempt, and whether a gap asked for it
    build
assumptionVars == <<checks, retained, restore, restored, build>>

NoCheck == [expected |-> "none", assertion |-> "none", class |-> <<"none">>]
NoRestore == [pc |-> "none", check |-> "none", attempt |-> 0, gap |-> FALSE]
Observations == {<<"passed">>, <<"failed">>} \cup {<<"gap", c>> : c \in GapCause}

AssumptionsInit ==
    /\ checks = [c \in Check |-> NoCheck]
    /\ retained = {} /\ restored = {}
    /\ restore = NoRestore
    /\ build = 1

----------------------------------------------------------------------------
\* Checks.

\* classify_assumption: a gap is never a product's outcome.
classify_assumption(expected, observed) ==
    CASE observed[1] = "gap" -> observed
      [] observed[1] = "passed" -> IF expected = "Pass" THEN <<"confirmed">> ELSE <<"not_reproduced">>
      [] observed[1] = "failed" -> IF expected = "Fail" THEN <<"confirmed">> ELSE <<"product_defect">>

\* assumption_boundary_id: the check and the seam, never the assertion; the
\* row also names the cause and the build that wrote it (assumption_evidence).
Boundary(check, seam) == <<check, seam>>
Evidence(check, seam) == [boundary |-> Boundary(check, seam), cause |-> seam, build |-> build]

\* retain_once: an identical row stands, a different one at the key collides.
Collides(row) == \E r \in retained : r.boundary = row.boundary /\ r # row

\* A slip: a check's expectation may be rewritten.
UpsertsAny(check, expected, assertion) == TRUE

\* RECORD_ASSUMPTION_CHECK: a new check, or the same expectation again.
Upserts(check, expected, assertion) ==
    \/ checks[check] = NoCheck
    \/ checks[check].expected = expected /\ checks[check].assertion = assertion

\* A slip: evidence is retained once per check, whatever the seam.
RecordOncePerCheck(check, record, evidence) ==
    /\ checks' = [checks EXCEPT ![check] = record]
    /\ retained' = IF \E r \in retained : r.boundary[1] = check THEN retained
                   ELSE retained \cup evidence

\* record_assumption: the record and its evidence in one transaction.
record_assumption(check, record, evidence) ==
    IF \E e \in evidence : Collides(e) THEN UNCHANGED <<checks, retained>>
    ELSE /\ checks' = [checks EXCEPT ![check] = record]
         /\ retained' = retained \cup evidence

\* test_assumption.
TestAssumption ==
    /\ restore.pc = "none"
    /\ \E check \in Check, expected \in {"Pass", "Fail"}, a \in Assertion, o \in Observations :
         LET class == classify_assumption(expected, o)
             record == [expected |-> expected, assertion |-> a, class |-> class]
             evidence == IF class = <<"confirmed">> THEN {} ELSE {Evidence(check, class)}
         IN Upserts(check, expected, a) /\ record_assumption(check, record, evidence)
    /\ UNCHANGED <<restore, restored, build>>

----------------------------------------------------------------------------
\* Restores.

\* A slip: any recorded check may ask for a restore.
NeedsRestoreAny(check) == checks[check] # NoCheck

\* prepare_environment's last check: the record is a setup gap.
NeedsRestore(check) == checks[check].class[1] = "gap"

\* prepare_environment without a grant: the refusal of a gap's restore is retained.
RefuseUngranted ==
    /\ restore.pc = "none"
    /\ \E check \in Check :
         /\ checks[check].class[1] = "gap"
         /\ LET row == Evidence(check, <<"prepare_environment">>)
            IN ~ Collides(row) /\ retained' = retained \cup {row}
    /\ UNCHANGED <<checks, restore, restored, build>>

\* The action's request, bound to the record it read.
RequestRestore ==
    /\ restore.pc = "none" /\ restore.attempt < MaxRestores
    /\ \E check \in Check :
         /\ NeedsRestore(check)
         /\ restore' = [pc |-> "announce", check |-> check, attempt |-> restore.attempt + 1,
                        gap |-> checks[check].class[1] = "gap"]
    /\ UNCHANGED <<checks, retained, restored, build>>

PreEffect(r) == [boundary |-> <<r.check, <<"pre", r.attempt>>>>,
                 cause |-> <<"pending">>, build |-> build]
Outcome(r, cause) == [boundary |-> <<r.check, <<"terminal", r.attempt>>>>,
                      cause |-> <<cause>>, build |-> build]

\* A slip: the attempt is not announced.
AnnouncedLate == retained

\* The controller retains the pending attempt first.
Announced == retained \cup {PreEffect(restore)}
Announce ==
    /\ restore.pc = "announce"
    /\ retained' = Announced
    /\ restore' = [restore EXCEPT !.pc = "admit"]
    /\ UNCHANGED <<checks, restored, build>>
\* The executor admits it, or the refusal is the outcome.
AdmitRestore ==
    /\ restore.pc = "admit"
    /\ \/ restore' = [restore EXCEPT !.pc = "execute"] /\ UNCHANGED retained
       \/ /\ retained' = retained \cup {Outcome(restore, "refused")}
          /\ restore' = [restore EXCEPT !.pc = "none"]
    /\ UNCHANGED <<checks, restored, build>>
\* The write happens, is denied, or fails with or without having happened.
ExecuteRestore ==
    /\ restore.pc = "execute"
    /\ \E end \in {"completed", "denied", "failed"} :
         /\ restore' = [restore EXCEPT !.pc = end]
         /\ \/ end # "denied" /\ restored' = restored \cup {restore}
            \/ end # "completed" /\ UNCHANGED restored
    /\ UNCHANGED <<checks, retained, build>>

\* A slip: a denied restore is reported as completed.
OutcomeOfWrong(pc) == IF pc = "denied" THEN "completed" ELSE pc

\* assumption_restore_outcome, retain_environment_failure.
OutcomeOf(pc) == pc
RetainOutcome ==
    /\ restore.pc \in {"completed", "denied", "failed"}
    /\ retained' = retained \cup {Outcome(restore, OutcomeOf(restore.pc))}
    /\ restore' = [restore EXCEPT !.pc = "none"]
    /\ UNCHANGED <<checks, restored, build>>

\* The process ends in a restore; another build may start.
CrashRestore ==
    /\ restore.pc # "none"
    /\ restore' = [restore EXCEPT !.pc = "none"]
    /\ UNCHANGED <<checks, retained, restored, build>>
NewBuild ==
    /\ restore.pc = "none" /\ build < MaxBuilds /\ build' = build + 1
    /\ UNCHANGED <<checks, retained, restore, restored>>

AssumptionsNext ==
    \/ TestAssumption \/ RefuseUngranted \/ RequestRestore \/ Announce \/ AdmitRestore
    \/ ExecuteRestore \/ RetainOutcome \/ CrashRestore \/ NewBuild

AssumptionsSpec == AssumptionsInit /\ [][AssumptionsNext]_assumptionVars

----------------------------------------------------------------------------
\* Properties.

\* What a check expects and asserts never changes once recorded, whatever
\* results follow (record_assumption).
ExpectationIsFixed ==
    [][\A c \in Check : checks[c] # NoCheck =>
          /\ checks'[c].expected = checks[c].expected
          /\ checks'[c].assertion = checks[c].assertion]_assumptionVars

\* A recorded result that is not a confirmation has its evidence retained,
\* under its own seam: a collision with another build's row takes the record
\* with it (record_assumption, retain_once).
EvidenceStands ==
    \A c \in Check :
        checks[c].class \notin {<<"none">>, <<"confirmed">>} =>
            \E r \in retained : r.boundary = Boundary(c, checks[c].class)

\* A restore writes only for a recorded gap, after it was announced, and one
\* reported as completed did write, with a crash at any step
\* (prepare_environment).
RestoresAreAccounted ==
    /\ \A w \in restored : w.gap /\ \E r \in retained : r.boundary = <<w.check, <<"pre", w.attempt>>>>
    /\ \A r \in retained : r.cause = <<"completed">> =>
          \E w \in restored : r.boundary = <<w.check, <<"terminal", w.attempt>>>>

\* Evidence as a whole: a satisfied obligation is supported, a resume runs the current
\* continuation, a compaction shortens and serves nothing deleted, a check's evidence and
\* restores are accounted, and what it expects is fixed before it runs.
EvidenceHolds ==
    /\ [](SatisfiedIsSupported /\ ResumeRunsCurrent /\ DeletedNeverServed /\ CompactionShortens)
    /\ [](EvidenceStands /\ RestoresAreAccounted)
    /\ ExpectationIsFixed
=============================================================================
