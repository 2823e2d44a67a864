------------------------------ MODULE Learning ------------------------------
(***************************************************************************)
(* Learned deltas: src/src/learning.rs and the delta tables of             *)
(* src/src/state/learning.rs.  A candidate is recorded inactive, judged by *)
(* three corpus cases, activated at the version it was judged at and rolled*)
(* back once.  Candidates beyond the newest ones are pruned, and a pruned  *)
(* identifier may be recorded again with another change.  A text is its    *)
(* length in bytes; the newline that joins it counts as one.               *)
(***************************************************************************)
EXTENDS Integers, Sequences, FiniteSets, FiniteSetsExt, SequencesExt

CONSTANTS
    DeltaId,
    Offered,         \* the changes candidates carry, valid ones and others
    Facts,          \* the facts a corpus case presents: a purpose or a request kind
    CorpusCalls,    \* the sets of cases presented at once
    BaseBytes,      \* LARGEST_INSTRUCTION_BASE
    DELTA_INSTRUCTION_MAX_BYTES,
    DEFINITION_MAX_BYTES,
    LEARNING_DELTA_RETENTION

VARIABLES
    deltas,         \* learning_deltas in record order
    corpus          \* learning_corpus; a row keeps, besides, the change it judged
deltasVars == <<deltas, corpus>>

CaseKind == {"transfer", "composition", "negative_control"}
Always == [fact |-> "none", is |-> 0]
Instruction(c) == c.scope = "instruction"

DeltasInit == deltas = <<>> /\ corpus = {}

\* DeltaChange::validate.
ValidChange(c) ==
    IF Instruction(c)
    THEN c.bytes \in 1 .. DELTA_INSTRUCTION_MAX_BYTES /\ c.when.fact \in {"none", "purpose"}
    ELSE c.when.fact = "kind"

\* DeltaCandidate::validate: besides, evidence, and no credential in the text.
CandidateValid(c) == ValidChange(c) /\ c.clean

\* DeltaChange::applies.
Applies(c, facts) == c.when = Always \/ c.when = facts

\* definition_on: the active changes, in record order.
Definition ==
    LET active == SelectSeq(deltas, LAMBDA d : d.state = "active")
    IN  [i \in DOMAIN active |-> active[i].change]

Bytes(def, keep(_)) ==
    FoldSeq(LAMBDA c, n : IF Instruction(c) /\ keep(c) THEN n + c.bytes + 1 ELSE n, 0, def)

\* LearningDefinition::max_instruction_bytes: what always applies, with the
\* heaviest purpose.
MaxInstructionBytes(def) ==
    BaseBytes + Bytes(def, LAMBDA c : c.when = Always)
              + Max({Bytes(def, LAMBDA c : c.when = f) : f \in Facts} \union {0})

\* LearningDefinition::instruction_part, its length.
InstructionPart(def, facts) ==
    BaseBytes + Bytes(def, LAMBDA c : Applies(c, facts))

\* LearningDefinition::applicability: the last one that applies decides.
Applicability(def, capability, facts) ==
    LET says == SelectSeq(def, LAMBDA c : ~ Instruction(c) /\ c.capability = capability
                                             /\ Applies(c, facts))
    IN  IF says = <<>> THEN "nothing" ELSE Last(says).effect

\* corpus_verdict.
Passed(c, kind, facts, control) ==
    LET composed == Append(Definition, c)
    IN  CASE kind = "transfer" -> Applies(c, facts)
          [] kind = "composition" ->
                /\ MaxInstructionBytes(composed) <= DEFINITION_MAX_BYTES
                /\ ~ Instruction(c) => Applicability(composed, c.capability, facts) = c.effect
          [] kind = "negative_control" -> Applies(control, facts) /\ ~ Applies(c, facts)

Row(id) == SelectInSeq(deltas, LAMBDA d : d.id = id)
DeltaRecorded(id) == Row(id) # 0

\* Mutant: a pruned candidate's verdicts stay.
PruneRowsOnly(table) ==
    LET idle == SelectSeq(table, LAMBDA d : d.state = "inactive")
        gone == {idle[i].id : i \in 1 .. (Len(idle) - LEARNING_DELTA_RETENTION)}
    IN  /\ deltas' = SelectSeq(table, LAMBDA d : d.id \notin gone)
        /\ UNCHANGED corpus

\* prune_learning_candidates: beyond the newest, with their verdicts.
Prune(table) ==
    LET idle == SelectSeq(table, LAMBDA d : d.state = "inactive")
        gone == {idle[i].id : i \in 1 .. (Len(idle) - LEARNING_DELTA_RETENTION)}
    IN  /\ deltas' = SelectSeq(table, LAMBDA d : d.id \notin gone)
        /\ corpus' = {row \in corpus : row.id \notin gone}

RecordLearningDelta(id, c) ==
    /\ CandidateValid(c) /\ ~ DeltaRecorded(id)
    /\ Prune(Append(deltas, [id |-> id, change |-> c, state |-> "inactive", version |-> 1]))

\* record_learning_corpus: each verdict replaces the one of its kind.
RecordLearningCorpus(id, kinds, facts, beyond, control) ==
    /\ DeltaRecorded(id) /\ control # id /\ DeltaRecorded(control)
    /\ LET d == deltas[Row(id)]
           Passes(kind) == Passed(d.change, kind, IF kind = "negative_control" THEN beyond ELSE facts,
                                  deltas[Row(control)].change)
       IN  corpus' = {row \in corpus : ~ (row.id = id /\ row.kind \in kinds)}
                       \union {[id |-> id, version |-> d.version, kind |-> kind,
                                passed |-> Passes(kind), judged |-> d.change] : kind \in kinds}
    /\ UNCHANGED deltas

\* require_corpus.
RequireCorpus(id, version) ==
    \A kind \in CaseKind :
        \E row \in corpus : row.id = id /\ row.version = version /\ row.kind = kind /\ row.passed

DeltaMoved(id, to) == [deltas EXCEPT ![Row(id)].state = to, ![Row(id)].version = @ + 1]

\* Mutant: the size judged when the corpus ran is trusted.
ActivateUnmeasured(id, expected) ==
    /\ DeltaRecorded(id) /\ RequireCorpus(id, expected)
    /\ deltas[Row(id)].state = "inactive" /\ deltas[Row(id)].version = expected
    /\ deltas' = DeltaMoved(id, "active")
    /\ UNCHANGED corpus

\* activate_learning_delta: the corpus, the pinned row, and the size of the
\* definition as it would be, in one transaction.
ActivateLearningDelta(id, expected) ==
    /\ DeltaRecorded(id) /\ RequireCorpus(id, expected)
    /\ deltas[Row(id)].state = "inactive" /\ deltas[Row(id)].version = expected
    /\ deltas' = DeltaMoved(id, "active")
    /\ MaxInstructionBytes(Definition') <= DEFINITION_MAX_BYTES
    /\ UNCHANGED corpus

\* Mutant: a rolled back delta is a candidate again.
RollBackToCandidate(id, expected) ==
    /\ DeltaRecorded(id)
    /\ deltas[Row(id)].state = "active" /\ deltas[Row(id)].version = expected
    /\ deltas' = [deltas EXCEPT ![Row(id)].state = "inactive", ![Row(id)].version = 1]
    /\ UNCHANGED corpus

RollBackLearningDelta(id, expected) ==
    /\ DeltaRecorded(id)
    /\ deltas[Row(id)].state = "active" /\ deltas[Row(id)].version = expected
    /\ deltas' = DeltaMoved(id, "rolled_back")
    /\ UNCHANGED corpus

DeltasNext ==
    \E id \in DeltaId :
        \/ \E c \in Offered : RecordLearningDelta(id, c)
        \/ \E kinds \in CorpusCalls, facts, beyond \in Facts, control \in DeltaId :
              facts # beyond /\ RecordLearningCorpus(id, kinds, facts, beyond, control)
        \/ \E expected \in 1 .. 3 : ActivateLearningDelta(id, expected)
                                      \/ RollBackLearningDelta(id, expected)

-----------------------------------------------------------------------------
\* What serves was judged as it is: each active delta has passed a transfer and
\* a negative control of its own change, whatever was pruned and recorded again
\* under the same name.  (The rows of a later judgement carry a later version.)
JudgedAsServed ==
    \A i \in DOMAIN deltas : deltas[i].state = "active" =>
        \A row \in corpus : row.id = deltas[i].id => row.judged = deltas[i].change

\* Whatever purpose a call has, the served instruction part is within bounds.
InstructionBounded ==
    \A facts \in Facts : InstructionPart(Definition, facts) <= DEFINITION_MAX_BYTES

\* A delta that was rolled back never serves again, and is never pruned.
RolledBackIsFinal ==
    [][\A i \in DOMAIN deltas : deltas[i].state # "inactive" =>
          \E j \in DOMAIN deltas' :
              /\ deltas'[j].id = deltas[i].id /\ deltas'[j].change = deltas[i].change
              /\ deltas'[j].state # "inactive"
              /\ deltas[i].state = "rolled_back" => deltas'[j] = deltas[i]]_deltasVars

-----------------------------------------------------------------------------
(***************************************************************************)
(* The replay of a saved segment: run_procedure_step of                    *)
(* src/src/controller.rs over the run tables of src/src/state/learning.rs  *)
(* and run_segment_step of src/src/executor.rs.  A step row is written     *)
(* before its effect, stamped with the attempt that performs it, and       *)
(* settled with the cursor after it; a crash may fall anywhere between.    *)
(* Runs of every procedure share one table and one retention.              *)
(***************************************************************************)

CONSTANTS
    Procedure,
    Steps,          \* steps of a segment
    MaxRuns,        \* bound: runs ever started
    MaxTries,       \* bound: attempts ever admitted
    PROCEDURE_RUN_RETENTION

ASSUME ProceduresAssumption == Steps \in Nat \ {0} /\ PROCEDURE_RUN_RETENTION \in Nat

VARIABLES
    runs,           \* procedure_runs with their steps, by run number
    tries,          \* the attempts: run, position, state and whether the effect landed
    fork,           \* the task's pending fork, 0: none
    at              \* the caller: where it is, for which run and attempt
proceduresVars == <<runs, tries, fork, at>>

Idle == [pc |-> "idle", run |-> 0, try |-> 0]
Step == 1 .. Steps
NoStep == [state |-> "none", try |-> 0]
Unresolved == {"running", "unknown"}

ProceduresInit ==
    /\ runs = <<>> /\ tries = <<>> /\ fork = 0 /\ at = Idle

KeptRuns == {r \in DOMAIN runs : runs[r].state # "pruned"}
NewestRun(set) == CHOOSE r \in set : \A s \in set : s <= r
OfProcedure(p) == {r \in KeptRuns : runs[r].procedure = p}

\* Mutant: a stopped run is not found again.
ResumableRunning(p) == {r \in OfProcedure(p) : runs[r].state = "running"}

\* RESUMABLE_PROCEDURE_RUN: whatever is not completed.
Resumable(p) == {r \in OfProcedure(p) : runs[r].state # "completed"}
CompletedRuns(p) == {r \in OfProcedure(p) : runs[r].state = "completed"}

\* prune_procedure_runs: the runs that do not run, beyond the newest, whichever
\* procedure they are of.
Pruned(table) ==
    LET terminal == {r \in DOMAIN table : table[r].state \in {"completed", "stopped"}}
    IN  [r \in DOMAIN table |->
            IF r \in terminal /\ Cardinality({s \in terminal : s > r}) >= PROCEDURE_RUN_RETENTION
            THEN [table[r] EXCEPT !.state = "pruned", !.steps = [i \in Step |-> NoStep]]
            ELSE table[r]]

\* start_procedure_run: the newest open run, else a new one; a resume of a
\* completed segment is refused.
StartProcedureRun(p, open) ==
    /\ at = Idle
    /\ \/ /\ Resumable(p) # {}
          /\ LET r == NewestRun(Resumable(p))
             IN  runs' = [runs EXCEPT ![r].state = "running"] /\ at' = [Idle EXCEPT !.pc = "recover", !.run = r]
       \/ /\ Resumable(p) = {} /\ (open = "resume" => CompletedRuns(p) = {})
          /\ Len(runs) < MaxRuns
          /\ runs' = Pruned(Append(runs, [procedure |-> p, state |-> "running", cursor |-> 0,
                                          pending |-> fork, open |-> open,
                                          steps |-> [i \in Step |-> NoStep]]))
          /\ at' = [Idle EXCEPT !.pc = "recover", !.run = Len(runs) + 1]
    /\ UNCHANGED <<tries, fork>>

PreparedStep(r) == {i \in Step : runs[r].steps[i].state = "prepared"}

\* Mutant: a running attempt is taken for one that landed.
StandingRunningLanded(try) ==
    CASE tries[try].state \in {"planned", "rejected"} -> "not_started"
      [] tries[try].state \in {"running", "confirmed"} -> "landed"
      [] tries[try].state = "unknown" -> "unresolved"

\* StepStanding::parse of the attempt a row is stamped with.
Standing(try) ==
    CASE tries[try].state \in {"planned", "rejected"} -> "not_started"
      [] tries[try].state = "confirmed" -> "landed"
      [] tries[try].state \in Unresolved -> "unresolved"

\* release_unstarted_procedure_step.
Released(table, r, i) ==
    IF table[r].steps[i].state = "prepared" /\ Standing(table[r].steps[i].try) = "not_started"
    THEN [table EXCEPT ![r].steps[i] = NoStep] ELSE table

\* settle_procedure_step: the row and the cursor, together.
SettledStep(table, r, i) ==
    [table EXCEPT ![r].steps[i].state = "settled", ![r].cursor = i]

Stopped(table, r) == [table EXCEPT ![r].state = "stopped"]

\* Mutant: a prepared step is released whatever its attempt says.
RecoverReleases ==
    /\ at.pc = "recover"
    /\ LET r == at.run IN
       \/ PreparedStep(r) = {} /\ UNCHANGED runs
       \/ \E i \in PreparedStep(r) : runs' = [runs EXCEPT ![r].steps[i] = NoStep]
    /\ at' = [at EXCEPT !.pc = "check"]
    /\ UNCHANGED <<tries, fork>>

\* run_procedure_step on what an earlier call left prepared.
RecoverPrepared ==
    /\ at.pc = "recover"
    /\ LET r == at.run IN
       \/ PreparedStep(r) = {} /\ UNCHANGED runs /\ at' = [at EXCEPT !.pc = "check"]
       \/ \E i \in PreparedStep(r) :
             LET standing == Standing(runs[r].steps[i].try)
             IN  \/ standing = "not_started" /\ runs' = Released(runs, r, i)
                    /\ at' = [at EXCEPT !.pc = "check"]
                 \/ standing = "landed" /\ runs' = SettledStep(runs, r, i)
                    /\ at' = [at EXCEPT !.pc = "check"]
                 \/ standing = "unresolved" /\ runs' = Stopped(runs, r) /\ at' = Idle
    /\ UNCHANGED <<tries, fork>>

\* run_procedure_step: a moved fork or an unresolved attempt of the task stops
\* the run, an empty remainder completes it, and otherwise the step is admitted.
CheckStops ==
    /\ at.pc = "check"
    /\ LET r == at.run
           stop == fork # runs[r].pending \/ \E t \in DOMAIN tries : tries[t].state \in Unresolved
       IN  \/ stop /\ runs' = Stopped(runs, r) /\ at' = Idle
           \/ ~ stop /\ runs[r].cursor = Steps
              /\ runs' = [runs EXCEPT ![r].state = "completed"] /\ at' = Idle
           \/ ~ stop /\ runs[r].cursor < Steps /\ at' = [at EXCEPT !.pc = "admit"] /\ UNCHANGED runs
    /\ UNCHANGED <<tries, fork>>

\* run_segment_step: the admission fails, or its right is revoked and the run stops.
AdmitRefused ==
    /\ at.pc = "admit"
    /\ runs' = runs \/ runs' = Stopped(runs, at.run)
    /\ at' = Idle
    /\ UNCHANGED <<tries, fork>>

AdmitStep ==
    /\ at.pc = "admit" /\ Len(tries) < MaxTries
    /\ tries' = Append(tries, [run |-> at.run, position |-> runs[at.run].cursor + 1,
                               state |-> "planned", landed |-> FALSE])
    /\ at' = [at EXCEPT !.pc = "prepare", !.try = Len(tries) + 1]
    /\ UNCHANGED <<runs, fork>>

\* prepare_procedure_step: the row, ahead of the effect.
PrepareStep ==
    /\ at.pc = "prepare"
    /\ runs' = [runs EXCEPT ![at.run].steps[tries[at.try].position] = [state |-> "prepared", try |-> at.try]]
    /\ at' = [at EXCEPT !.pc = "execute"]
    /\ UNCHANGED <<tries, fork>>

TryIs(state) == tries' = [tries EXCEPT ![at.try].state = state]

\* Executor::execute: a gate refuses, or the attempt runs.
ExecuteGates ==
    /\ at.pc = "execute"
    /\ \/ TryIs("running") /\ at' = [at EXCEPT !.pc = "flight"]
       \/ TryIs("rejected") /\ at' = [at EXCEPT !.pc = "outcome"]
       \/ UNCHANGED tries /\ at' = [at EXCEPT !.pc = "outcome"]
    /\ UNCHANGED <<runs, fork>>

EffectLands ==
    /\ at.pc = "flight" /\ ~ tries[at.try].landed
    /\ tries' = [tries EXCEPT ![at.try].landed = TRUE]
    /\ UNCHANGED <<runs, fork, at>>

\* The worker's answer: a confirmed effect landed, a rejected one did not, and
\* an unknown one may have.
ExecuteReports ==
    /\ at.pc = "flight"
    /\ \/ tries[at.try].landed /\ TryIs("confirmed")
       \/ ~ tries[at.try].landed /\ TryIs("rejected")
       \/ TryIs("unknown")
    /\ at' = [at EXCEPT !.pc = "outcome"]
    /\ UNCHANGED <<runs, fork>>

\* run_procedure_step on the outcome: an unstarted step is released, an
\* unresolved one stops the run and keeps its row, a landed one is settled.
StepOutcome ==
    /\ at.pc = "outcome"
    /\ LET r == at.run
           i == tries[at.try].position
           standing == Standing(at.try)
           left == Released(runs, r, i)
       IN  \/ standing = "not_started" /\ runs' \in {left, Stopped(left, r)}
           \/ standing = "unresolved" /\ runs' = Stopped(left, r)
           \/ standing = "landed"
              /\ LET settled == SettledStep(runs, r, i)
                 IN  runs' = IF i = Steps THEN [settled EXCEPT ![r].state = "completed"] ELSE settled
    /\ at' = Idle
    /\ UNCHANGED <<tries, fork>>

\* The owner dies; nothing of the call survives.
OwnerDies == at # Idle /\ at' = Idle /\ UNCHANGED <<runs, tries, fork>>

\* A person reconciles an attempt whose outcome is not known.
ReconcileTry ==
    /\ at = Idle
    /\ \E t \in DOMAIN tries :
          /\ tries[t].state \in Unresolved
          /\ tries' = [tries EXCEPT ![t].state = IF tries[t].landed THEN "confirmed" ELSE "rejected"]
    /\ UNCHANGED <<runs, fork, at>>

ForkMoves == fork' = 1 - fork /\ UNCHANGED <<runs, tries, at>>

ProceduresNext ==
    \/ \E p \in Procedure, open \in {"resume", "fresh"} : StartProcedureRun(p, open)
    \/ RecoverPrepared \/ CheckStops \/ AdmitRefused \/ AdmitStep \/ PrepareStep \/ ExecuteGates
    \/ EffectLands \/ ExecuteReports \/ StepOutcome \/ OwnerDies \/ ReconcileTry \/ ForkMoves

-----------------------------------------------------------------------------
LandedAt(r, i) == {t \in DOMAIN tries : tries[t].run = r /\ tries[t].position = i /\ tries[t].landed}

\* However often a run is stopped, resumed or cut by a crash, no step of it has
\* its effect twice.
EffectOnce == \A r \in DOMAIN runs, i \in Step : Cardinality(LandedAt(r, i)) <= 1

\* The cursor stands for effects that happened: every step up to it is settled
\* by an attempt that landed, and none beyond it is.
CursorIsProven ==
    \A r \in KeptRuns : \A i \in Step :
        IF i <= runs[r].cursor
        THEN /\ runs[r].steps[i].state = "settled"
             /\ runs[r].steps[i].try \in LandedAt(r, i)
        ELSE runs[r].steps[i].state # "settled"

\* A procedure has one run that a resume may continue.
OneOpenRun ==
    \A p \in Procedure : Cardinality({r \in OfProcedure(p) : runs[r].state # "completed"}) <= 1

\* sql::RESUMABLE_PROCEDURE_RUN: a stopped run is resumed from its own cursor,
\* so a settled effect is never issued again by a resume.
ResumeNeverReissues ==
    \A r, s \in DOMAIN runs : \A i \in Step :
        /\ r < s /\ runs[r].procedure = runs[s].procedure /\ runs[s].open = "resume"
        => LandedAt(r, i) = {} \/ LandedAt(s, i) = {}

\* What was learned, as a whole: a served delta was judged as it is, fits its bound and
\* never returns once rolled back; a replayed segment performs each effect once, its cursor
\* stands on performed steps, and one run of a procedure is open.
LearningIsProven ==
    /\ [](JudgedAsServed /\ InstructionBounded /\ EffectOnce /\ CursorIsProven /\ OneOpenRun)
    /\ RolledBackIsFinal
=============================================================================
