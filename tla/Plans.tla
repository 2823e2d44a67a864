------------------------------- MODULE Plans --------------------------------
(***************************************************************************)
(* A material fork (src/src/actions.rs): resolve_decision validates the    *)
(* positions handed over, publishes them as the task's one question or     *)
(* serves the identical one already pending, and, in auto mode under a     *)
(* delegation, answers with the recommended position.  A person may answer *)
(* in between, the mode may change, and a crash may fall between publish   *)
(* and answer.                                                             *)
(***************************************************************************)
EXTENDS Naturals, Sequences, FiniteSets, SequencesExt

CONSTANTS
    Fork,           \* forks handed over: positions <<id, state>>, recommended, basis, row
    SLOTS,          \* DECISION_OPTION_SLOTS
    MaxForks    \* questions published

ASSUME ForkAssumption == SLOTS \in Nat \ {0} /\ MaxForks \in Nat

VARIABLES
    decision,       \* the task's question: number, fork, the row waiting for it; pending
    forkMode,       \* decisions_mode: "ask" or "auto"
    resolving,      \* the call under way: fork, author, delegated, step
    settled         \* the answers: question, fork, option, author, and what was delegated
forkVars == <<decision, forkMode, resolving, settled>>

NoFork == [positions |-> <<>>, recommended |-> "none", basis |-> FALSE, row |-> "none"]
NoCall == [step |-> "none", fork |-> NoFork, author |-> "none", delegated |-> FALSE]

ForksInit ==
    /\ decision = [n |-> 0, fork |-> NoFork, row |-> "none", pending |-> FALSE]
    /\ forkMode \in {"ask", "auto"}
    /\ resolving = NoCall
    /\ settled = {}

----------------------------------------------------------------------------
\* The fork's own contract.

Positions(f) == {f.positions[i] : i \in DOMAIN f.positions}

\* A slip: the recommendation is looked for by its id alone.
ValidForkNamed(f) ==
    /\ Len(f.positions) = SLOTS
    /\ \A p \in Positions(f) : p.id # "bad" /\ p.state # "unexplained"
    /\ Cardinality({p.id : p \in Positions(f)}) = SLOTS
    /\ \E p \in Positions(f) : p.id = f.recommended
    /\ f.basis

\* validate_fork: legal and distinct ids, a reason on every disabled
\* position, an enabled recommendation with a basis.
ValidFork(f) ==
    /\ Len(f.positions) = SLOTS
    /\ \A p \in Positions(f) : p.id # "bad" /\ p.state # "unexplained"
    /\ Cardinality({p.id : p \in Positions(f)}) = SLOTS
    /\ \E p \in Positions(f) : p.id = f.recommended /\ p.state = "enabled"
    /\ f.basis

----------------------------------------------------------------------------
\* resolve_fork.

\* A slip: a person's name stands on what the machine decides.
AuthorAllowedNamed(author) == forkMode = "ask" \/ author # "none"

\* Auto needs a declared author that is not a person.
AuthorAllowed(author) == forkMode = "ask" \/ author \in {"system", "agent"}
Resolve ==
    /\ resolving = NoCall
    /\ \E f \in Fork, author \in {"system", "agent", "human", "none"}, delegated \in BOOLEAN :
         /\ AuthorAllowed(author) /\ ValidFork(f)
         /\ resolving' = [step |-> "publish", fork |-> f, author |-> author,
                          delegated |-> delegated /\ forkMode = "auto"]
    /\ UNCHANGED <<decision, forkMode, settled>>

\* A slip: what is pending is answered whatever it asks.
SameForkAny(pending, f) == TRUE

\* same_fork: prompt, positions, recommendation and basis.
same_fork(pending, f) ==
    /\ pending.positions = f.positions /\ pending.recommended = f.recommended
    /\ pending.basis = f.basis

\* publish_or_dedupe: the pending question is served for the same fork, and
\* for a plan row only while that row waits for it; another conflicts.  A
\* fork with a row is published with the row's Decision blocker.
PublishOrDedupe ==
    /\ resolving.step = "publish"
    /\ LET f == resolving.fork
           next == IF resolving.delegated
                   THEN [resolving EXCEPT !.step = "answer"] ELSE NoCall
       IN IF decision.pending
          THEN /\ resolving' = IF /\ same_fork(decision.fork, f)
                                  /\ f.row = "none" \/ decision.row = f.row
                               THEN next ELSE NoCall
               /\ UNCHANGED decision
          ELSE /\ decision.n < MaxForks
               /\ decision' = [n |-> decision.n + 1, fork |-> f, row |-> f.row, pending |-> TRUE]
               /\ resolving' = next
    /\ UNCHANGED <<forkMode, settled>>

\* A slip: the question stays open.
SettleOpen(option, author, wanted) ==
    /\ settled' = settled \cup {[n |-> decision.n, fork |-> decision.fork, option |-> option,
                                 author |-> author, wanted |-> wanted]}
    /\ UNCHANGED decision

\* The answer closes the question and what waited for it.
Settle(option, author, wanted) ==
    /\ decision' = [decision EXCEPT !.pending = FALSE, !.row = "none"]
    /\ settled' = settled \cup {[n |-> decision.n, fork |-> decision.fork, option |-> option,
                                 author |-> author, wanted |-> wanted]}

\* A slip: the first position is taken.
MachineChoiceFirst == decision.fork.positions[1].id

\* The recommended position, through answer_question, while it is pending.
MachineChoice == decision.fork.recommended
MachineAnswers ==
    /\ resolving.step = "answer"
    /\ IF decision.pending
       THEN Settle(MachineChoice, resolving.author, resolving.fork)
       ELSE UNCHANGED <<decision, settled>>
    /\ resolving' = NoCall
    /\ UNCHANGED forkMode

----------------------------------------------------------------------------
\* Around it.

\* A person answers with an enabled position.
PersonAnswers ==
    /\ decision.pending /\ resolving = NoCall
    /\ \E p \in Positions(decision.fork) :
         p.state = "enabled" /\ Settle(p.id, "human", decision.fork)
    /\ UNCHANGED <<forkMode, resolving>>
\* A new selection of the plan drops the row's fork, a mode switch, a crash.
ReselectFork ==
    /\ decision.row # "none" /\ resolving = NoCall
    /\ decision' = [decision EXCEPT !.pending = FALSE, !.row = "none"]
    /\ UNCHANGED <<forkMode, resolving, settled>>
SwitchMode ==
    /\ resolving = NoCall /\ forkMode' \in {"ask", "auto"} \ {forkMode}
    /\ UNCHANGED <<decision, resolving, settled>>
CrashResolving ==
    /\ resolving # NoCall /\ resolving' = NoCall
    /\ UNCHANGED <<decision, forkMode, settled>>

ForksNext ==
    \/ Resolve \/ PublishOrDedupe \/ MachineAnswers \/ PersonAnswers
    \/ ReselectFork \/ SwitchMode \/ CrashResolving

ForksSpec == ForksInit /\ [][ForksNext]_forkVars

----------------------------------------------------------------------------
\* Properties.

\* What a machine answers is the fork it was handed: the recommendation of
\* that fork and no other, a position that can be taken, in the name of a
\* machine, also when the question was published by an earlier call or for
\* a person (resolve_fork, publish_or_dedupe, validate_fork).
MachineAnswersItsFork ==
    \A a \in settled : a.author # "human" =>
        /\ a.author \in {"system", "agent"}
        /\ same_fork(a.fork, a.wanted) /\ a.option = a.wanted.recommended
        /\ \E p \in Positions(a.fork) : p.id = a.option /\ p.state = "enabled"

\* A question is answered at most once, by whoever comes first, with a crash
\* or a repeated call in between (answer_question).
OneAnswerPerFork == \A a, b \in settled : a.n = b.n => a = b

\* Only a person's answer carries a person's name: every answer in the name
\* "human" came from PersonAnswers, never from a call of the machine
\* (AutoImpersonatesHuman).
NoImpersonation ==
    [][resolving.step = "answer" => \A a \in settled' \ settled : a.author # "human"]_forkVars

-----------------------------------------------------------------------------
(***************************************************************************)
(* The parts of a plan (src/src/actions.rs): the order plan_work gives the *)
(* parts it is handed, pass by pass, and the findings of assess_plan on    *)
(* the plan it recorded.                                                   *)
(***************************************************************************)

CONSTANTS
    Part,             \* parts a caller may hand over: id, needs, serves, proof
    MaxParts,         \* parts of a request
    ARRAY_MAX_ITEMS,  \* parts a plan may have
    TaskCriteria          \* sets of criteria a task may have

ASSUME PartsAssumption == MaxParts \in Nat /\ ARRAY_MAX_ITEMS \in Nat

VARIABLES
    ordering,             \* the parts, the pass over them and the order so far
    planned,          \* "running", "ordered", the refusal, then the verdict
    criteria          \* the criteria of the task
partsVars == <<ordering, planned, criteria>>

----------------------------------------------------------------------------
\* The order of the parts.

PartsInit ==
    /\ \E parts \in (UNION {[1..n -> Part] : n \in 0..MaxParts})
                     \cup {[i \in 1..(ARRAY_MAX_ITEMS + 1) |-> p] : p \in Part} :
         ordering = [parts |-> parts, at |-> 1, order |-> <<>>, before |-> 0]
    /\ planned = "running"
    /\ criteria \in TaskCriteria

Ids(parts) == {parts[i].id : i \in DOMAIN parts}
\* dependency_order's checks, in their order.
Refusal(parts) ==
    IF parts = <<>> THEN "empty"
    ELSE IF Len(parts) > ARRAY_MAX_ITEMS THEN "too_large"
    ELSE IF \E i \in DOMAIN parts : parts[i].id = "bad" THEN "invalid"
    ELSE IF Cardinality(Ids(parts)) < Len(parts) THEN "duplicate"
    ELSE IF \E i \in DOMAIN parts : ~ parts[i].needs \subseteq Ids(parts) THEN "unknown_dependency"
    ELSE "none"
RefuseParts ==
    /\ planned = "running" /\ ordering.at = 1 /\ ordering.order = <<>> /\ ordering.before = 0
    /\ Refusal(ordering.parts) # "none"
    /\ planned' = Refusal(ordering.parts)
    /\ UNCHANGED <<ordering, criteria>>

Placed == ToSet(ordering.order)
\* A slip: a part follows when one of its dependencies is placed.
ReadySome(part) ==
    part.id \notin Placed /\ (part.needs = {} \/ part.needs \cap Placed # {})

\* A part joins the order when all it depends on is in it.
Ready(part) == part.id \notin Placed /\ part.needs \subseteq Placed
ConsiderPart ==
    /\ planned = "running" /\ Refusal(ordering.parts) = "none"
    /\ ordering.at <= Len(ordering.parts)
    /\ LET part == ordering.parts[ordering.at]
       IN ordering' = [ordering EXCEPT !.at = ordering.at + 1,
                         !.order = IF Ready(part) THEN Append(ordering.order, part.id) ELSE ordering.order]
    /\ UNCHANGED <<planned, criteria>>
\* A slip: one pass is enough.
StuckOnce == Len(ordering.order) < Len(ordering.parts)

\* A pass that placed nothing is stuck on a cycle.
Stuck == Len(ordering.order) = ordering.before
EndPass ==
    /\ planned = "running" /\ ordering.at > Len(ordering.parts) /\ ordering.parts # <<>>
    /\ Refusal(ordering.parts) = "none"
    /\ IF Placed = Ids(ordering.parts) THEN planned' = "ordered" /\ UNCHANGED ordering
       ELSE IF Stuck THEN planned' = "cycle" /\ UNCHANGED ordering
       ELSE /\ ordering' = [ordering EXCEPT !.at = 1, !.before = Len(ordering.order)]
            /\ UNCHANGED planned
    /\ UNCHANGED criteria


\* plan_findings.
Uncovered(parts) == {c \in criteria : ~ \E i \in DOMAIN parts : c \in parts[i].serves}
\* A slip: a part's criteria are not held against the task's.
plan_findingsNamed(parts) ==
    \/ criteria = {} \/ Uncovered(parts) # {} \/ \E i \in DOMAIN parts : ~ parts[i].proof

\* No criterion, one no part serves, one the task has not, or no check.
plan_findings(parts) ==
    \/ criteria = {}
    \/ Uncovered(parts) # {}
    \/ \E i \in DOMAIN parts : ~ parts[i].serves \subseteq criteria \/ ~ parts[i].proof
\* assess_plan, on the plan recorded.
AssessParts ==
    /\ planned = "ordered"
    /\ planned' = IF plan_findings(ordering.parts) THEN "fail" ELSE "pass"
    /\ UNCHANGED <<ordering, criteria>>

PartsNext == RefuseParts \/ ConsiderPart \/ EndPass \/ AssessParts

PartsSpec == PartsInit /\ [][PartsNext]_partsVars

----------------------------------------------------------------------------
\* Properties.

\* Every part is in the order once, after all it depends on.
Sound(order) ==
    /\ ToSet(order) = Ids(ordering.parts) /\ Len(order) = Len(ordering.parts)
    /\ \A i, j \in DOMAIN order :
         \A k \in DOMAIN ordering.parts :
            ordering.parts[k].id = order[i] /\ order[j] \in ordering.parts[k].needs => j < i

\* An ordered plan holds every part once, each after all it depends on, and
\* a plan is refused for a cycle exactly when no such order exists
\* (dependency_order).
OrderIsSound ==
    /\ planned \in {"ordered", "pass", "fail"} => Sound(ordering.order)
    /\ planned = "cycle" =>
         ~ \E order \in [1..Len(ordering.parts) -> Ids(ordering.parts)] : Sound(order)

\* A plan that passes proves the task and nothing else: its parts, in order,
\* serve exactly the task's criteria, some criterion, each part with a check
\* (plan_findings, assess_plan).
PassIsCovered ==
    planned = "pass" =>
        /\ criteria # {}
        /\ UNION {ordering.parts[i].serves : i \in DOMAIN ordering.parts} = criteria
        /\ \A id \in ToSet(ordering.order) :
             \E i \in DOMAIN ordering.parts : ordering.parts[i].id = id /\ ordering.parts[i].proof

\* Plans as a whole: a machine answers the fork it was asked, a fork has one answer, nobody
\* answers for another author, and a plan that passes is covered and ordered.
PlansAreSound ==
    [](MachineAnswersItsFork /\ OneAnswerPerFork /\ OrderIsSound /\ PassIsCovered) /\ NoImpersonation
=============================================================================
