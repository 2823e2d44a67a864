----------------------------- MODULE TaskStore ------------------------------
(***************************************************************************)
(* One task as src/src/state.rs keeps it: its lifecycle, its questions,    *)
(* the obligations and evidence of its criteria, its attempts and its      *)
(* plan, with the handlers of src/src/actions.rs that write the plan.      *)
(* Tasks share no row, so one is enough.  The database admits one writer,  *)
(* and every action below is one transaction of it, or one handler whose   *)
(* transactions nothing can come between but a crash.  A call the store    *)
(* refuses changes nothing and is not an action.  Revisions, cursors and   *)
(* the journal are left out: nothing here reads them but the pin of steer, *)
(* which a caller that read the row last always holds.                     *)
(***************************************************************************)
EXTENDS PlanRules, FiniteSets

CONSTANTS
    Criteria,       \* the criteria the task was created with
    Attempts,       \* effect attempts the executor may make
    Requests,       \* plan requests callers may weigh
    MaxIntent,      \* bound: intents a run opens
    MaxQuestions,   \* bound: questions a run publishes
    MaxSelections,  \* bound: selections a run records
    MaxPlans        \* bound: plan revisions a run records

ASSUME StoreAssumption ==
    /\ Requests \subseteq PlanRequest
    /\ MaxIntent \in Nat \ {0}
    /\ MaxQuestions \in Nat /\ MaxSelections \in Nat /\ MaxPlans \in Nat

VARIABLES
    task,           \* lifecycle, live intent, gate hold, the plan_blocks mark
    questions,      \* published questions, in order
    obligations,    \* criterion -> obligation, for those materialised
    evidence,       \* criterion -> none, current or stale (some row is stale)
    attempts,       \* attempt -> state
    selection,      \* revision (0: none) and facts of the current selection
    rows,           \* capability -> plan row of the current selection
    plans           \* plan revisions, in order

proof == <<obligations, evidence, attempts>>
plan == <<selection, rows, plans>>
vars == <<task, questions, proof, plan>>

Terminal == {"completed", "cancelled"}
Lifecycle == {"running", "waiting", "paused", "blocked"} \union Terminal
AttemptState == {"none", "planned", "running", "confirmed", "rejected", "unknown"}
Open == task.lifecycle \notin Terminal

Pending(qs) == { q \in DOMAIN qs : qs[q].state = "pending" }
Superseded(qs, S) ==
    [q \in DOMAIN qs |-> IF q \in S THEN [qs[q] EXCEPT !.state = "superseded"] ELSE qs[q]]

\* create_task.
Init ==
    /\ task = [lifecycle |-> "running", intent |-> 1, hold |-> "none", planBlock |-> FALSE]
    /\ questions = << >>
    /\ obligations = << >>
    /\ evidence = [c \in Criteria |-> "none"]
    /\ attempts = [a \in Attempts |-> "none"]
    /\ selection = [revision |-> 0, facts |-> NoFacts]
    /\ rows = << >>
    /\ plans = << >>

-----------------------------------------------------------------------------
(* The plan's lifecycle rule, on the tables a transaction has written.      *)

Unresolved(obs) == { c \in DOMAIN obs : obs[c].applicability = "unresolved" }
Unknown(ats) == { a \in DOMAIN ats : ats[a] = "unknown" }

\* Nothing but the plan keeps the task from running.
NoOtherSource(qs, obs) ==
    Pending(qs) = {} /\ Unresolved(obs) = {} /\ Unknown(attempts) = {}

\* Mutant: any block may be released, not only one the plan made.
ReleasedAny(t, free) ==
    IF free THEN [t EXCEPT !.lifecycle = "running", !.planBlock = FALSE] ELSE t

\* release_plan_owned_block.
Released(t, free) ==
    IF t.planBlock /\ free THEN [t EXCEPT !.lifecycle = "running", !.planBlock = FALSE] ELSE t

Held(t, rws) == t.hold # "none" \/ PlanRowHolds(rws)

\* settle_plan_lifecycle.
SettledLifecycle(t, rws, free) ==
    CASE t.lifecycle = "running" /\ Held(t, rws) ->
            [t EXCEPT !.lifecycle = "blocked", !.planBlock = TRUE]
      [] t.lifecycle = "blocked" /\ ~ Held(t, rws) -> Released(t, free)
      [] OTHER -> t

\* Mutant: the hold is always renamed, an opened gate's too.
HoldNamesGate(t, gate) == IF t.hold = "none" THEN "none" ELSE gate

\* An opened gate drops its hold, a closed one names its kind.
HoldOf(t, gate) == IF t.hold = "none" \/ gate = "open" THEN "none" ELSE gate

\* Mutant: the lifecycle is settled before the hold is.
SettledInOrder(t, sel, rws, pls, free) ==
    [SettledLifecycle(t, rws, free) EXCEPT !.hold = HoldOf(t, PlanGate(sel, rws, pls))]

\* settle_plan_state.
SettledPlan(t, sel, rws, pls, free) ==
    SettledLifecycle([t EXCEPT !.hold = HoldOf(t, PlanGate(sel, rws, pls))], rws, free)

\* Mutant: the block spares no lifecycle.
BlockAlways(spared) ==
    task' = [task EXCEPT !.lifecycle = "blocked", !.planBlock = FALSE]

\* block_foreign: a block the plan did not make takes the plan's mark with it.
BlockForeign(spared) ==
    task' = [task EXCEPT !.lifecycle = IF @ \in spared THEN @ ELSE "blocked",
                         !.planBlock = FALSE]

-----------------------------------------------------------------------------
(* Questions, steering and the task's own ends.                             *)

\* publish_question: the intent the caller froze is still the live one.
PublishQuestion ==
    /\ Len(questions) < MaxQuestions
    /\ task.lifecycle \in {"running", "waiting"}
    /\ Pending(questions) = {}
    /\ questions' = Append(questions, [state |-> "pending", intent |-> task.intent, under |-> 0])
    /\ task' = [task EXCEPT !.lifecycle = "waiting"]
    /\ UNCHANGED <<proof, plan>>

\* retain_answered_plan_fork: the row that waited keeps the answer's pin.
Retained(q) ==
    [c \in DOMAIN rows |-> IF rows[c].blocker = Decision(q)
                           THEN [rows[c] EXCEPT !.outcome = AnsweredFork(q)] ELSE rows[c]]

\* Mutant: the answer ends the wait and does not look at the plan.
AnswerUnsettled(q) ==
    /\ Open
    /\ questions[q].state = "pending" /\ questions[q].intent = task.intent
    /\ questions' = [questions EXCEPT ![q].state = "answered"]
    /\ rows' = Retained(q)
    /\ task' = [task EXCEPT !.lifecycle = "running"]
    /\ UNCHANGED <<proof, selection, plans>>

\* answer_question: a paused or blocked task runs again too, unless its plan
\* still holds it.
AnswerQuestion(q) ==
    /\ Open
    /\ questions[q].state = "pending" /\ questions[q].intent = task.intent
    /\ questions' = [questions EXCEPT ![q].state = "answered"]
    /\ rows' = Retained(q)
    /\ task' = SettledLifecycle([task EXCEPT !.lifecycle = "running"], rows',
                                NoOtherSource(questions', obligations))
    /\ UNCHANGED <<proof, selection, plans>>

\* Mutant: the question of the displaced intent stays pending.
SteerKeepsQuestion ==
    /\ Open /\ task.intent < MaxIntent
    /\ questions' = questions
    /\ task' = SettledLifecycle([task EXCEPT !.intent = @ + 1,
                    !.lifecycle = IF @ \in {"waiting", "paused"} THEN "running" ELSE @],
                    rows, NoOtherSource(questions', obligations))
    /\ UNCHANGED <<proof, plan>>

\* steer_task: a new intent kills the questions of the old one and ends the
\* wait and the off pause, never a block.
Steer ==
    /\ Open /\ task.intent < MaxIntent
    /\ questions' = Superseded(questions, { q \in Pending(questions) :
                                              questions[q].intent # task.intent + 1 })
    /\ task' = SettledLifecycle([task EXCEPT !.intent = @ + 1,
                    !.lifecycle = IF @ \in {"waiting", "paused"} THEN "running" ELSE @],
                    rows, NoOtherSource(questions', obligations))
    /\ UNCHANGED <<proof, plan>>

\* pause_for_workflow_off: a blocked task keeps its own hold.
PauseForWorkflowOff ==
    /\ task.lifecycle \in {"running", "waiting"}
    /\ task' = [task EXCEPT !.lifecycle = "paused"]
    /\ UNCHANGED <<questions, proof, plan>>

\* cancel_task: every pending question dies with the task.
Cancel ==
    /\ Open
    /\ task' = [task EXCEPT !.lifecycle = "cancelled"]
    /\ questions' = Superseded(questions, Pending(questions))
    /\ UNCHANGED <<proof, plan>>

-----------------------------------------------------------------------------
(* Attempts, obligations, evidence and completion.                          *)

\* admit: the executor plans an attempt, or rejects it on the spot.
PlanAttempt(a) ==
    /\ attempts[a] = "none"
    /\ \E s \in {"planned", "rejected"} : attempts' = [attempts EXCEPT ![a] = s]
    /\ UNCHANGED <<task, questions, obligations, evidence, plan>>

\* execute_gates: a cancelled task's attempt is rejected, as is one whose
\* grant or mode no longer admits it.
RunAttempt(a) ==
    /\ attempts[a] = "planned"
    /\ \/ /\ task.lifecycle # "cancelled"
          /\ attempts' = [attempts EXCEPT ![a] = "running"]
       \/ attempts' = [attempts EXCEPT ![a] = "rejected"]
    /\ UNCHANGED <<task, questions, obligations, evidence, plan>>

\* The worker's answer, or none that can be trusted.
SettleAttempt(a) ==
    /\ attempts[a] = "running"
    /\ \E s \in {"confirmed", "rejected", "unknown"} : attempts' = [attempts EXCEPT ![a] = s]
    /\ UNCHANGED <<task, questions, obligations, evidence, plan>>

\* reconcile_unknown's first write; evidence and completion follow it.
ReconcileAttempt(a) ==
    /\ attempts[a] = "unknown"
    /\ attempts' = [attempts EXCEPT ![a] = "confirmed"]
    /\ UNCHANGED <<task, questions, obligations, evidence, plan>>

\* materialize_obligations, behind the dispatch gate of an open task.  Each row
\* is a write of its own: a crash may leave some of them out.
MaterializeObligations ==
    /\ Open
    /\ \E made \in SUBSET (Criteria \ DOMAIN obligations) :
        /\ made # {}
        /\ obligations' = [c \in DOMAIN obligations \union made |->
                IF c \in DOMAIN obligations THEN obligations[c]
                ELSE [applicability |-> "required", execution |-> "pending"]]
    /\ UNCHANGED <<task, questions, evidence, attempts, plan>>

\* insert_evidence_for_task, on a confirmed effect: it satisfies every
\* obligation and decides the applicability of none.
InsertEvidence ==
    /\ \E a \in Attempts : attempts[a] = "confirmed"
    /\ DOMAIN obligations = Criteria
    /\ obligations' = [c \in Criteria |-> [obligations[c] EXCEPT !.execution = "satisfied"]]
    /\ evidence' = [c \in Criteria |-> IF evidence[c] = "none" THEN "current" ELSE evidence[c]]
    /\ UNCHANGED <<task, questions, attempts, plan>>

\* Mutant: a finished task is not woken by evidence that went stale.
InvalidateSparesFinished(c) ==
    /\ evidence[c] # "none"
    /\ evidence' = [evidence EXCEPT ![c] = "stale"]
    /\ obligations' = [obligations EXCEPT ![c] = [applicability |-> "unresolved",
                                                  execution |-> "stale"]]
    /\ BlockForeign(Terminal)
    /\ UNCHANGED <<questions, attempts, plan>>

\* invalidate_evidence: a completed task is open again, and blocked.
InvalidateEvidence(c) ==
    /\ evidence[c] # "none"
    /\ evidence' = [evidence EXCEPT ![c] = "stale"]
    /\ obligations' = [obligations EXCEPT ![c] = [applicability |-> "unresolved",
                                                  execution |-> "stale"]]
    /\ BlockForeign({"cancelled"})
    /\ UNCHANGED <<questions, attempts, plan>>

UnresolvedRows == [c \in DOMAIN rows |-> [rows[c] EXCEPT !.applicability = "unresolved"]]

\* mark_applicability_unresolved.
MarkApplicabilityUnresolved(c) ==
    /\ c \in DOMAIN obligations
    /\ obligations' = [obligations EXCEPT ![c].applicability = "unresolved"]
    /\ rows' = UnresolvedRows
    /\ BlockForeign({"cancelled"})
    /\ UNCHANGED <<questions, evidence, attempts, selection, plans>>

\* mark_outcome_unknown and mark_no_ready: the latter needs no cause.
MarkBlocked ==
    /\ BlockForeign(Terminal)
    /\ UNCHANGED <<questions, proof, plan>>

\* COMPLETION_COUNTS are all zero.
Proven ==
    /\ \A c \in DOMAIN obligations : obligations[c] = [applicability |-> "required",
                                                       execution |-> "satisfied"]
    /\ \A c \in DOMAIN rows : /\ rows[c].applicability # "unresolved"
                              /\ rows[c].execution = "satisfied"
    /\ Unknown(attempts) = {}

\* complete_if_eligible, whose callers have materialised the obligations.
Complete ==
    /\ Open /\ DOMAIN obligations = Criteria
    /\ Proven
    /\ \A c \in Criteria : evidence[c] # "stale"
    /\ task' = [task EXCEPT !.lifecycle = "completed"]
    /\ questions' = Superseded(questions, Pending(questions))
    /\ UNCHANGED <<proof, plan>>

\* complete_if_eligible refused: a running task waits, on no question.
CompleteRefused ==
    /\ task.lifecycle = "running" /\ DOMAIN obligations = Criteria
    /\ ~ Proven
    /\ task' = [task EXCEPT !.lifecycle = "waiting"]
    /\ UNCHANGED <<questions, proof, plan>>

-----------------------------------------------------------------------------
(* The plan: selections, rows, revisions and verdicts.                      *)

\* The plan tables after a write, and the task settled on them.
WritePlan(t, qs, sel, rws, pls) ==
    /\ questions' = qs /\ selection' = sel /\ rows' = rws /\ plans' = pls
    /\ task' = SettledPlan(t, sel.revision, rws, pls, NoOtherSource(qs, obligations))
    /\ UNCHANGED proof

WriteRows(rws) == WritePlan(task, questions, selection, rws, plans)

\* Rows the same facts decide again take their applicability back.
Recovered(r) ==
    [c \in DOMAIN rows |-> IF Need(r, c) = "required"
                           THEN [rows[c] EXCEPT !.applicability = "required"] ELSE rows[c]]

\* record_plan_selection on the recorded facts.
Reselect(r) ==
    /\ Open /\ selection.revision > 0
    /\ Facts(r) = selection.facts
    /\ Unresolved(obligations) = {}
    /\ Recovered(r) # rows
    /\ WriteRows(Recovered(r))

\* The pending questions the rows of the replaced selection wait on.
ForksOf == { q \in Pending(questions) : \E c \in DOMAIN rows : rows[c].blocker = Decision(q) }

\* Mutant: the fork of the replaced selection stays pending.
SelectKeepsForks(r) ==
    /\ Open /\ selection.revision < MaxSelections
    /\ Facts(r) # selection.facts
    /\ WritePlan(task, questions,
                 [revision |-> selection.revision + 1, facts |-> Facts(r)],
                 SelectedRows(r), plans)

\* record_plan_selection on changed facts: the forks of the replaced rows die
\* and end the wait; earlier plan revisions stay.
Select(r) ==
    /\ Open /\ selection.revision < MaxSelections
    /\ Facts(r) # selection.facts
    /\ WritePlan([task EXCEPT !.lifecycle =
                    IF ForksOf # {} /\ @ = "waiting" THEN "running" ELSE @],
                 Superseded(questions, ForksOf),
                 [revision |-> selection.revision + 1, facts |-> Facts(r)],
                 SelectedRows(r), plans)

\* hold_for_plan_gate: a refused effect leaves a hold, unless the gate opened.
HoldForPlanGate ==
    /\ Open
    /\ \E observed \in {"unassessed", "paused"} :
        LET gate == PlanGate(selection.revision, rows, plans)
        IN  WritePlan([task EXCEPT !.hold = IF gate = "open" THEN @ ELSE observed],
                      questions, selection, rows, plans)

\* mark_plan_applicability_unresolved.
MarkPlanUnresolved ==
    /\ Open /\ selection.revision > 0
    /\ WriteRows(UnresolvedRows)

\* A handler's own row, that the facts require.
Required(c) ==
    /\ Open
    /\ c \in DOMAIN rows
    /\ rows[c].applicability = "required"

OpenRows(h) == { c \in DOMAIN rows : /\ rows[c].handler = h
                                     /\ rows[c].applicability = "required"
                                     /\ rows[c].execution # "satisfied" }

\* A close clears the row's blocker.
CloseRow(row, execution, outcome) ==
    [row EXCEPT !.execution = execution, !.outcome = outcome, !.blocker = NoBlocker]
BlockRow(row, blocker) == [row EXCEPT !.blocker = blocker]

\* Stage.close and Stage.block, on the rows S of those a handler owes.
CloseRows(S, execution, outcome) ==
    [c \in DOMAIN rows |-> IF c \in S THEN CloseRow(rows[c], execution, outcome) ELSE rows[c]]
BlockRows(S, blocker) ==
    [c \in DOMAIN rows |-> IF c \in S THEN BlockRow(rows[c], blocker) ELSE rows[c]]

FrameGoal ==
    /\ Required("frame_goal") /\ rows["frame_goal"].execution # "satisfied"
    /\ WriteRows(CloseRows({"frame_goal"}, "satisfied", Closed))

\* The row's own fork is still pending: the stage spends no call.
WaitsOnFork(c) == \E q \in Pending(questions) : rows[c].blocker = Decision(q)

StageRuns(c) == Required(c) /\ rows[c].execution # "satisfied" /\ ~ WaitsOnFork(c)

\* semantic_stage: the call fails, the reply does not parse, or it closes the row.
StageReply(c) ==
    /\ StageRuns(c)
    /\ \/ WriteRows(BlockRows({c}, Capability))
       \/ WriteRows(BlockRows({c}, Dependency))
       \/ WriteRows(CloseRows({c}, "satisfied", Closed))

\* fork_stage: the reply asks.  A block the plan alone made is released for the
\* question; under any other block, or beside a pending question, the fork is
\* refused and the row waits on it as a dependency.
StageForks(c) ==
    LET t == IF task.lifecycle = "blocked"
             THEN Released(task, NoOtherSource(questions, obligations)) ELSE task
        q == Len(questions) + 1
    IN  /\ StageRuns(c) /\ Len(questions) < MaxQuestions
        /\ IF Pending(questions) = {} /\ t.lifecycle \in {"running", "waiting"}
           THEN WritePlan([t EXCEPT !.lifecycle = "waiting"],
                          Append(questions, [state |-> "pending", intent |-> task.intent,
                                             under |-> selection.revision]),
                          selection, [rows EXCEPT ![c] = BlockRow(@, Decision(q))], plans)
           ELSE WriteRows(BlockRows({c}, Dependency))

\* Mutant: the assessor's rows stay closed under the new revision.
PlanWorkKeepsVerdict ==
    LET p == Len(plans) + 1
    IN  /\ Required("plan_work") /\ Len(plans) < MaxPlans
        /\ WritePlan(task, questions, selection,
            [rows EXCEPT !["plan_work"] = CloseRow(@, "satisfied", Judged(p))],
            Append(plans, [selection |-> selection.revision, verdict |-> "none"]))

\* record_plan_revision: the handler's row closes on the new revision and every
\* required row its assessor closed opens again.
PlanWork ==
    LET p == Len(plans) + 1
    IN  /\ Required("plan_work") /\ Len(plans) < MaxPlans
        /\ WritePlan(task, questions, selection,
            [c \in DOMAIN rows |->
                CASE c = "plan_work" -> CloseRow(rows[c], "satisfied", Judged(p))
                  [] /\ rows[c].handler = "assess_plan"
                     /\ rows[c].applicability = "required"
                     -> CloseRow(rows[c], "pending", NoOutcome)
                  [] OTHER -> rows[c]],
            Append(plans, [selection |-> selection.revision, verdict |-> "none"]))

Latest == LatestRevision(plans, selection.revision)

\* The rows a mechanical verdict changes: satisfied ones too.
Assessed(verdict) ==
    [c \in DOMAIN rows |->
        IF rows[c].handler # "assess_plan" \/ rows[c].applicability # "required" THEN rows[c]
        ELSE IF verdict = "pass" THEN BlockRow(rows[c], Capability)
        ELSE BlockRow(CloseRow(rows[c], "failed", Judged(Latest)), Dependency)]

\* assess_plan, the mechanical leg: it judges the latest revision once.
AssessPlan ==
    /\ Required("assess_plan")
    /\ Latest # 0 /\ plans[Latest].verdict = "none"
    /\ \E verdict \in {"pass", "fail"} :
        WritePlan(task, questions, selection, Assessed(verdict),
                  [plans EXCEPT ![Latest].verdict = verdict])

\* Rows of a verdict written before a crash: all that are owed, or the first.
Written == {{"assess_plan"}, OpenRows("assess_plan")}

\* judge_plan, the semantic leg, on a revision the mechanical leg passed.  Each
\* row of the verdict is a transaction: a crash may leave the first alone
\* written, or a failure closed and not yet blocked.
JudgePlan ==
    /\ Required("assess_plan") /\ rows["assess_plan"].execution = "pending"
    /\ Latest # 0 /\ plans[Latest].verdict = "pass"
    /\ \E S \in Written :
        \/ WriteRows(BlockRows(S, Capability))
        \/ WriteRows(BlockRows(S, Dependency))
        \/ WriteRows(CloseRows(S, "satisfied", Judged(Latest)))
        \/ WriteRows(CloseRows(S, "failed", Judged(Latest)))
        \/ LET failed == CloseRows(OpenRows("assess_plan"), "failed", Judged(Latest))
           IN  WriteRows([c \in DOMAIN rows |-> IF c \in S THEN BlockRow(failed[c], Dependency)
                                                ELSE failed[c]])

-----------------------------------------------------------------------------
Next ==
    \/ PublishQuestion \/ Steer \/ PauseForWorkflowOff \/ Cancel
    \/ \E q \in DOMAIN questions : AnswerQuestion(q)
    \/ \E a \in Attempts : PlanAttempt(a) \/ RunAttempt(a) \/ SettleAttempt(a)
                           \/ ReconcileAttempt(a)
    \/ MaterializeObligations \/ InsertEvidence
    \/ \E c \in Criteria : InvalidateEvidence(c) \/ MarkApplicabilityUnresolved(c)
    \/ MarkBlocked \/ Complete \/ CompleteRefused
    \/ \E r \in Requests : Select(r) \/ Reselect(r)
    \/ HoldForPlanGate \/ MarkPlanUnresolved
    \/ FrameGoal \/ PlanWork \/ AssessPlan \/ JudgePlan
    \/ \E c \in Purpose : StageReply(c) \/ StageForks(c)

Spec == Init /\ [][Next]_vars

-----------------------------------------------------------------------------
\* Every table holds values of its columns.
Row == [applicability : {"required", "unresolved"},
        execution : {"pending", "satisfied", "failed"},
        handler : SELECTION_CAPABILITIES \union {"none"},
        blocker : {NoBlocker, Capability, Dependency}
                  \union { Decision(q) : q \in DOMAIN questions },
        outcome : {NoOutcome, Closed} \union { AnsweredFork(q) : q \in DOMAIN questions }
                  \union { Judged(p) : p \in DOMAIN plans }]
TypeOK ==
    /\ task \in [lifecycle : Lifecycle, intent : 1 .. MaxIntent,
                 hold : {"none", "unassessed", "paused"}, planBlock : BOOLEAN]
    /\ Len(questions) <= MaxQuestions
    /\ \A q \in DOMAIN questions :
        questions[q] \in [state : {"pending", "answered", "superseded"},
                         intent : 1 .. MaxIntent, under : 0 .. MaxSelections]
    /\ DOMAIN obligations \subseteq Criteria
    /\ \A c \in DOMAIN obligations :
        obligations[c] \in [applicability : {"required", "unresolved"},
                           execution : {"pending", "satisfied", "stale"}]
    /\ evidence \in [Criteria -> {"none", "current", "stale"}]
    /\ attempts \in [Attempts -> AttemptState]
    /\ selection.revision \in 0 .. MaxSelections
    /\ DOMAIN rows \subseteq SELECTION_CAPABILITIES
    /\ \A c \in DOMAIN rows : rows[c] \in Row
    /\ \A p \in DOMAIN plans :
        plans[p] \in [selection : 1 .. MaxSelections, verdict : {"none", "pass", "fail"}]

\* A task asks one question at a time, of its live intent, and a finished task
\* asks none: a steer, a cancellation or a completion that comes between the
\* question and its answer leaves nothing that can still be answered.
OneLiveQuestion ==
    /\ Cardinality(Pending(questions)) <= 1
    /\ \A q \in Pending(questions) : Open /\ questions[q].intent = task.intent

\* A task never runs while a row of its plan or a gate hold holds it, whichever
\* of an answer, a steer, a re-selection or a release let it run.
RunningIsUnheld == task.lifecycle = "running" => ~ Held(task, rows)

\* Every write of the plan settles the task: one the plan blocked is running
\* again as soon as a write leaves nothing that holds it.
PlanWritesSettle ==
    [][ plan' # plan => ~ /\ task'.lifecycle = "blocked" /\ task'.planBlock
                          /\ ~ Held(task', rows')
                          /\ NoOtherSource(questions, obligations)' ]_vars

\* A block the plan did not make is never erased by a plan write or a steer:
\* it ends by an answer, a completion or a cancellation.
ForeignBlockStays ==
    [][ /\ task.lifecycle = "blocked" /\ ~ task.planBlock
        /\ task'.lifecycle # "blocked"
        => \/ task'.lifecycle \in Terminal
           \/ \E q \in Pending(questions) : questions'[q].state = "answered" ]_vars

\* A pending fork belongs to the current selection, and a row of it waits on
\* exactly that question: its answer can not be consumed by other facts.
ForkBelongsToSelection ==
    \A q \in Pending(questions) : questions[q].under # 0 =>
        /\ questions[q].under = selection.revision
        /\ \E c \in DOMAIN rows : rows[c].blocker = Decision(q)

\* A completed task is proven as long as it stays completed: stale evidence or
\* an unknown applicability takes the completion with it.
CompletedIsProven ==
    task.lifecycle = "completed" =>
        /\ DOMAIN obligations = Criteria
        /\ \A c \in Criteria : /\ obligations[c].execution = "satisfied"
                                /\ obligations[c].applicability = "required"
                                /\ evidence[c] # "stale"
        /\ \A c \in DOMAIN rows : rows[c].execution = "satisfied"

\* A cancelled task stays cancelled; a completed one opens again only blocked.
EndsAreFinal ==
    [][ /\ task.lifecycle = "cancelled" => task'.lifecycle = "cancelled"
        /\ task.lifecycle = "completed" => task'.lifecycle \in {"completed", "blocked"} ]_vars

\* An open gate with a plan stands on a judgement of the latest revision: the
\* verdict on a replaced plan, or of a replaced selection, covers nothing.
GateIsJudged ==
    /\ PlanGate(selection.revision, rows, plans) = "open"
    /\ {"plan_work", "assess_plan"} \subseteq DOMAIN rows
    => /\ rows["assess_plan"].outcome = Judged(Len(plans))
       /\ plans[Len(plans)] = [selection |-> selection.revision, verdict |-> "pass"]

\* The blockers a snapshot names, as far as whether it names any.
NamesBlocker ==
    \/ task.lifecycle \in {"blocked", "paused"}
    \/ Pending(questions) # {}
    \/ task.hold # "none"
    \/ \E c \in DOMAIN rows : \/ rows[c].applicability = "unresolved"
                              \/ rows[c].blocker \in {Capability, Dependency}

\* A snapshot that says "waiting" names what it waits on (the comment of
\* steer_task on why a dead question ends the wait).
WaitingNamesBlocker == task.lifecycle = "waiting" => NamesBlocker

\* Only a new intent releases the pause of the workflow being off (the comment
\* of pause_for_workflow_off), unless the task ends or is blocked.
OnlyIntentReleasesPause ==
    [][ task.lifecycle = "paused" /\ task'.lifecycle \in {"running", "waiting"}
        => task'.intent > task.intent ]_vars

\* The plan as a whole: no held task runs, no fork outlives its selection, and no gate is
\* open on a plan nobody judged.
PlanHoldsTask == TypeOK /\ RunningIsUnheld /\ ForkBelongsToSelection /\ GateIsJudged

\* Writes of the plan release what the plan held and nothing else.
PlanReleasesItsOwn == PlanWritesSettle /\ ForeignBlockStays

\* The end of a task as a whole: it is proven, final, and leaves no question open.
EndsAreProven == [](OneLiveQuestion /\ CompletedIsProven) /\ EndsAreFinal
=============================================================================
