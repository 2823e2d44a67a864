--------------------------- MODULE TaskStoreProofs --------------------------
(***************************************************************************)
(* Proofs about TaskStore, for every set of criteria, attempts and         *)
(* requests and every bound.  Each transaction ends in one of three ways:  *)
(* it settles the task on the plan it wrote, it blocks the task, or it     *)
(* writes the lifecycle itself; one lemma for each carries the invariant.  *)
(***************************************************************************)
EXTENDS TaskStore, FiniteSetTheorems, TLAPS

HoldKind == {"none", "unassessed", "paused"}
Task == [lifecycle : Lifecycle, intent : 1 .. MaxIntent, hold : HoldKind, planBlock : BOOLEAN]
Question == [state : {"pending", "answered", "superseded"}, intent : 1 .. MaxIntent,
             under : 0 .. MaxSelections]

\* At most one question is pending, of the live intent of an open task.
Asked(qs, t) ==
    /\ \A q \in Pending(qs) : t.lifecycle \notin Terminal /\ qs[q].intent = t.intent
    /\ \A p, q \in Pending(qs) : p = q

\* The inductive invariant.
StoreInv ==
    /\ task \in Task
    /\ questions \in Seq(Question)
    /\ selection.revision \in 0 .. MaxSelections
    /\ RunningIsUnheld
    /\ Asked(questions, task)

-----------------------------------------------------------------------------
(* What the operators on a task and on its questions return.                *)

\* The gate is one of three.
LEMMA GateKinds ==
  ASSUME NEW sel, NEW rws, NEW pls
  PROVE  PlanGate(sel, rws, pls) \in {"unassessed", "open", "paused"}
  BY DEF PlanGate

\* The test of the other sources is a truth value.
LEMMA FreeBoolean ==
  ASSUME NEW qs, NEW obs
  PROVE  NoOtherSource(qs, obs) \in BOOLEAN
  BY DEF NoOtherSource

\* settle_plan_lifecycle keeps the hold, the intent and an end, never leaves a
\* held task running, never releases a block the plan did not make, and always
\* releases one it did where nothing else holds the task.
LEMMA SettleLifecycleLemma ==
  ASSUME NEW t \in Task, NEW rws, NEW free \in BOOLEAN,
         NEW u, u = SettledLifecycle(t, rws, free)
  PROVE  /\ u \in Task
         /\ u.hold = t.hold /\ u.intent = t.intent
         /\ u.lifecycle = "running" => ~ Held(u, rws)
         /\ t.lifecycle \in Terminal => u.lifecycle = t.lifecycle
         /\ u.lifecycle \in Terminal => u.lifecycle = t.lifecycle
         /\ t.lifecycle = "blocked" /\ ~ t.planBlock => u = t
         /\ u.lifecycle = "blocked" /\ u.planBlock /\ ~ Held(u, rws) => ~ free
<1>1. CASE t.lifecycle = "running" /\ Held(t, rws)
  <2>1. u = [t EXCEPT !.lifecycle = "blocked", !.planBlock = TRUE]
    BY <1>1 DEF SettledLifecycle
  <2>2. u \in Task /\ u.hold = t.hold /\ u.intent = t.intent /\ u.lifecycle = "blocked"
    BY <2>1 DEF Task, Lifecycle
  <2>3. Held(u, rws)
    BY <1>1, <2>2 DEF Held
  <2>4. QED BY <1>1, <2>2, <2>3 DEF Terminal
<1>2. CASE t.lifecycle = "blocked" /\ ~ Held(t, rws)
  <2>1. u = Released(t, free)
    BY <1>2 DEF SettledLifecycle
  <2>2. CASE t.planBlock /\ free
    <3>1. u = [t EXCEPT !.lifecycle = "running", !.planBlock = FALSE]
      BY <2>1, <2>2 DEF Released
    <3>2. u \in Task /\ u.hold = t.hold /\ u.intent = t.intent /\ u.lifecycle = "running"
      BY <3>1 DEF Task, Lifecycle
    <3>3. ~ Held(u, rws)
      BY <1>2, <3>2 DEF Held
    <3>4. QED BY <1>2, <2>2, <3>2, <3>3 DEF Terminal
  <2>3. CASE ~ (t.planBlock /\ free)
    <3>1. u = t
      BY <2>1, <2>3 DEF Released
    <3>2. QED BY <1>2, <2>3, <3>1 DEF Terminal
  <2>4. QED BY <2>2, <2>3
<1>3. CASE /\ ~ (t.lifecycle = "running" /\ Held(t, rws))
           /\ ~ (t.lifecycle = "blocked" /\ ~ Held(t, rws))
  <2>1. u = t
    BY <1>3 DEF SettledLifecycle
  <2>2. QED BY <1>3, <2>1
<1>4. QED BY <1>1, <1>2, <1>3

\* settle_plan_state, the same with the hold renamed or dropped.
LEMMA SettlePlanLemma ==
  ASSUME NEW t \in Task, NEW sel, NEW rws, NEW pls, NEW free \in BOOLEAN,
         NEW u, u = SettledPlan(t, sel, rws, pls, free)
  PROVE  /\ u \in Task
         /\ u.intent = t.intent
         /\ u.lifecycle = "running" => ~ Held(u, rws)
         /\ t.lifecycle \in Terminal => u.lifecycle = t.lifecycle
         /\ u.lifecycle \in Terminal => u.lifecycle = t.lifecycle
         /\ t.lifecycle = "blocked" /\ ~ t.planBlock =>
                u.lifecycle = "blocked" /\ ~ u.planBlock
         /\ u.lifecycle = "blocked" /\ u.planBlock /\ ~ Held(u, rws) => ~ free
<1> DEFINE gate == PlanGate(sel, rws, pls)
           v == [t EXCEPT !.hold = HoldOf(t, gate)]
<1>1. gate \in {"unassessed", "open", "paused"}
  BY GateKinds
<1>2. HoldOf(t, gate) \in HoldKind
  BY <1>1 DEF HoldOf, HoldKind, Task
<1>3. /\ v \in Task /\ v.intent = t.intent /\ v.lifecycle = t.lifecycle
      /\ v.planBlock = t.planBlock
  BY <1>2 DEF Task
<1>4. u = SettledLifecycle(v, rws, free)
  BY DEF SettledPlan
<1> HIDE DEF v
<1>5. QED BY <1>3, <1>4, SettleLifecycleLemma

\* Superseding leaves the others as they were.
LEMMA SupersededLemma ==
  ASSUME NEW qs \in Seq(Question), NEW S, NEW r, r = Superseded(qs, S)
  PROVE  /\ r \in Seq(Question)
         /\ DOMAIN r = DOMAIN qs
         /\ Pending(r) = Pending(qs) \ S
         /\ \A q \in DOMAIN qs : r[q].intent = qs[q].intent
<1> DEFINE n == Len(qs)
<1>1. n \in Nat /\ DOMAIN qs = 1 .. n /\ \A q \in 1 .. n : qs[q] \in Question
  OBVIOUS
<1>2. ASSUME NEW q \in 1 .. n
      PROVE  /\ r[q] \in Question /\ r[q].intent = qs[q].intent
             /\ q \in S => r[q].state = "superseded"
             /\ q \notin S => r[q] = qs[q]
  BY <1>1 DEF Superseded, Question
<1>3. r \in [1 .. n -> Question]
  BY <1>1, <1>2 DEF Superseded
<1>4. r \in Seq(Question)
  BY <1>1, <1>3
<1>5. Pending(r) = Pending(qs) \ S
  BY <1>1, <1>2, <1>3 DEF Pending
<1>6. QED BY <1>1, <1>2, <1>3, <1>4, <1>5

\* A question asked where none is pending is the only one.
LEMMA AppendLemma ==
  ASSUME NEW qs \in Seq(Question), Pending(qs) = {},
         NEW x \in Question, NEW r, r = Append(qs, x)
  PROVE  /\ r \in Seq(Question)
         /\ Pending(r) \subseteq {Len(qs) + 1}
         /\ r[Len(qs) + 1] = x
  BY DEF Pending

-----------------------------------------------------------------------------
(* How a transaction ends.                                                  *)

\* The action properties, as predicates of one step.
ForeignStep ==
    /\ task.lifecycle = "blocked" /\ ~ task.planBlock
    /\ task'.lifecycle # "blocked"
    => \/ task'.lifecycle \in Terminal
       \/ \E q \in Pending(questions) : questions'[q].state = "answered"
EndStep ==
    /\ task.lifecycle = "cancelled" => task'.lifecycle = "cancelled"
    /\ task.lifecycle = "completed" => task'.lifecycle \in {"completed", "blocked"}
    /\ task'.lifecycle = "completed" /\ task.lifecycle # "completed" => Complete
SettleStep ==
    plan' # plan => ~ /\ task'.lifecycle = "blocked" /\ task'.planBlock
                      /\ ~ Held(task', rows')
                      /\ NoOtherSource(questions, obligations)'
Good == StoreInv' /\ ForeignStep /\ EndStep /\ SettleStep

\* Nothing the invariant speaks of is written.
LEMMA IdleLemma ==
  ASSUME StoreInv, UNCHANGED <<task, questions, plan>>
  PROVE  Good
  BY DEF Good, StoreInv, ForeignStep, EndStep, SettleStep, plan, RunningIsUnheld, Held, Asked, Pending

\* A write of the plan, on a task that is open.
LEMMA WriteLemma ==
  ASSUME StoreInv, NEW t \in Task, NEW qs \in Seq(Question), NEW sel, NEW rws, NEW pls,
         Open, t.lifecycle \notin Terminal, t.intent = task.intent,
         task.lifecycle = "blocked" /\ ~ task.planBlock =>
            t.lifecycle = "blocked" /\ ~ t.planBlock,
         \A q \in Pending(qs) : qs[q].intent = task.intent,
         \A p, q \in Pending(qs) : p = q,
         sel.revision \in 0 .. MaxSelections,
         WritePlan(t, qs, sel, rws, pls)
  PROVE  Good
<1> DEFINE free == NoOtherSource(qs, obligations)
<1>1. /\ questions' = qs /\ selection' = sel /\ rows' = rws
      /\ task' = SettledPlan(t, sel.revision, rws, pls, free)
  BY DEF WritePlan
<1>2. free \in BOOLEAN
  BY FreeBoolean
<1> HIDE DEF free
<1>3. /\ task' \in Task /\ task'.intent = task.intent
      /\ task'.lifecycle = "running" => ~ Held(task', rws)
      /\ task'.lifecycle \notin Terminal
      /\ t.lifecycle = "blocked" /\ ~ t.planBlock => task'.lifecycle = "blocked"
      /\ task'.lifecycle = "blocked" /\ task'.planBlock /\ ~ Held(task', rws) => ~ free
  BY <1>1, <1>2, SettlePlanLemma
<1>4. RunningIsUnheld'
  BY <1>1, <1>3 DEF RunningIsUnheld, Held
<1>5. Asked(questions, task)'
  BY <1>1, <1>3 DEF Asked, Pending
<1>6. StoreInv'
  BY <1>1, <1>3, <1>4, <1>5 DEF StoreInv
<1>7. ForeignStep /\ EndStep
  BY <1>3 DEF ForeignStep, EndStep, Open, Terminal
<1>8. free = NoOtherSource(questions, obligations)'
  BY <1>1 DEF free, WritePlan, proof, NoOtherSource, Pending, Unresolved, Unknown
<1>9. SettleStep
  BY <1>1, <1>3, <1>8 DEF SettleStep
<1>10. QED BY <1>6, <1>7, <1>9 DEF Good

\* A write of rows alone.
LEMMA WriteRowsLemma ==
  ASSUME StoreInv, Open, NEW rws, WriteRows(rws)
  PROVE  Good
<1>1. /\ task \in Task /\ questions \in Seq(Question) /\ selection.revision \in 0 .. MaxSelections
      /\ \A q \in Pending(questions) : questions[q].intent = task.intent
      /\ \A p, q \in Pending(questions) : p = q
  BY DEF StoreInv, Asked
<1>2. WritePlan(task, questions, selection, rws, plans)
  BY DEF WriteRows
<1>3. QED BY <1>1, <1>2, WriteLemma DEF Open

\* A block by another source.
LEMMA BlockLemma ==
  ASSUME StoreInv, NEW spared, "cancelled" \in spared, spared \subseteq Terminal,
         BlockForeign(spared), UNCHANGED <<questions, selection>>
  PROVE  Good
<1>1. task \in Task
  BY DEF StoreInv
<1>2. /\ task' \in Task /\ task'.intent = task.intent
      /\ task'.lifecycle = IF task.lifecycle \in spared THEN task.lifecycle ELSE "blocked"
  BY <1>1 DEF BlockForeign, Task, Lifecycle
<1>3. task'.lifecycle # "running" /\ RunningIsUnheld'
  BY <1>2 DEF RunningIsUnheld, Terminal
<1>4. task.lifecycle \notin Terminal => task'.lifecycle \notin Terminal
  BY <1>2 DEF Terminal
<1>5. Asked(questions, task)'
  BY <1>2, <1>4 DEF StoreInv, Asked, Pending
<1>6. StoreInv'
  BY <1>2, <1>3, <1>5 DEF StoreInv
<1>7. ForeignStep /\ EndStep
  BY <1>2 DEF ForeignStep, EndStep, Terminal
<1>8. SettleStep
  BY <1>1 DEF SettleStep, BlockForeign, Task
<1>9. QED BY <1>6, <1>7, <1>8 DEF Good

-----------------------------------------------------------------------------
(* Questions, steering and the ends.                                        *)

\* publish_question: the question asked is of the live intent.
LEMMA PublishQuestionKeeps ==
  ASSUME StoreInv, PublishQuestion
  PROVE  Good
<1> DEFINE x == [state |-> "pending", intent |-> task.intent, under |-> 0]
<1>1. task \in Task /\ questions \in Seq(Question) /\ Pending(questions) = {}
  BY DEF StoreInv, PublishQuestion
<1>2. x \in Question
  BY <1>1, StoreAssumption DEF Task, Question
<1>3. questions' = Append(questions, x) /\ x.intent = task.intent
  BY DEF PublishQuestion
<1> HIDE DEF x
<1>4. /\ questions' \in Seq(Question)
      /\ Pending(questions') \subseteq {Len(questions) + 1}
      /\ questions'[Len(questions) + 1] = x
  BY <1>1, <1>2, <1>3, AppendLemma
<1>5. task' \in Task /\ task'.lifecycle = "waiting" /\ task'.intent = task.intent
  BY <1>1 DEF PublishQuestion, Task, Lifecycle
<1>6. Asked(questions, task)'
  BY <1>3, <1>4, <1>5 DEF Asked, Pending, Terminal
<1>7. StoreInv'
  BY <1>4, <1>5, <1>6 DEF StoreInv, PublishQuestion, plan, RunningIsUnheld
<1>8. ForeignStep /\ EndStep
  BY <1>5 DEF ForeignStep, EndStep, PublishQuestion
<1>9. SettleStep
  BY DEF SettleStep, PublishQuestion
<1>10. QED BY <1>7, <1>8, <1>9 DEF Good

\* answer_question: the plan settles the task the answer let run.
LEMMA AnswerQuestionKeeps ==
  ASSUME StoreInv, NEW q \in DOMAIN questions, AnswerQuestion(q)
  PROVE  Good
<1> DEFINE n == Len(questions)
           free == NoOtherSource(questions', obligations)
           t == [task EXCEPT !.lifecycle = "running"]
<1>1. /\ task \in Task /\ n \in Nat /\ DOMAIN questions = 1 .. n
      /\ \A p \in 1 .. n : questions[p] \in Question
  BY DEF StoreInv
<1>2. questions' = [questions EXCEPT ![q].state = "answered"]
  BY DEF AnswerQuestion
<1>3. ASSUME NEW p \in 1 .. n
      PROVE  /\ questions'[p] \in Question
             /\ p = q => questions'[p].state = "answered"
             /\ p # q => questions'[p] = questions[p]
  BY <1>1, <1>2 DEF Question
<1>4. questions' \in [1 .. n -> Question]
  BY <1>1, <1>2, <1>3
<1>5. questions' \in Seq(Question)
  BY <1>1, <1>4
<1>6. Pending(questions') = Pending(questions) \ {q} /\ q \in Pending(questions)
  BY <1>1, <1>3, <1>4 DEF Pending, AnswerQuestion
<1>7. t \in Task /\ t.lifecycle = "running" /\ t.intent = task.intent
  BY <1>1 DEF Task, Lifecycle
<1>8. task' = SettledLifecycle(t, rows', free)
  BY DEF AnswerQuestion
<1>9. free \in BOOLEAN
  BY FreeBoolean
<1> HIDE DEF free, t, n
<1>10. /\ task' \in Task /\ task'.intent = task.intent
       /\ task'.lifecycle = "running" => ~ Held(task', rows')
       /\ task'.lifecycle \notin Terminal
       /\ task'.lifecycle = "blocked" /\ task'.planBlock /\ ~ Held(task', rows') => ~ free
  <2>1. t.lifecycle \notin Terminal
    BY <1>7 DEF Terminal
  <2>2. QED BY <1>7, <1>8, <1>9, <2>1, SettleLifecycleLemma
<1>11. Asked(questions, task)'
  <2>1. \A p \in Pending(questions') : p \in Pending(questions) /\ p # q
    BY <1>6
  <2>2. Pending(questions') = {}
    BY <1>6, <2>1 DEF StoreInv, Asked
  <2>3. QED BY <2>2 DEF Asked, Pending
<1>12. StoreInv'
  BY <1>5, <1>10, <1>11 DEF StoreInv, RunningIsUnheld, Held, AnswerQuestion
<1>13. ForeignStep /\ EndStep
  <2>1. q \in 1 .. n /\ questions'[q].state = "answered"
    BY <1>1, <1>3
  <2>2. QED BY <1>6, <1>10, <2>1 DEF ForeignStep, EndStep, AnswerQuestion, Open, Terminal
<1>14. SettleStep
  <2>1. free = NoOtherSource(questions, obligations)'
    BY DEF free, AnswerQuestion, proof, NoOtherSource, Pending, Unresolved, Unknown
  <2>2. QED BY <1>10, <2>1 DEF SettleStep
<1>15. QED BY <1>12, <1>13, <1>14 DEF Good

\* steer_task: the questions of the displaced intent die with it.
LEMMA SteerKeeps ==
  ASSUME StoreInv, Steer
  PROVE  Good
<1> DEFINE S == { q \in Pending(questions) : questions[q].intent # task.intent + 1 }
           free == NoOtherSource(questions', obligations)
           t == [task EXCEPT !.intent = @ + 1,
                    !.lifecycle = IF @ \in {"waiting", "paused"} THEN "running" ELSE @]
<1>1. task \in Task /\ questions \in Seq(Question)
  BY DEF StoreInv
<1>2. questions' = Superseded(questions, S) /\ task' = SettledLifecycle(t, rows, free)
  BY DEF Steer
<1>3. S = Pending(questions)
  <2>1. task.intent \in 1 .. MaxIntent
    BY <1>1 DEF Task
  <2>2. \A q \in Pending(questions) : questions[q].intent # task.intent + 1
    BY <2>1 DEF StoreInv, Asked
  <2>3. QED BY <2>2
<1> HIDE DEF S
<1>4. questions' \in Seq(Question) /\ Pending(questions') = {}
  BY <1>1, <1>2, <1>3, SupersededLemma
<1>5. /\ t \in Task /\ t.planBlock = task.planBlock
      /\ t.lifecycle = IF task.lifecycle \in {"waiting", "paused"} THEN "running"
                       ELSE task.lifecycle
  <2>1. task.intent + 1 \in 1 .. MaxIntent
    BY <1>1, StoreAssumption DEF Task, Steer
  <2>2. CASE task.lifecycle \in {"waiting", "paused"}
    <3>1. t = [task EXCEPT !.intent = task.intent + 1, !.lifecycle = "running"]
      BY <2>2
    <3>2. QED BY <1>1, <2>1, <2>2, <3>1 DEF Task, Lifecycle
  <2>3. CASE task.lifecycle \notin {"waiting", "paused"}
    <3>1. t = [task EXCEPT !.intent = task.intent + 1]
      BY <1>1, <2>3 DEF Task
    <3>2. QED BY <1>1, <2>1, <2>3, <3>1 DEF Task, Lifecycle
  <2>4. QED BY <2>2, <2>3
<1>6. free \in BOOLEAN
  BY FreeBoolean
<1> HIDE DEF free, t
<1>7. /\ task' \in Task
      /\ task'.lifecycle = "running" => ~ Held(task', rows)
      /\ t.lifecycle = "blocked" /\ ~ t.planBlock => task' = t
      /\ task'.lifecycle \in Terminal => task'.lifecycle = t.lifecycle
  BY <1>2, <1>5, <1>6, SettleLifecycleLemma
<1>8. Asked(questions, task)'
  BY <1>4 DEF Asked, Pending
<1>9. UNCHANGED <<rows, selection>>
  BY DEF Steer, plan
<1>10. StoreInv'
  BY <1>4, <1>7, <1>8, <1>9 DEF StoreInv, RunningIsUnheld, Held
<1>11. ForeignStep /\ EndStep
  BY <1>5, <1>7 DEF ForeignStep, EndStep, Steer, Open, Terminal
<1>12. SettleStep
  BY DEF SettleStep, Steer
<1>13. QED BY <1>10, <1>11, <1>12 DEF Good

\* pause_for_workflow_off.
LEMMA PauseKeeps ==
  ASSUME StoreInv, PauseForWorkflowOff
  PROVE  Good
<1>1. task \in Task
  BY DEF StoreInv
<1>2. task' \in Task /\ task'.lifecycle = "paused" /\ task'.intent = task.intent
  BY <1>1 DEF PauseForWorkflowOff, Task, Lifecycle
<1>3. Asked(questions, task)'
  BY <1>2 DEF StoreInv, PauseForWorkflowOff, Asked, Pending, Terminal
<1>4. StoreInv'
  BY <1>2, <1>3 DEF StoreInv, PauseForWorkflowOff, plan, RunningIsUnheld
<1>5. QED BY <1>2, <1>4 DEF Good, ForeignStep, EndStep, SettleStep, PauseForWorkflowOff

\* cancel_task and complete_if_eligible: the questions die with the task.
LEMMA EndKeeps ==
  ASSUME StoreInv, Open, NEW end \in Terminal,
         task' = [task EXCEPT !.lifecycle = end],
         questions' = Superseded(questions, Pending(questions)),
         UNCHANGED plan, end = "completed" => Complete
  PROVE  Good
<1>1. task \in Task /\ questions \in Seq(Question)
  BY DEF StoreInv
<1>2. questions' \in Seq(Question) /\ Pending(questions') = {}
  BY <1>1, SupersededLemma
<1>3. task' \in Task /\ task'.lifecycle = end
  BY <1>1 DEF Task, Lifecycle
<1>4. Asked(questions, task)'
  BY <1>2 DEF Asked, Pending
<1>5. StoreInv'
  BY <1>2, <1>3, <1>4 DEF StoreInv, plan, RunningIsUnheld, Terminal
<1>6. QED BY <1>3, <1>5 DEF Good, ForeignStep, EndStep, SettleStep, Open, Terminal

\* complete_if_eligible, refused.
LEMMA CompleteRefusedKeeps ==
  ASSUME StoreInv, CompleteRefused
  PROVE  Good
<1>1. task \in Task
  BY DEF StoreInv
<1>2. task' \in Task /\ task'.lifecycle = "waiting" /\ task'.intent = task.intent
  BY <1>1 DEF CompleteRefused, Task, Lifecycle
<1>3. Asked(questions, task)'
  BY <1>2 DEF StoreInv, CompleteRefused, Asked, Pending, Terminal
<1>4. StoreInv'
  BY <1>2, <1>3 DEF StoreInv, CompleteRefused, plan, RunningIsUnheld
<1>5. QED BY <1>2, <1>4 DEF Good, ForeignStep, EndStep, SettleStep, CompleteRefused

-----------------------------------------------------------------------------
(* The plan.                                                                *)

\* record_plan_selection on changed facts.
LEMMA SelectKeeps ==
  ASSUME StoreInv, NEW r, Select(r)
  PROVE  Good
<1> DEFINE t == [task EXCEPT !.lifecycle =
                    IF ForksOf # {} /\ @ = "waiting" THEN "running" ELSE @]
           qs == Superseded(questions, ForksOf)
           sel == [revision |-> selection.revision + 1, facts |-> Facts(r)]
<1>1. /\ task \in Task /\ questions \in Seq(Question) /\ selection.revision \in 0 .. MaxSelections
      /\ Open
  BY DEF StoreInv, Select
<1>2. WritePlan(t, qs, sel, SelectedRows(r), plans)
  BY DEF Select
<1>3. sel.revision \in 0 .. MaxSelections
  BY <1>1, StoreAssumption DEF Select
<1>4. /\ qs \in Seq(Question) /\ Pending(qs) \subseteq Pending(questions)
      /\ \A q \in DOMAIN questions : qs[q].intent = questions[q].intent
  BY <1>1, SupersededLemma
<1>5. /\ \A q \in Pending(qs) : qs[q].intent = task.intent
      /\ \A p, q \in Pending(qs) : p = q
  <2>1. \A q \in Pending(questions) : q \in DOMAIN questions
    BY DEF Pending
  <2>2. QED BY <1>4, <2>1 DEF StoreInv, Asked
<1>6. /\ t \in Task /\ t.intent = task.intent /\ t.planBlock = task.planBlock
      /\ t.lifecycle \notin Terminal
      /\ task.lifecycle = "blocked" => t.lifecycle = "blocked"
  BY <1>1 DEF Task, Lifecycle, Open, Terminal
<1> HIDE DEF t, qs, sel
<1>7. QED BY <1>1, <1>2, <1>3, <1>4, <1>5, <1>6, WriteLemma

\* hold_for_plan_gate: the hold is settled with the lifecycle.
LEMMA HoldForPlanGateKeeps ==
  ASSUME StoreInv, HoldForPlanGate
  PROVE  Good
<1>1. /\ task \in Task /\ questions \in Seq(Question) /\ selection.revision \in 0 .. MaxSelections
      /\ Open
      /\ \A q \in Pending(questions) : questions[q].intent = task.intent
      /\ \A p, q \in Pending(questions) : p = q
  BY DEF StoreInv, HoldForPlanGate, Asked
<1>2. PICK hold \in HoldKind :
        WritePlan([task EXCEPT !.hold = hold], questions, selection, rows, plans)
  BY <1>1 DEF HoldForPlanGate, HoldKind, Task
<1> DEFINE t == [task EXCEPT !.hold = hold]
<1>3. /\ t \in Task /\ t.intent = task.intent /\ t.planBlock = task.planBlock
      /\ t.lifecycle = task.lifecycle
  BY <1>1, <1>2 DEF Task
<1>4. t.lifecycle \notin Terminal
  BY <1>1, <1>3 DEF Open
<1>5. WritePlan(t, questions, selection, rows, plans)
  BY <1>2
<1> HIDE DEF t
<1>6. QED BY <1>1, <1>3, <1>4, <1>5, WriteLemma

\* fork_stage: the task waits on its question, or is left as it was.
LEMMA StageForksKeeps ==
  ASSUME StoreInv, NEW c, StageForks(c)
  PROVE  Good
<1> DEFINE t == IF task.lifecycle = "blocked"
                THEN Released(task, NoOtherSource(questions, obligations)) ELSE task
           u == [t EXCEPT !.lifecycle = "waiting"]
           x == [state |-> "pending", intent |-> task.intent, under |-> selection.revision]
           qs == Append(questions, x)
           rws == [rows EXCEPT ![c] = BlockRow(@, Decision(Len(questions) + 1))]
<1>1. /\ task \in Task /\ questions \in Seq(Question) /\ selection.revision \in 0 .. MaxSelections
      /\ Open
  BY DEF StoreInv, StageForks, StageRuns, Required
<1>2. CASE Pending(questions) = {} /\ t.lifecycle \in {"running", "waiting"}
  <2>1. WritePlan(u, qs, selection, rws, plans)
    BY <1>2 DEF StageForks
  <2>2. /\ t \in Task /\ t.intent = task.intent
        /\ task.lifecycle = "blocked" /\ ~ task.planBlock => t = task
    BY <1>1 DEF Released, Task, Lifecycle
  <2>3. ~ (task.lifecycle = "blocked" /\ ~ task.planBlock)
    BY <1>2, <2>2
  <2> HIDE DEF t
  <2>4. u \in Task /\ u.intent = task.intent /\ u.lifecycle = "waiting"
    BY <2>2 DEF Task, Lifecycle
  <2>5. x \in Question /\ x.intent = task.intent
    BY <1>1 DEF Question, Task
  <2> HIDE DEF u, x
  <2>6. /\ qs \in Seq(Question)
        /\ \A q \in Pending(qs) : qs[q].intent = task.intent
        /\ \A p, q \in Pending(qs) : p = q
    <3>1. /\ qs \in Seq(Question) /\ Pending(qs) \subseteq {Len(questions) + 1}
          /\ qs[Len(questions) + 1] = x
      BY <1>1, <1>2, <2>5, AppendLemma
    <3> HIDE DEF qs
    <3>2. QED BY <2>5, <3>1
  <2> HIDE DEF qs, rws
  <2>7. u.lifecycle \notin Terminal
    BY <2>4 DEF Terminal
  <2>8. QED BY <1>1, <2>1, <2>3, <2>4, <2>6, <2>7, WriteLemma
<1>3. CASE ~ (Pending(questions) = {} /\ t.lifecycle \in {"running", "waiting"})
  <2>1. WriteRows(BlockRows({c}, Dependency))
    BY <1>3 DEF StageForks
  <2>2. QED BY <1>1, <2>1, WriteRowsLemma
<1>4. QED BY <1>2, <1>3

\* plan_work and assess_plan write rows and revisions and nothing else.
LEMMA RevisionKeeps ==
  ASSUME StoreInv, Open, NEW rws, NEW pls,
         WritePlan(task, questions, selection, rws, pls)
  PROVE  Good
<1>1. /\ task \in Task /\ questions \in Seq(Question) /\ selection.revision \in 0 .. MaxSelections
      /\ \A q \in Pending(questions) : questions[q].intent = task.intent
      /\ \A p, q \in Pending(questions) : p = q
  BY DEF StoreInv, Asked
<1>2. QED BY <1>1, WriteLemma DEF Open

-----------------------------------------------------------------------------
(* The theorems.                                                            *)

\* A created task satisfies the invariant.
LEMMA StoreInit == Init => StoreInv
<1> SUFFICES ASSUME Init PROVE StoreInv
  OBVIOUS
<1>1. task \in Task /\ questions = << >> /\ selection.revision \in 0 .. MaxSelections
  BY StoreAssumption DEF Init, Task, Lifecycle, HoldKind
<1>2. questions \in Seq(Question) /\ Pending(questions) = {}
  BY <1>1 DEF Pending
<1>3. RunningIsUnheld
  BY DEF Init, RunningIsUnheld, Held, PlanRowHolds
<1>4. QED BY <1>1, <1>2, <1>3 DEF StoreInv, Asked

\* Every step keeps the invariant and the two action properties.
LEMMA StoreStep == StoreInv /\ [Next]_vars => Good
<1> SUFFICES ASSUME StoreInv, [Next]_vars PROVE Good
  OBVIOUS
<1>1. CASE UNCHANGED vars
  BY <1>1, IdleLemma DEF vars, plan
<1>2. CASE PublishQuestion
  BY <1>2, PublishQuestionKeeps
<1>3. ASSUME NEW q \in DOMAIN questions, AnswerQuestion(q) PROVE Good
  BY <1>3, AnswerQuestionKeeps
<1>4. CASE Steer
  BY <1>4, SteerKeeps
<1>5. CASE PauseForWorkflowOff
  BY <1>5, PauseKeeps
<1>6. CASE Cancel
  <2>1. "cancelled" \in Terminal
    BY DEF Terminal
  <2>2. "cancelled" # "completed"
    OBVIOUS
  <2>3. QED BY <1>6, <2>1, <2>2, EndKeeps DEF Cancel
<1>7. ASSUME NEW a \in Attempts,
             PlanAttempt(a) \/ RunAttempt(a) \/ SettleAttempt(a) \/ ReconcileAttempt(a)
      PROVE  Good
  BY <1>7, IdleLemma DEF PlanAttempt, RunAttempt, SettleAttempt, ReconcileAttempt, plan
<1>8. CASE MaterializeObligations \/ InsertEvidence
  BY <1>8, IdleLemma DEF MaterializeObligations, InsertEvidence, plan
<1>9. ASSUME NEW c \in Criteria, InvalidateEvidence(c) \/ MarkApplicabilityUnresolved(c)
      PROVE  Good
  <2>1. "cancelled" \in {"cancelled"} /\ {"cancelled"} \subseteq Terminal
    BY DEF Terminal
  <2>2. BlockForeign({"cancelled"}) /\ UNCHANGED <<questions, selection>>
    BY <1>9 DEF InvalidateEvidence, MarkApplicabilityUnresolved, plan
  <2>3. QED BY <2>1, <2>2, BlockLemma
<1>10. CASE MarkBlocked
  <2>1. "cancelled" \in Terminal
    BY DEF Terminal
  <2>2. BlockForeign(Terminal) /\ UNCHANGED <<questions, selection>>
    BY <1>10 DEF MarkBlocked, plan
  <2>3. QED BY <2>1, <2>2, BlockLemma
<1>11. CASE Complete
  <2>1. "completed" \in Terminal
    BY DEF Terminal
  <2>2. QED BY <1>11, <2>1, EndKeeps DEF Complete
<1>12. CASE CompleteRefused
  BY <1>12, CompleteRefusedKeeps
<1>13. ASSUME NEW r \in Requests, Select(r) PROVE Good
  BY <1>13, SelectKeeps
<1>14. ASSUME NEW r \in Requests, Reselect(r) PROVE Good
  BY <1>14, WriteRowsLemma DEF Reselect
<1>15. CASE HoldForPlanGate
  BY <1>15, HoldForPlanGateKeeps
<1>16. CASE MarkPlanUnresolved
  BY <1>16, WriteRowsLemma DEF MarkPlanUnresolved
<1>17. CASE FrameGoal
  BY <1>17, WriteRowsLemma DEF FrameGoal, Required
<1>18. CASE PlanWork
  BY <1>18, RevisionKeeps DEF PlanWork, Required
<1>19. CASE AssessPlan
  BY <1>19, RevisionKeeps DEF AssessPlan, Required
<1>20. CASE JudgePlan
  BY <1>20, WriteRowsLemma DEF JudgePlan, Required
<1>21. ASSUME NEW c \in Purpose, StageReply(c) PROVE Good
  BY <1>21, WriteRowsLemma DEF StageReply, StageRuns, Required
<1>22. ASSUME NEW c \in Purpose, StageForks(c) PROVE Good
  BY <1>22, StageForksKeeps
<1>23. QED
  BY <1>1, <1>2, <1>3, <1>4, <1>5, <1>6, <1>7, <1>8, <1>9, <1>10, <1>11, <1>12, <1>13,
     <1>14, <1>15, <1>16, <1>17, <1>18, <1>19, <1>20, <1>21, <1>22 DEF Next

\* The invariant holds throughout.
LEMMA StoreInvariant == Spec => []StoreInv
<1>1. StoreInv /\ [Next]_vars => StoreInv'
  BY StoreStep DEF Good
<1>2. QED BY <1>1, StoreInit, PTL DEF Spec

\* A task never runs while a row of its plan or a gate hold holds it: every
\* transaction that lets a task run settles it on the plan first.
THEOREM UnheldSafe == Spec => []RunningIsUnheld
<1>1. StoreInv => RunningIsUnheld
  BY DEF StoreInv
<1>2. QED BY <1>1, StoreInvariant, PTL

\* A task asks one question at a time, of its live intent, and a finished task
\* asks none.
THEOREM QuestionSafe == Spec => []OneLiveQuestion
<1>1. ASSUME StoreInv PROVE OneLiveQuestion
  <2>1. \A q \in Pending(questions) : Open /\ questions[q].intent = task.intent
    BY <1>1 DEF StoreInv, Asked, Open
  <2>2. CASE Pending(questions) = {}
    BY <2>1, <2>2, FS_EmptySet DEF OneLiveQuestion
  <2>3. CASE Pending(questions) # {}
    <3>1. PICK q : Pending(questions) = {q}
      BY <1>1, <2>3 DEF StoreInv, Asked
    <3>2. Cardinality(Pending(questions)) = 1
      BY <3>1, FS_Singleton
    <3>3. QED BY <2>1, <3>2 DEF OneLiveQuestion
  <2>4. QED BY <2>2, <2>3
<1>2. QED BY <1>1, StoreInvariant, PTL

\* A block the plan did not make is never erased by a plan write or a steer.
THEOREM ForeignSafe == Spec => ForeignBlockStays
<1>1. StoreInv /\ [Next]_vars =>
        [ /\ task.lifecycle = "blocked" /\ ~ task.planBlock
          /\ task'.lifecycle # "blocked"
          => \/ task'.lifecycle \in Terminal
             \/ \E q \in Pending(questions) : questions'[q].state = "answered" ]_vars
  BY StoreStep DEF Good, ForeignStep
<1>2. QED BY <1>1, StoreInvariant, PTL DEF Spec, ForeignBlockStays

\* A cancelled task stays cancelled; a completed one opens again only blocked.
THEOREM EndsSafe == Spec => EndsAreFinal
<1>1. StoreInv /\ [Next]_vars =>
        [ /\ task.lifecycle = "cancelled" => task'.lifecycle = "cancelled"
          /\ task.lifecycle = "completed" =>
                task'.lifecycle \in {"completed", "blocked"} ]_vars
  BY StoreStep DEF Good, EndStep
<1>2. QED BY <1>1, StoreInvariant, PTL DEF Spec, EndsAreFinal
=============================================================================
