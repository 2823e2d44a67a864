----------------------------- MODULE PlanProofs -----------------------------
(***************************************************************************)
(* Proofs about the plan of a task and the proof of its criteria, for      *)
(* every set of requests, criteria and attempts and every bound.  A row is *)
(* written by one of five rules: it is selected, closed, blocked, answered *)
(* or given another applicability; a lemma says what each leaves of it,    *)
(* and a lemma per transaction carries the invariant of the plan.  Three   *)
(* parts follow: what the plan's tasks do outside the store (every effect  *)
(* was admitted for the file and the rights it has when it runs), the      *)
(* forks of a plan and the order and coverage of its parts, and a confined *)
(* check with the staging of its dependencies.                             *)
(***************************************************************************)
EXTENDS TaskStoreProofs, Plans, Effects, Checks, ProofLemmas

-----------------------------------------------------------------------------
(***************************************************************************)
(* The rows and the revisions of a plan.                                   *)
(***************************************************************************)

Revision == [selection : 1 .. MaxSelections, verdict : {"none", "pass", "fail"}]

\* A row when the questions Q were asked and the revisions P recorded.
RowOf(Q, P) ==
    [applicability : {"required", "unresolved"},
     execution : {"pending", "satisfied", "failed"},
     handler : SELECTION_CAPABILITIES \union {"none"},
     blocker : {NoBlocker, Capability, Dependency} \union { Decision(q) : q \in Q },
     outcome : {NoOutcome, Closed} \union { AnsweredFork(q) : q \in Q }
               \union { Judged(p) : p \in P }]

\* Rows of capabilities, each with its own handler; only a purpose waits on a fork.
Shape(rws, Q, P) ==
    /\ DOMAIN rws \subseteq SELECTION_CAPABILITIES
    /\ \A c \in DOMAIN rws :
        /\ rws[c] \in RowOf(Q, P)
        /\ c \in Purpose \union {"plan_work", "assess_plan"} => rws[c].handler = c
        /\ rws[c].blocker.reason = "decision" => c \in Purpose

\* The rows are those some request of the recorded facts needs.
Selected ==
    IF selection.revision = 0 THEN DOMAIN rows = {}
    ELSE \E r \in Requests :
            /\ Facts(r) = selection.facts
            /\ DOMAIN rows = { c \in SELECTION_CAPABILITIES : Need(r, c) # "skip" }

\* Revisions are recorded under selections that only move on.
Ordered ==
    \A p \in DOMAIN plans : /\ plans[p].selection <= plans[Len(plans)].selection
                            /\ plans[p].selection <= selection.revision

PlanTypes ==
    /\ plans \in Seq(Revision)
    /\ Len(questions) <= MaxQuestions
    /\ Shape(rows, DOMAIN questions, DOMAIN plans)
PlanInv == PlanTypes /\ Selected /\ Ordered /\ ForkBelongsToSelection

\* Where both are owed, the assessor's row is required whenever the plan's is.
Together ==
    {"plan_work", "assess_plan"} \subseteq DOMAIN rows
    /\ rows["plan_work"].applicability = "required"
    => rows["assess_plan"].applicability = "required"

\* A verdict that stands is on the last revision.
VerdictIsLatest ==
    "assess_plan" \in DOMAIN rows /\ rows["assess_plan"].execution = "satisfied"
    => rows["assess_plan"].outcome = Judged(Len(plans))
JudgedInv == Together /\ VerdictIsLatest

\* A row changed in place keeps its shape.
LEMMA ShapeKept ==
  ASSUME NEW rws, NEW Q, NEW P, Shape(rws, Q, P), NEW u, DOMAIN u = DOMAIN rws, NEW Q2, NEW P2,
         \A c \in DOMAIN rws :
            /\ u[c] \in RowOf(Q2, P2) /\ u[c].handler = rws[c].handler
            /\ u[c].blocker = rws[c].blocker \/ u[c].blocker.reason # "decision" \/ c \in Purpose
  PROVE  Shape(u, Q2, P2)
BY DEF Shape

\* More questions and more revisions.
LEMMA ShapeGrows ==
  ASSUME NEW rws, NEW Q, NEW P, Shape(rws, Q, P), NEW Q2, NEW P2, Q \subseteq Q2, P \subseteq P2
  PROVE  Shape(rws, Q2, P2)
<1>1. ASSUME NEW c \in DOMAIN rws PROVE rws[c] \in RowOf(Q2, P2)
  BY <1>1 DEF Shape, RowOf
<1>2. QED BY <1>1 DEF Shape

\* What needs nothing more than the plan tables it leaves alone.
LEMMA PlanStays ==
  ASSUME PlanInv, UNCHANGED plan,
         Len(questions) <= Len(questions'), Len(questions') <= MaxQuestions,
         DOMAIN questions \subseteq DOMAIN questions',
         \A q \in Pending(questions') :
            questions'[q].under # 0 => q \in Pending(questions) /\ questions'[q].under = questions[q].under
  PROVE  PlanInv' /\ (JudgedInv => JudgedInv')
<1>1. rows' = rows /\ plans' = plans /\ selection' = selection
  BY DEF plan
<1>2. PlanTypes'
  BY <1>1, ShapeGrows DEF PlanInv, PlanTypes
<1>3. Selected' /\ Ordered'
  BY <1>1 DEF PlanInv, Selected, Ordered
<1>4. ForkBelongsToSelection'
  BY <1>1 DEF PlanInv, ForkBelongsToSelection
<1>5. JudgedInv => JudgedInv'
  BY <1>1 DEF JudgedInv, Together, VerdictIsLatest
<1>6. QED BY <1>2, <1>3, <1>4, <1>5 DEF PlanInv

\* What changes rows in place, on a plan that may grow under the same selection.
LEMMA RowsMove ==
  ASSUME PlanInv, StoreInv,
         questions' \in Seq(Question), Len(questions') <= MaxQuestions, DOMAIN questions \subseteq DOMAIN questions',
         plans' \in Seq(Revision), DOMAIN plans \subseteq DOMAIN plans',
         selection' = selection, Ordered',
         DOMAIN rows' = DOMAIN rows,
         \A c \in DOMAIN rows :
            /\ rows'[c] \in RowOf(DOMAIN questions', DOMAIN plans') /\ rows'[c].handler = rows[c].handler
            /\ rows'[c].blocker = rows[c].blocker \/ rows'[c].blocker.reason # "decision" \/ c \in Purpose,
         \A q \in Pending(questions') : questions'[q].under # 0 =>
            /\ questions'[q].under = selection.revision
            /\ \/ \E c \in DOMAIN rows : rows'[c].blocker = Decision(q)
               \/ /\ q \in Pending(questions) /\ questions[q].under = questions'[q].under
                  /\ \A c \in DOMAIN rows : rows[c].blocker = Decision(q) => rows'[c].blocker = rows[c].blocker
  PROVE  PlanInv'
<1>1. Shape(rows', DOMAIN questions', DOMAIN plans')
  BY ShapeKept DEF PlanInv, PlanTypes
<1>2. PlanTypes'
  BY <1>1 DEF PlanTypes
<1>3. Selected'
  BY DEF PlanInv, Selected
<1>4. ForkBelongsToSelection'
  BY DEF PlanInv, ForkBelongsToSelection
<1>5. QED BY <1>2, <1>3, <1>4 DEF PlanInv

\* A write of rows alone, that leaves the waits on pending forks.
LEMMA RowsWritten ==
  ASSUME PlanInv, StoreInv, NEW rws, WriteRows(rws), DOMAIN rws = DOMAIN rows,
         \A c \in DOMAIN rows :
            /\ rws[c] \in RowOf(DOMAIN questions, DOMAIN plans) /\ rws[c].handler = rows[c].handler
            /\ rws[c].blocker = rows[c].blocker \/ rws[c].blocker.reason # "decision",
         \A c \in DOMAIN rows, q \in Pending(questions) :
            rows[c].blocker = Decision(q) => rws[c].blocker = rows[c].blocker
  PROVE  PlanInv'
<1>1. questions' = questions /\ plans' = plans /\ selection' = selection /\ rows' = rws
  BY DEF WriteRows, WritePlan
<1>2. /\ questions \in Seq(Question) /\ Len(questions) <= MaxQuestions /\ plans \in Seq(Revision)
      /\ Ordered' /\ ForkBelongsToSelection
  BY <1>1 DEF PlanInv, PlanTypes, StoreInv, Ordered
<1>3. QED BY <1>1, <1>2, RowsMove DEF ForkBelongsToSelection

\* Only a purpose's row waits on a fork, and never one the assessor owns.
LEMMA ForkRows ==
  ASSUME PlanTypes, NEW c \in DOMAIN rows, NEW q, rows[c].blocker = Decision(q)
  PROVE  c \in Purpose /\ rows[c].handler = c /\ rows[c].handler \notin {"assess_plan", "plan_work", "frame_goal"}
<1>1. rows[c].blocker.reason = "decision"
  BY DEF Decision
<1>2. QED BY <1>1 DEF PlanTypes, Shape, Purpose

\* A closed row keeps its handler and its applicability, and waits on nothing.
LEMMA RowCloses ==
  ASSUME NEW Q, NEW P, NEW row \in RowOf(Q, P),
         NEW execution \in {"pending", "satisfied", "failed"},
         NEW outcome, outcome \in {NoOutcome, Closed} \union { Judged(p) : p \in P },
         NEW u, u = CloseRow(row, execution, outcome)
  PROVE  /\ u \in RowOf(Q, P)
         /\ u.handler = row.handler /\ u.applicability = row.applicability
         /\ u.execution = execution /\ u.outcome = outcome
         /\ u.blocker.reason # "decision"
<1> DEFINE B == {NoBlocker, Capability, Dependency} \union { Decision(q) : q \in Q }
           O == {NoOutcome, Closed} \union { AnsweredFork(q) : q \in Q } \union { Judged(p) : p \in P }
<1>1. NoBlocker \in B /\ outcome \in O /\ NoBlocker.reason # "decision"
  BY DEF NoBlocker
<1>2. RowOf(Q, P) = [applicability : {"required", "unresolved"},
                     execution : {"pending", "satisfied", "failed"},
                     handler : SELECTION_CAPABILITIES \union {"none"}, blocker : B, outcome : O]
  BY DEF RowOf
<1> HIDE DEF B, O
<1>3. u = [row EXCEPT !.execution = execution, !.outcome = outcome, !.blocker = NoBlocker]
  BY DEF CloseRow
<1>4. u = [applicability |-> row.applicability, execution |-> execution,
           handler |-> row.handler, blocker |-> NoBlocker, outcome |-> outcome]
  <2>1. row = [applicability |-> row.applicability, execution |-> row.execution,
               handler |-> row.handler, blocker |-> row.blocker, outcome |-> row.outcome]
    BY <1>2
  <2> DEFINE a == row.applicability
             e == row.execution
             h == row.handler
             b == row.blocker
             o == row.outcome
             n == NoBlocker
  <2>2. /\ row = [applicability |-> a, execution |-> e, handler |-> h, blocker |-> b, outcome |-> o]
        /\ u = [row EXCEPT !.execution = execution, !.outcome = outcome, !.blocker = n]
    BY <2>1, <1>3
  <2> HIDE DEF a, e, h, b, o, n
  <2>3. u = [applicability |-> a, execution |-> execution, handler |-> h, blocker |-> n,
             outcome |-> outcome]
    BY <2>2
  <2>4. QED BY <2>3 DEF a, h, n
<1>5. QED BY <1>1, <1>2, <1>4

\* Blocking a row changes its blocker alone.
LEMMA RowBlocks ==
  ASSUME NEW Q, NEW P, NEW row \in RowOf(Q, P),
         NEW blocker, blocker \in {Capability, Dependency} \union { Decision(q) : q \in Q },
         NEW u, u = BlockRow(row, blocker)
  PROVE  /\ u \in RowOf(Q, P)
         /\ u.handler = row.handler /\ u.applicability = row.applicability
         /\ u.execution = row.execution /\ u.outcome = row.outcome
         /\ u.blocker = blocker
<1> DEFINE B == {NoBlocker, Capability, Dependency} \union { Decision(q) : q \in Q }
           O == {NoOutcome, Closed} \union { AnsweredFork(q) : q \in Q } \union { Judged(p) : p \in P }
<1>1. blocker \in B
  OBVIOUS
<1>2. RowOf(Q, P) = [applicability : {"required", "unresolved"},
                     execution : {"pending", "satisfied", "failed"},
                     handler : SELECTION_CAPABILITIES \union {"none"}, blocker : B, outcome : O]
  BY DEF RowOf
<1> HIDE DEF B, O
<1>3. u = [row EXCEPT !.blocker = blocker]
  BY DEF BlockRow
<1> QED BY <1>1, <1>2, <1>3

\* Another applicability changes nothing else of a row.
LEMMA RowApplies ==
  ASSUME NEW Q, NEW P, NEW row \in RowOf(Q, P), NEW applicability \in {"required", "unresolved"},
         NEW u, u = [row EXCEPT !.applicability = applicability]
  PROVE  /\ u \in RowOf(Q, P)
         /\ u.handler = row.handler /\ u.applicability = applicability
         /\ u.execution = row.execution /\ u.outcome = row.outcome
         /\ u.blocker = row.blocker
BY DEF RowOf

\* The reasons of the blockers that are no fork.
LEMMA NoForkReason == Capability.reason # "decision" /\ Dependency.reason # "decision"
BY DEF Capability, Dependency

\* The two rows of the plan's own revision and judgement are left alone, or only blocked.
LEMMA JudgedStays ==
  ASSUME PlanTypes, JudgedInv, plans' = plans \/ Len(plans') = Len(plans), DOMAIN rows' = DOMAIN rows,
         \A c \in DOMAIN rows : rows'[c].applicability = rows[c].applicability,
         "assess_plan" \in DOMAIN rows =>
            /\ rows'["assess_plan"].execution = rows["assess_plan"].execution
            /\ rows'["assess_plan"].outcome = rows["assess_plan"].outcome
  PROVE  JudgedInv'
BY DEF JudgedInv, Together, VerdictIsLatest

-----------------------------------------------------------------------------
(* Closing and blocking rows a handler owns.                                *)

\* Stage.close on rows that wait on no pending fork.
LEMMA CloseRowsStep ==
  ASSUME PlanInv, StoreInv, NEW S,
         \A c \in S \cap DOMAIN rows, q \in Pending(questions) : rows[c].blocker # Decision(q),
         NEW execution \in {"pending", "satisfied", "failed"},
         NEW outcome, outcome \in {NoOutcome, Closed} \union { Judged(p) : p \in DOMAIN plans },
         WriteRows(CloseRows(S, execution, outcome))
  PROVE  /\ PlanInv'
         /\ DOMAIN rows' = DOMAIN rows /\ plans' = plans
         /\ \A c \in DOMAIN rows :
              /\ rows'[c].applicability = rows[c].applicability
              /\ c \in S => rows'[c].execution = execution /\ rows'[c].outcome = outcome
              /\ c \notin S => rows'[c] = rows[c]
<1> DEFINE u == CloseRows(S, execution, outcome)
           Q == DOMAIN questions
           P == DOMAIN plans
<1>1. DOMAIN u = DOMAIN rows /\ rows' = u /\ plans' = plans
  BY DEF CloseRows, WriteRows, WritePlan
<1>2. \A c \in DOMAIN rows : u[c] = IF c \in S THEN CloseRow(rows[c], execution, outcome) ELSE rows[c]
  BY DEF CloseRows
<1>3. \A c \in DOMAIN rows : rows[c] \in RowOf(Q, P)
  BY DEF PlanInv, PlanTypes, Shape
<1>4. WriteRows(u)
  OBVIOUS
<1>5. outcome \in {NoOutcome, Closed} \union { Judged(p) : p \in P }
  OBVIOUS
<1> HIDE DEF u, P, Q
<1>6. ASSUME NEW c \in DOMAIN rows
      PROVE  /\ u[c] \in RowOf(Q, P) /\ u[c].handler = rows[c].handler
             /\ u[c].applicability = rows[c].applicability
             /\ u[c].blocker = rows[c].blocker \/ u[c].blocker.reason # "decision"
             /\ c \in S => u[c].execution = execution /\ u[c].outcome = outcome
             /\ c \notin S => u[c] = rows[c]
  <2>1. CASE c \in S
    <3> DEFINE w == u[c]
               row == rows[c]
    <3>1. row \in RowOf(Q, P) /\ w = CloseRow(row, execution, outcome)
      BY <2>1, <1>2, <1>3
    <3> HIDE DEF w, row
    <3>2. /\ w \in RowOf(Q, P)
          /\ w.handler = row.handler /\ w.applicability = row.applicability
          /\ w.execution = execution /\ w.outcome = outcome
          /\ w.blocker.reason # "decision"
      BY <3>1, <1>5, RowCloses
    <3>3. QED BY <3>2, <2>1 DEF w, row
  <2>2. CASE c \notin S
    BY <2>2, <1>2, <1>3
  <2>3. QED BY <2>1, <2>2
<1>7. \A c \in DOMAIN rows, q \in Pending(questions) :
         rows[c].blocker = Decision(q) => u[c].blocker = rows[c].blocker
  BY <1>2, <1>6
<1>8. PlanInv'
  BY <1>1, <1>4, <1>6, <1>7, RowsWritten DEF Q, P
<1>9. QED BY <1>1, <1>6, <1>8

\* Stage.block on rows that wait on no pending fork.
LEMMA BlockRowsStep ==
  ASSUME PlanInv, StoreInv, NEW S,
         \A c \in S \cap DOMAIN rows, q \in Pending(questions) : rows[c].blocker # Decision(q),
         NEW blocker, blocker \in {Capability, Dependency},
         WriteRows(BlockRows(S, blocker))
  PROVE  PlanInv' /\ (JudgedInv => JudgedInv')
<1> DEFINE u == BlockRows(S, blocker)
           Q == DOMAIN questions
           P == DOMAIN plans
<1>1. DOMAIN u = DOMAIN rows /\ rows' = u /\ plans' = plans
  BY DEF BlockRows, WriteRows, WritePlan
<1>2. \A c \in DOMAIN rows : u[c] = IF c \in S THEN BlockRow(rows[c], blocker) ELSE rows[c]
  BY DEF BlockRows
<1>3. \A c \in DOMAIN rows : rows[c] \in RowOf(Q, P)
  BY DEF PlanInv, PlanTypes, Shape
<1>4. WriteRows(u)
  OBVIOUS
<1>5. /\ blocker \in {Capability, Dependency} \union { Decision(q) : q \in Q }
      /\ blocker.reason # "decision"
  BY NoForkReason
<1> HIDE DEF u, P, Q
<1>6. ASSUME NEW c \in DOMAIN rows
      PROVE  /\ u[c] \in RowOf(Q, P) /\ u[c].handler = rows[c].handler
             /\ u[c].applicability = rows[c].applicability
             /\ u[c].execution = rows[c].execution /\ u[c].outcome = rows[c].outcome
             /\ u[c].blocker = rows[c].blocker \/ u[c].blocker.reason # "decision"
             /\ c \notin S => u[c] = rows[c]
  <2>1. CASE c \in S
    <3> DEFINE w == u[c]
               row == rows[c]
    <3>1. row \in RowOf(Q, P) /\ w = BlockRow(row, blocker)
      BY <2>1, <1>2, <1>3
    <3> HIDE DEF w, row
    <3>2. /\ w \in RowOf(Q, P)
          /\ w.handler = row.handler /\ w.applicability = row.applicability
          /\ w.execution = row.execution /\ w.outcome = row.outcome
          /\ w.blocker = blocker
      BY <3>1, <1>5, RowBlocks
    <3>3. QED BY <3>2, <2>1, <1>5 DEF w, row
  <2>2. CASE c \notin S
    BY <2>2, <1>2, <1>3
  <2>3. QED BY <2>1, <2>2
<1>7. \A c \in DOMAIN rows, q \in Pending(questions) :
         rows[c].blocker = Decision(q) => u[c].blocker = rows[c].blocker
  BY <1>2, <1>6
<1>8. PlanInv'
  BY <1>1, <1>4, <1>6, <1>7, RowsWritten DEF Q, P
<1>9. JudgedInv => JudgedInv'
  BY <1>1, <1>6, JudgedStays DEF PlanInv
<1>10. QED BY <1>8, <1>9

\* Learned rules give the stages of the plan the same need whenever the same facts are weighed.
SettledNeeds ==
    \A r, s \in Requests : Facts(r) = Facts(s) =>
        \A c \in {"plan_work", "assess_plan"} : Need(r, c) = Need(s, c)

\* What a step owes the plan.
PlanGood == PlanInv' /\ (JudgedInv /\ SettledNeeds => JudgedInv')

\* The latest revision of the current selection is the last of all.
LEMMA LatestIsLast ==
  ASSUME PlanTypes, Ordered, Latest # 0
  PROVE  Latest = Len(plans) /\ Latest \in DOMAIN plans /\ plans[Latest].selection = selection.revision
<1> DEFINE n == Len(plans)
           R == RevisionsOf(plans, selection.revision)
<1>1. n \in Nat /\ DOMAIN plans = 1 .. n /\ \A p \in 1 .. n : plans[p].selection \in Nat
  <2>1. n \in Nat /\ DOMAIN plans = 1 .. n /\ \A p \in 1 .. n : plans[p] \in Revision
    BY DEF PlanTypes
  <2>2. \A x \in Revision : x.selection \in Nat
    BY StoreAssumption DEF Revision
  <2>3. QED BY <2>1, <2>2
<1>2. R # {} /\ Latest = CHOOSE p \in R : \A o \in R : o <= p
  BY DEF Latest, LatestRevision
<1>3. PICK p \in R : TRUE
  BY <1>2
<1>4. p \in 1 .. n /\ plans[p].selection = selection.revision
  BY <1>1, <1>3 DEF RevisionsOf
<1>5. n \in 1 .. n /\ plans[n].selection = selection.revision
  BY <1>1, <1>4 DEF Ordered
<1>6. n \in R /\ \A o \in R : o \in 1 .. n
  BY <1>1, <1>5 DEF RevisionsOf
<1>7. Latest \in R /\ \A o \in R : o <= Latest
  BY <1>1, <1>2, <1>6
<1>8. QED BY <1>1, <1>5, <1>6, <1>7

\* A verdict that stands opens the gate on the last revision alone.
LEMMA JudgedGate ==
  ASSUME PlanInv, JudgedInv
  PROVE  GateIsJudged
<1> SUFFICES ASSUME PlanGate(selection.revision, rows, plans) = "open",
                    {"plan_work", "assess_plan"} \subseteq DOMAIN rows
             PROVE  /\ rows["assess_plan"].outcome = Judged(Len(plans))
                    /\ plans[Len(plans)] = [selection |-> selection.revision, verdict |-> "pass"]
  BY DEF GateIsJudged
<1>1. /\ \A c \in DOMAIN rows : c \in PLAN_STAGES => rows[c].execution = "satisfied"
      /\ Passed(plans, selection.revision)
  BY DEF PlanGate
<1>2. rows["assess_plan"].execution = "satisfied"
  BY <1>1 DEF PLAN_STAGES
<1>3. Latest # 0 /\ plans[Latest].verdict = "pass"
  BY <1>1 DEF Passed, Latest
<1>4. Latest = Len(plans) /\ Latest \in DOMAIN plans /\ plans[Latest].selection = selection.revision
  BY <1>3, LatestIsLast DEF PlanInv
<1>5. plans[Latest] \in Revision
  BY <1>4 DEF PlanInv, PlanTypes
<1>6. plans[Latest] = [selection |-> selection.revision, verdict |-> "pass"]
  BY <1>3, <1>4, <1>5 DEF Revision
<1>7. QED BY <1>2, <1>4, <1>6 DEF JudgedInv, VerdictIsLatest

-----------------------------------------------------------------------------
(* Steps that move rows in place.                                           *)

\* A row that owes the assessor, the planner or the framing waits on no fork.
LEMMA OwnedRow ==
  ASSUME PlanTypes, NEW c \in DOMAIN rows,
         rows[c].handler = "assess_plan" \/ c \in {"plan_work", "frame_goal", "assess_plan"}
  PROVE  rows[c].blocker.reason # "decision"
BY DEF PlanTypes, Shape, Purpose

\* Rows that wait on no fork are written anew, the others stay.
LEMMA RowsOwned ==
  ASSUME PlanInv, StoreInv, questions' = questions, selection' = selection,
         plans' \in Seq(Revision), DOMAIN plans \subseteq DOMAIN plans', Ordered',
         DOMAIN rows' = DOMAIN rows,
         \A c \in DOMAIN rows :
            \/ rows'[c] = rows[c]
            \/ /\ rows'[c] \in RowOf(DOMAIN questions, DOMAIN plans')
               /\ rows'[c].handler = rows[c].handler
               /\ rows'[c].blocker.reason # "decision" /\ rows[c].blocker.reason # "decision"
  PROVE  PlanInv'
<1>1. questions \in Seq(Question) /\ Len(questions) <= MaxQuestions
  BY DEF StoreInv, PlanInv, PlanTypes
<1>2. Shape(rows, DOMAIN questions, DOMAIN plans')
  BY ShapeGrows DEF PlanInv, PlanTypes
<1>3. \A c \in DOMAIN rows :
            /\ rows'[c] \in RowOf(DOMAIN questions', DOMAIN plans') /\ rows'[c].handler = rows[c].handler
            /\ rows'[c].blocker = rows[c].blocker \/ rows'[c].blocker.reason # "decision"
  BY <1>2 DEF Shape
<1>4. ASSUME NEW q, NEW c \in DOMAIN rows, rows[c].blocker = Decision(q)
      PROVE  rows'[c].blocker = rows[c].blocker
  BY <1>4 DEF Decision
<1>5. \A q \in Pending(questions') : questions'[q].under # 0 => questions'[q].under = selection.revision
  BY DEF PlanInv, ForkBelongsToSelection
<1>6. QED BY <1>1, <1>3, <1>4, <1>5, RowsMove

\* Rows whose applicability alone is written.
LEMMA RowsReapplied ==
  ASSUME PlanInv, StoreInv, questions' = questions, selection' = selection, plans' = plans,
         DOMAIN rows' = DOMAIN rows,
         \A c \in DOMAIN rows : \E a \in {"required", "unresolved"} :
            rows'[c] = [rows[c] EXCEPT !.applicability = a]
  PROVE  PlanInv' /\ (VerdictIsLatest => VerdictIsLatest')
<1> DEFINE Q == DOMAIN questions
           P == DOMAIN plans
<1>1. \A c \in DOMAIN rows : rows[c] \in RowOf(Q, P)
  BY DEF PlanInv, PlanTypes, Shape
<1> HIDE DEF Q, P
<1>2. ASSUME NEW c \in DOMAIN rows
      PROVE  /\ rows'[c] \in RowOf(Q, P) /\ rows'[c].handler = rows[c].handler
             /\ rows'[c].execution = rows[c].execution /\ rows'[c].outcome = rows[c].outcome
             /\ rows'[c].blocker = rows[c].blocker
  <2>1. PICK a \in {"required", "unresolved"} : rows'[c] = [rows[c] EXCEPT !.applicability = a]
    OBVIOUS
  <2> DEFINE u == rows'[c]
             row == rows[c]
  <2>2. row \in RowOf(Q, P) /\ u = [row EXCEPT !.applicability = a]
    BY <1>1, <2>1
  <2> HIDE DEF u, row
  <2>3. /\ u \in RowOf(Q, P) /\ u.handler = row.handler
        /\ u.execution = row.execution /\ u.outcome = row.outcome
        /\ u.blocker = row.blocker
    BY <2>2, RowApplies
  <2>4. QED BY <2>3 DEF u, row
<1>3. questions \in Seq(Question) /\ Len(questions) <= MaxQuestions /\ plans \in Seq(Revision) /\ Ordered'
  BY DEF StoreInv, PlanInv, PlanTypes, Ordered
<1>4. \A q \in Pending(questions') : questions'[q].under # 0 => questions'[q].under = selection.revision
  BY DEF PlanInv, ForkBelongsToSelection
<1>5. PlanInv'
  BY <1>2, <1>3, <1>4, RowsMove DEF Q, P
<1>6. VerdictIsLatest => VerdictIsLatest'
  BY <1>2 DEF VerdictIsLatest
<1>7. QED BY <1>5, <1>6

\* mark_plan_applicability_unresolved and its twin of the criteria.
LEMMA UnresolvedPlan ==
  ASSUME PlanInv, StoreInv, questions' = questions, selection' = selection, plans' = plans,
         rows' = UnresolvedRows
  PROVE  PlanGood
<1>1. DOMAIN rows' = DOMAIN rows
  BY DEF UnresolvedRows
<1>2. \A c \in DOMAIN rows : rows'[c] = [rows[c] EXCEPT !.applicability = "unresolved"]
  BY DEF UnresolvedRows
<1>3. PlanInv' /\ (VerdictIsLatest => VerdictIsLatest')
  BY <1>1, <1>2, RowsReapplied
<1>4. \A c \in DOMAIN rows : rows'[c].applicability = "unresolved"
  BY <1>2 DEF PlanInv, PlanTypes, Shape, RowOf
<1>5. Together'
  BY <1>1, <1>4 DEF Together
<1>6. QED BY <1>3, <1>5 DEF PlanGood, JudgedInv

\* The two stages of the plan are needed alike, unless a rule declines one.
LEMMA NeedsAgree ==
  ASSUME NEW r, Need(r, "plan_work") # "skip", Need(r, "assess_plan") # "skip"
  PROVE  Need(r, "plan_work") = "required" <=> Need(r, "assess_plan") = "required"
<1>1. OwnNeed(r, "plan_work") = OwnNeed(r, "assess_plan")
  BY DEF OwnNeed, Purpose
<1>2. OwnNeed(r, "plan_work") \in {"required", "skip", "unresolved"}
  BY DEF OwnNeed, When
<1> DEFINE own == OwnNeed(r, "plan_work")
<1>3. own = OwnNeed(r, "assess_plan") /\ own \in {"required", "skip", "unresolved"}
  BY <1>1, <1>2
<1>4. own = OwnNeed(r, "plan_work")
  OBVIOUS
<1> HIDE DEF own
<1>5. QED BY <1>3, <1>4 DEF Need

\* record_plan_selection on the recorded facts.
LEMMA ReselectPlan ==
  ASSUME PlanInv, StoreInv, NEW r \in Requests, Reselect(r)
  PROVE  PlanGood
<1>1. rows' = Recovered(r) /\ questions' = questions /\ selection' = selection /\ plans' = plans
  BY DEF Reselect, WriteRows, WritePlan
<1>2. DOMAIN rows' = DOMAIN rows
  BY <1>1 DEF Recovered
<1>3. ASSUME NEW c \in DOMAIN rows
      PROVE  /\ Need(r, c) = "required" => rows'[c] = [rows[c] EXCEPT !.applicability = "required"]
             /\ Need(r, c) # "required" => rows'[c] = rows[c]
             /\ rows[c] = [rows[c] EXCEPT !.applicability = rows[c].applicability]
             /\ rows[c].applicability \in {"required", "unresolved"}
             /\ rows'[c].applicability = IF Need(r, c) = "required" THEN "required"
                                         ELSE rows[c].applicability
  BY <1>1, <1>3 DEF Recovered, PlanInv, PlanTypes, Shape, RowOf
<1>4. \A c \in DOMAIN rows : \E a \in {"required", "unresolved"} :
         rows'[c] = [rows[c] EXCEPT !.applicability = a]
  BY <1>3
<1>5. PlanInv' /\ (VerdictIsLatest => VerdictIsLatest')
  BY <1>1, <1>2, <1>4, RowsReapplied
<1>6. ASSUME Together, SettledNeeds PROVE Together'
  <2> SUFFICES ASSUME "plan_work" \in DOMAIN rows, "assess_plan" \in DOMAIN rows,
                      rows'["plan_work"].applicability = "required"
               PROVE  rows'["assess_plan"].applicability = "required"
    BY <1>2 DEF Together
  <2>1. PICK s \in Requests :
            /\ Facts(s) = selection.facts
            /\ DOMAIN rows = { c \in SELECTION_CAPABILITIES : Need(s, c) # "skip" }
    BY DEF PlanInv, Selected, Reselect
  <2>2. Facts(r) = Facts(s)
    BY <2>1 DEF Reselect
  <2>3. Need(r, "plan_work") # "skip" /\ Need(r, "assess_plan") # "skip"
    BY <1>6, <2>1, <2>2 DEF SettledNeeds
  <2>4. Need(r, "plan_work") = "required" <=> Need(r, "assess_plan") = "required"
    BY <2>3, NeedsAgree
  <2>5. QED BY <1>3, <1>6, <2>4 DEF Together
<1>7. QED BY <1>5, <1>6 DEF PlanGood, JudgedInv

\* answer_question keeps the answer's pin on the row that waited.
LEMMA AnswerPlan ==
  ASSUME PlanInv, StoreInv, NEW q \in DOMAIN questions, AnswerQuestion(q)
  PROVE  PlanGood
<1> DEFINE n == Len(questions)
           Q == DOMAIN questions
           P == DOMAIN plans
<1>1. /\ questions' = [questions EXCEPT ![q].state = "answered"]
      /\ rows' = Retained(q) /\ selection' = selection /\ plans' = plans
      /\ DOMAIN rows' = DOMAIN rows
  BY DEF AnswerQuestion, Retained
<1>2. n \in Nat /\ Q = 1 .. n /\ \A p \in 1 .. n : questions[p] \in Question
  BY DEF StoreInv
<1>3. /\ DOMAIN questions' = Q /\ q \in Q
      /\ \A p \in Q : /\ questions'[p].under = questions[p].under
                      /\ questions'[p].state = "pending" => questions[p].state = "pending"
  BY <1>1, <1>2 DEF Question
<1>4. questions' \in Seq(Question) /\ Len(questions') = n
  <2>1. questions' \in Seq(Question)
    BY AnswerQuestionKeeps DEF Good, StoreInv
  <2>2. QED BY <1>2, <1>3, <2>1
<1>5. \A c \in DOMAIN rows : rows[c] \in RowOf(Q, P)
  BY DEF PlanInv, PlanTypes, Shape
<1> HIDE DEF Q, P, n
<1>6. ASSUME NEW c \in DOMAIN rows
      PROVE  /\ rows'[c] \in RowOf(Q, P) /\ rows'[c].handler = rows[c].handler
             /\ rows'[c].blocker = rows[c].blocker
             /\ rows'[c].applicability = rows[c].applicability
             /\ rows[c].blocker # Decision(q) => rows'[c] = rows[c]
  <2>1. CASE rows[c].blocker = Decision(q)
    <3> DEFINE u == rows'[c]
               row == rows[c]
               m == AnsweredFork(q)
               O == {NoOutcome, Closed} \union { AnsweredFork(p) : p \in Q } \union { Judged(p) : p \in P }
               B == {NoBlocker, Capability, Dependency} \union { Decision(p) : p \in Q }
    <3>1. row \in RowOf(Q, P) /\ u = [row EXCEPT !.outcome = m] /\ m \in O
      BY <1>1, <1>3, <1>5, <2>1 DEF Retained
    <3>2. RowOf(Q, P) = [applicability : {"required", "unresolved"},
                     execution : {"pending", "satisfied", "failed"},
                     handler : SELECTION_CAPABILITIES \union {"none"}, blocker : B, outcome : O]
      BY DEF RowOf
    <3> HIDE DEF u, row, m, O, B
    <3>3. /\ u \in RowOf(Q, P) /\ u.handler = row.handler /\ u.blocker = row.blocker
          /\ u.applicability = row.applicability
      BY <3>1, <3>2
    <3>4. QED BY <2>1, <3>3 DEF u, row
  <2>2. CASE rows[c].blocker # Decision(q)
    BY <1>1, <1>5, <2>2 DEF Retained
  <2>3. QED BY <2>1, <2>2
<1>7. ASSUME NEW p \in Pending(questions'), questions'[p].under # 0
      PROVE  /\ questions'[p].under = selection.revision
             /\ p \in Pending(questions) /\ questions[p].under = questions'[p].under
  <2>1. p \in Q /\ p \in Pending(questions) /\ questions[p].under = questions'[p].under
    BY <1>3, <1>7 DEF Pending, Q
  <2>2. QED BY <1>7, <2>1 DEF PlanInv, ForkBelongsToSelection
<1>8. Len(questions') <= MaxQuestions /\ plans' \in Seq(Revision) /\ Ordered'
  BY <1>1, <1>4 DEF PlanInv, PlanTypes, Ordered, n
<1>9. PlanInv'
  BY <1>1, <1>3, <1>4, <1>6, <1>7, <1>8, RowsMove DEF Q, P
<1>10. ASSUME JudgedInv PROVE JudgedInv'
  <2>1. "assess_plan" \in DOMAIN rows => rows'["assess_plan"] = rows["assess_plan"]
    <3>1. "assess_plan" \notin Purpose
      BY DEF Purpose
    <3>2. QED BY <1>6, <3>1, ForkRows DEF PlanInv
  <2>2. QED BY <1>1, <1>6, <1>10, <2>1, JudgedStays DEF PlanInv
<1>11. QED BY <1>9, <1>10 DEF PlanGood

\* row_write: what it records of a needed capability.
LEMMA RowWriteIsRow ==
  ASSUME NEW r \in PlanRequest, NEW c \in SELECTION_CAPABILITIES, Need(r, c) # "skip", NEW Q, NEW P
  PROVE  /\ RowWrite(r, c) \in RowOf(Q, P)
         /\ RowWrite(r, c).applicability = Need(r, c)
         /\ RowWrite(r, c).execution = "pending"
         /\ RowWrite(r, c).blocker.reason # "decision"
         /\ c \in Purpose \union {"plan_work", "assess_plan"} => RowWrite(r, c).handler = c
<1> DEFINE u == RowWrite(r, c)
           need == Need(r, c)
           handler == Handler(r.kind, c)
           blocker == u.blocker
           B == {NoBlocker, Capability, Dependency} \union { Decision(q) : q \in Q }
           O == {NoOutcome, Closed} \union { AnsweredFork(q) : q \in Q } \union { Judged(p) : p \in P }
           n == NoOutcome
<1>1. need \in {"required", "unresolved"}
  <2>1. OwnNeed(r, c) \in {"required", "skip", "unresolved"}
    BY DEF OwnNeed, When, SELECTION_CAPABILITIES, PLAN_STAGES, CHECKS
  <2> DEFINE own == OwnNeed(r, c)
  <2>2. own \in {"required", "skip", "unresolved"} /\ own = OwnNeed(r, c)
    BY <2>1
  <2> HIDE DEF own
  <2>3. QED BY <2>2 DEF Need
<1>2. /\ handler \in SELECTION_CAPABILITIES \union {"none"}
      /\ c \in Purpose \union {"plan_work", "assess_plan"} => handler = c
  BY DEF Handler, Purpose, Local, SELECTION_CAPABILITIES, PLAN_STAGES
<1>3. /\ blocker \in {NoBlocker, Capability, Dependency}
      /\ u = [applicability |-> need, execution |-> "pending", handler |-> handler,
              blocker |-> blocker, outcome |-> n]
  <2> DEFINE b == CASE need = "unresolved" -> Dependency
                    [] need # "unresolved" /\ (c \in Purpose \/ handler = "none") -> Capability
                    [] OTHER -> NoBlocker
  <2>1. u = [applicability |-> need, execution |-> "pending", handler |-> handler,
              blocker |-> b, outcome |-> n]
    BY DEF RowWrite
  <2>2. b \in {NoBlocker, Capability, Dependency}
    <3> HIDE DEF need, handler
    <3>1. CASE need = "unresolved"
      BY <3>1
    <3>2. CASE need # "unresolved" /\ (c \in Purpose \/ handler = "none")
      BY <3>2
    <3>3. CASE need # "unresolved" /\ ~ (c \in Purpose \/ handler = "none")
      BY <3>3
    <3>4. QED BY <3>1, <3>2, <3>3
  <2> HIDE DEF b, need, handler, n
  <2>3. u.blocker = b
    BY <2>1
  <2>4. QED BY <2>1, <2>2, <2>3
<1>4. blocker.reason # "decision" /\ blocker \in B /\ n \in O
  BY <1>3 DEF NoBlocker, Capability, Dependency
<1>5. RowOf(Q, P) = [applicability : {"required", "unresolved"},
                     execution : {"pending", "satisfied", "failed"},
                     handler : SELECTION_CAPABILITIES \union {"none"}, blocker : B, outcome : O]
  BY DEF RowOf
<1>6. u = RowWrite(r, c) /\ need = Need(r, c) /\ blocker = u.blocker
  OBVIOUS
<1> HIDE DEF u, need, handler, blocker, B, O, n
<1>7. /\ u.applicability = need /\ u.execution = "pending" /\ u.handler = handler
      /\ u \in RowOf(Q, P)
  BY <1>1, <1>2, <1>3, <1>4, <1>5
<1>8. QED BY <1>2, <1>4, <1>6, <1>7

\* record_plan_selection on changed facts: new rows, and the forks of the old ones dead.
LEMMA SelectPlan ==
  ASSUME PlanInv, StoreInv, NEW r \in Requests, Select(r)
  PROVE  PlanGood
<1> DEFINE Q == DOMAIN questions
           P == DOMAIN plans
<1>1. /\ questions' = Superseded(questions, ForksOf) /\ rows' = SelectedRows(r) /\ plans' = plans
      /\ selection' = [revision |-> selection.revision + 1, facts |-> Facts(r)]
      /\ selection.revision \in 0 .. MaxSelections /\ questions \in Seq(Question)
  BY DEF Select, WritePlan, StoreInv
<1>2. /\ DOMAIN questions' = Q /\ questions' \in Seq(Question)
      /\ Pending(questions') = Pending(questions) \ ForksOf
      /\ Len(questions') = Len(questions)
  <2>1. /\ DOMAIN questions' = Q /\ questions' \in Seq(Question)
        /\ Pending(questions') = Pending(questions) \ ForksOf
    BY <1>1, SupersededLemma
  <2>2. Len(questions') = Len(questions)
    BY <1>1, <2>1
  <2>3. QED BY <2>1, <2>2
<1>3. /\ DOMAIN rows' = { c \in SELECTION_CAPABILITIES : Need(r, c) # "skip" }
      /\ \A c \in DOMAIN rows' : rows'[c] = RowWrite(r, c)
  BY <1>1 DEF SelectedRows
<1>4. r \in PlanRequest
  BY StoreAssumption
<1> HIDE DEF Q, P
<1>5. \A c \in DOMAIN rows' :
         /\ rows'[c] \in RowOf(Q, P)
         /\ rows'[c].applicability = Need(r, c)
         /\ rows'[c].execution = "pending"
         /\ rows'[c].blocker.reason # "decision"
         /\ c \in Purpose \union {"plan_work", "assess_plan"} => rows'[c].handler = c
  BY <1>3, <1>4, RowWriteIsRow
<1>6. PlanTypes'
  BY <1>1, <1>2, <1>3, <1>5 DEF PlanInv, PlanTypes, Shape, Q, P
<1>7. Selected'
  <2>1. selection'.revision # 0 /\ selection'.facts = Facts(r)
    BY <1>1
  <2>2. QED BY <1>3, <2>1 DEF Selected
<1>8. Ordered'
  <2>1. selection'.revision = selection.revision + 1
    BY <1>1
  <2>2. ASSUME NEW p \in DOMAIN plans PROVE plans[p].selection <= selection.revision + 1
    <3>1. plans[p] \in Revision /\ plans[p].selection <= selection.revision
      BY DEF PlanInv, PlanTypes, Ordered
    <3>2. plans[p].selection \in Nat
      BY <3>1, StoreAssumption DEF Revision
    <3>3. QED BY <1>1, <3>1, <3>2
  <2>3. QED BY <1>1, <2>1, <2>2 DEF PlanInv, Ordered
<1>9. ForkBelongsToSelection'
  <2>1. ASSUME NEW q \in Pending(questions') PROVE questions'[q].under = 0
    <3>1. q \in Pending(questions) /\ q \notin ForksOf /\ q \in Q
      BY <1>2 DEF Pending, Q
    <3>2. questions'[q] = questions[q]
      BY <1>1, <3>1 DEF Superseded, Q
    <3>3. QED BY <3>1, <3>2 DEF PlanInv, ForkBelongsToSelection, ForksOf
  <2>2. QED BY <2>1 DEF ForkBelongsToSelection
<1>10. Together'
  <2>1. \A c \in DOMAIN rows' : Need(r, c) # "skip"
    BY <1>3
  <2>2. QED BY <1>5, <2>1, NeedsAgree DEF Together
<1>11. VerdictIsLatest'
  BY <1>5 DEF VerdictIsLatest
<1>12. QED BY <1>6, <1>7, <1>8, <1>9, <1>10, <1>11 DEF PlanGood, PlanInv, JudgedInv

\* frame_goal closes its own row.
LEMMA FramePlan ==
  ASSUME PlanInv, StoreInv, FrameGoal
  PROVE  PlanGood
<1> DEFINE S == {"frame_goal"}
           x == "satisfied"
<1>1. \A c \in S \cap DOMAIN rows, q \in Pending(questions) : rows[c].blocker # Decision(q)
  <2>1. \A c \in S \cap DOMAIN rows : c \in DOMAIN rows /\ c \notin Purpose
    BY DEF Purpose
  <2>2. QED BY <2>1, ForkRows DEF PlanInv
<1>2. WriteRows(CloseRows(S, x, Closed)) /\ x \in {"pending", "satisfied", "failed"}
  BY DEF FrameGoal
<1>3. "assess_plan" \notin S
  OBVIOUS
<1> HIDE DEF S, x
<1>4. /\ PlanInv'
      /\ DOMAIN rows' = DOMAIN rows /\ plans' = plans
      /\ \A c \in DOMAIN rows :
              /\ rows'[c].applicability = rows[c].applicability
              /\ c \notin S => rows'[c] = rows[c]
  BY <1>1, <1>2, CloseRowsStep
<1>5. JudgedInv => JudgedInv'
  BY <1>3, <1>4, JudgedStays DEF PlanInv
<1>6. QED BY <1>4, <1>5 DEF PlanGood

\* semantic_stage: the row is blocked or closed.
LEMMA ReplyPlan ==
  ASSUME PlanInv, StoreInv, NEW c \in Purpose, StageReply(c)
  PROVE  PlanGood
<1> DEFINE S == {c}
           x == "satisfied"
<1>1. \A d \in S \cap DOMAIN rows, q \in Pending(questions) : rows[d].blocker # Decision(q)
  BY DEF StageReply, StageRuns, WaitsOnFork
<1>2. "assess_plan" \notin S /\ x \in {"pending", "satisfied", "failed"}
  BY DEF Purpose
<1>3. \/ \E b \in {Capability, Dependency} : WriteRows(BlockRows(S, b))
      \/ WriteRows(CloseRows(S, x, Closed))
  BY DEF StageReply
<1> HIDE DEF S, x
<1>4. ASSUME NEW b \in {Capability, Dependency}, WriteRows(BlockRows(S, b)) PROVE PlanGood
  BY <1>1, <1>4, BlockRowsStep DEF PlanGood
<1>5. CASE WriteRows(CloseRows(S, x, Closed))
  <2>1. /\ PlanInv'
        /\ DOMAIN rows' = DOMAIN rows /\ plans' = plans
        /\ \A d \in DOMAIN rows :
              /\ rows'[d].applicability = rows[d].applicability
              /\ d \notin S => rows'[d] = rows[d]
    BY <1>1, <1>2, <1>5, CloseRowsStep
  <2>2. JudgedInv => JudgedInv'
    BY <1>2, <2>1, JudgedStays DEF PlanInv
  <2>3. QED BY <2>1, <2>2 DEF PlanGood
<1>6. QED BY <1>3, <1>4, <1>5

\* fork_stage: the row waits on a question of the current selection, or is refused it.
LEMMA ForkPlan ==
  ASSUME PlanInv, StoreInv, NEW c \in Purpose, StageForks(c)
  PROVE  PlanGood
<1> DEFINE S == {c}
           n == Len(questions)
           m == n + 1
           x == [state |-> "pending", intent |-> task.intent, under |-> selection.revision]
           Q == DOMAIN questions
           P == DOMAIN plans
<1>1. c \in DOMAIN rows /\ \A d \in S \cap DOMAIN rows, q \in Pending(questions) : rows[d].blocker # Decision(q)
  BY DEF StageForks, StageRuns, WaitsOnFork, Required
<1>2. \/ WriteRows(BlockRows(S, Dependency))
      \/ /\ Pending(questions) = {}
         /\ questions' = Append(questions, x)
         /\ rows' = [rows EXCEPT ![c] = BlockRow(rows[c], Decision(m))]
         /\ selection' = selection /\ plans' = plans /\ n < MaxQuestions
  BY DEF StageForks, WritePlan
<1>3. CASE WriteRows(BlockRows(S, Dependency))
  <2> DEFINE b == Dependency
  <2>1. b \in {Capability, Dependency} /\ WriteRows(BlockRows(S, b))
    BY <1>3
  <2> HIDE DEF S, b
  <2>2. QED BY <1>1, <2>1, BlockRowsStep DEF PlanGood
<1>4. CASE /\ Pending(questions) = {}
           /\ questions' = Append(questions, x)
           /\ rows' = [rows EXCEPT ![c] = BlockRow(rows[c], Decision(m))]
           /\ selection' = selection /\ plans' = plans /\ n < MaxQuestions
  <2>1. n \in Nat /\ Q = 1 .. n /\ questions \in Seq(Question)
    BY DEF StoreInv
  <2>2. questions' \in Seq(Question)
    BY StageForksKeeps DEF Good, StoreInv
  <2>3. /\ Len(questions') = m /\ m <= MaxQuestions /\ m \in DOMAIN questions' /\ Q \subseteq DOMAIN questions'
        /\ questions'[m] = x /\ \A q \in Pending(questions') : q = m
    BY <1>4, <2>1, StoreAssumption DEF Pending
  <2>4. Shape(rows, DOMAIN questions', P)
    BY <2>3, ShapeGrows DEF PlanInv, PlanTypes
  <2>5. DOMAIN rows' = DOMAIN rows /\ rows'[c] = BlockRow(rows[c], Decision(m))
        /\ \A d \in DOMAIN rows : d # c => rows'[d] = rows[d]
    BY <1>1, <1>4
  <2>6. /\ rows'[c] \in RowOf(DOMAIN questions', P) /\ rows'[c].handler = rows[c].handler
        /\ rows'[c].blocker = Decision(m) /\ rows'[c].applicability = rows[c].applicability
    <3> DEFINE u == rows'[c]
               row == rows[c]
               b == Decision(m)
               Q2 == DOMAIN questions'
    <3>1. row \in RowOf(Q2, P) /\ u = BlockRow(row, b)
      BY <1>1, <2>4, <2>5 DEF Shape
    <3>2. b \in {Capability, Dependency} \union { Decision(q) : q \in Q2 }
      BY <2>3
    <3> HIDE DEF u, row, b, Q2, P
    <3>3. u \in RowOf(Q2, P) /\ u.handler = row.handler /\ u.applicability = row.applicability /\ u.blocker = b
      BY <3>1, <3>2, RowBlocks
    <3>4. QED BY <3>3 DEF u, row, b, Q2, P
  <2>7. \A d \in DOMAIN rows :
            /\ rows'[d] \in RowOf(DOMAIN questions', DOMAIN plans') /\ rows'[d].handler = rows[d].handler
            /\ rows'[d].applicability = rows[d].applicability
            /\ rows'[d].blocker = rows[d].blocker \/ d \in Purpose
    BY <1>4, <2>4, <2>5, <2>6 DEF Shape
  <2>8. plans' \in Seq(Revision) /\ Ordered'
    BY <1>4 DEF PlanInv, PlanTypes, Ordered
  <2>9. \A q \in Pending(questions') : /\ questions'[q].under = selection.revision
                                      /\ \E d \in DOMAIN rows : rows'[d].blocker = Decision(q)
    BY <1>1, <2>3, <2>6
  <2> HIDE DEF x, m, n, Q
  <2>10. PlanInv'
    BY <1>4, <2>2, <2>3, <2>5, <2>7, <2>8, <2>9, RowsMove DEF Q
  <2>11. ASSUME JudgedInv PROVE JudgedInv'
    <3>1. "assess_plan" \in DOMAIN rows => rows'["assess_plan"] = rows["assess_plan"]
      BY <2>5 DEF Purpose
    <3>2. QED BY <1>4, <2>5, <2>7, <2>11, <3>1, JudgedStays DEF PlanInv
  <2>12. QED BY <2>10, <2>11 DEF PlanGood
<1>5. QED BY <1>2, <1>3, <1>4

\* record_plan_revision: the assessor's rows open again under the new revision.
LEMMA WorkPlan ==
  ASSUME PlanInv, StoreInv, PlanWork
  PROVE  PlanGood
<1> DEFINE n == Len(plans)
           m == n + 1
           x == [selection |-> selection.revision, verdict |-> "none"]
           Q == DOMAIN questions
           P == DOMAIN plans
           P2 == DOMAIN plans'
           Owes(c) == rows[c].handler = "assess_plan" /\ rows[c].applicability = "required"
           j == Judged(m)
           done == "satisfied"
           open == "pending"
<1>1. /\ questions' = questions /\ selection' = selection
      /\ plans' = Append(plans, x) /\ DOMAIN rows' = DOMAIN rows
      /\ "plan_work" \in DOMAIN rows /\ rows["plan_work"].applicability = "required"
      /\ \A c \in DOMAIN rows :
            rows'[c] = CASE c = "plan_work" -> CloseRow(rows[c], done, j)
                         [] Owes(c) -> CloseRow(rows[c], open, NoOutcome)
                         [] OTHER -> rows[c]
  BY DEF PlanWork, WritePlan, Required
<1>2. x \in Revision
  <2>1. selection.revision # 0
    BY <1>1 DEF PlanInv, Selected
  <2>2. QED BY <2>1, StoreAssumption DEF StoreInv, Revision
<1>3. /\ n \in Nat /\ P = 1 .. n /\ plans' \in Seq(Revision) /\ Len(plans') = m
      /\ P2 = 1 .. m /\ plans'[m] = x /\ \A p \in P : plans'[p] = plans[p]
  <2>1. plans \in Seq(Revision)
    BY DEF PlanInv, PlanTypes
  <2> HIDE DEF x
  <2>2. QED BY <1>1, <1>2, <2>1
<1>4. P \subseteq P2 /\ m \in P2
  BY <1>3
<1>5. Ordered'
  <2>1. \A p \in P : plans[p].selection <= selection.revision
    BY DEF PlanInv, Ordered
  <2>2. selection.revision <= selection.revision /\ x.selection = selection.revision
    BY DEF StoreInv
  <2>3. ASSUME NEW p \in P2 PROVE plans'[p].selection <= selection.revision
    BY <1>3, <2>1, <2>2
  <2>4. QED BY <1>1, <1>3, <2>2, <2>3 DEF Ordered
<1>6. \A c \in DOMAIN rows : rows[c] \in RowOf(Q, P2)
  BY <1>4, ShapeGrows DEF PlanInv, PlanTypes, Shape
<1>7. ASSUME NEW c \in DOMAIN rows
      PROVE  /\ rows'[c].applicability = rows[c].applicability
             /\ \/ rows'[c] = rows[c]
                \/ /\ rows'[c] \in RowOf(Q, P2)
                   /\ rows'[c].handler = rows[c].handler
                   /\ rows'[c].blocker.reason # "decision" /\ rows[c].blocker.reason # "decision"
             /\ c # "plan_work" /\ Owes(c) => rows'[c].execution = open
  <2> DEFINE u == rows'[c]
             row == rows[c]
  <2>1. CASE c = "plan_work"
    <3>1. /\ row \in RowOf(Q, P2) /\ u = CloseRow(row, done, j)
          /\ j \in {NoOutcome, Closed} \union { Judged(p) : p \in P2 }
          /\ done \in {"pending", "satisfied", "failed"}
          /\ row.blocker.reason # "decision"
      <4>1. row \in RowOf(Q, P2) /\ row.blocker.reason # "decision"
        BY <1>6, <2>1, OwnedRow DEF PlanInv
      <4>2. u = CloseRow(row, done, j)
        <5>1. rows[c].handler = "plan_work"
          BY <2>1 DEF PlanInv, PlanTypes, Shape
        <5>2. ~ Owes(c)
          BY <5>1
        <5>3. QED BY <1>1, <2>1, <5>2
      <4>3. j \in {NoOutcome, Closed} \union { Judged(p) : p \in P2 }
        BY <1>4
      <4>4. QED BY <4>1, <4>2, <4>3
    <3> HIDE DEF u, row, j, done, Q, P2
    <3>2. /\ u \in RowOf(Q, P2) /\ u.handler = row.handler /\ u.applicability = row.applicability
          /\ u.blocker.reason # "decision"
      BY <3>1, RowCloses
    <3>3. QED BY <2>1, <3>1, <3>2 DEF u, row
  <2>2. CASE c # "plan_work" /\ Owes(c)
    <3> DEFINE o == NoOutcome
    <3>1. /\ row \in RowOf(Q, P2) /\ u = CloseRow(row, open, o)
          /\ o \in {NoOutcome, Closed} \union { Judged(p) : p \in P2 }
          /\ open \in {"pending", "satisfied", "failed"}
          /\ row.blocker.reason # "decision"
      BY <1>1, <1>6, <2>2, OwnedRow DEF PlanInv
    <3> HIDE DEF u, row, o, open, Q, P2
    <3>2. /\ u \in RowOf(Q, P2) /\ u.handler = row.handler /\ u.applicability = row.applicability
          /\ u.blocker.reason # "decision" /\ u.execution = open
      BY <3>1, RowCloses
    <3>3. QED BY <2>2, <3>1, <3>2 DEF u, row
  <2>3. CASE c # "plan_work" /\ ~ Owes(c)
    BY <1>1, <2>3
  <2>4. QED BY <2>1, <2>2, <2>3
<1> HIDE DEF x, m, n
<1>8. PlanInv'
  BY <1>1, <1>3, <1>4, <1>5, <1>7, RowsOwned
<1>9. ASSUME JudgedInv PROVE JudgedInv'
  <2>1. Together'
    BY <1>1, <1>7, <1>9 DEF JudgedInv, Together
  <2>2. ASSUME "assess_plan" \in DOMAIN rows PROVE rows'["assess_plan"].execution = "pending"
    <3>1. rows["assess_plan"].applicability = "required" /\ rows["assess_plan"].handler = "assess_plan"
      BY <1>1, <1>9, <2>2 DEF JudgedInv, Together, PlanInv, PlanTypes, Shape
    <3>2. QED BY <1>7, <2>2, <3>1
  <2>3. VerdictIsLatest'
    BY <1>1, <2>2 DEF VerdictIsLatest
  <2>4. QED BY <2>1, <2>3 DEF JudgedInv
<1>10. QED BY <1>8, <1>9 DEF PlanGood

\* assess_plan, the mechanical leg: a failed verdict leaves no row satisfied.
LEMMA AssessPlanKeeps ==
  ASSUME PlanInv, StoreInv, AssessPlan
  PROVE  PlanGood
<1> DEFINE n == Len(plans)
           Q == DOMAIN questions
           P == DOMAIN plans
           Owes(c) == rows[c].handler = "assess_plan" /\ rows[c].applicability = "required"
           j == Judged(Latest)
           failed == "failed"
<1>1. PICK verdict \in {"pass", "fail"} :
        WritePlan(task, questions, selection, Assessed(verdict), [plans EXCEPT ![Latest].verdict = verdict])
  BY DEF AssessPlan
<1>2. /\ questions' = questions /\ selection' = selection
      /\ plans' = [plans EXCEPT ![Latest].verdict = verdict] /\ DOMAIN rows' = DOMAIN rows
      /\ \A c \in DOMAIN rows :
            rows'[c] = IF ~ Owes(c) THEN rows[c]
                       ELSE IF verdict = "pass" THEN BlockRow(rows[c], Capability)
                       ELSE BlockRow(CloseRow(rows[c], failed, j), Dependency)
  BY <1>1 DEF WritePlan, Assessed
<1>3. Latest = n /\ Latest \in P
  BY LatestIsLast DEF PlanInv, AssessPlan
<1>4. /\ n \in Nat /\ P = 1 .. n /\ DOMAIN plans' = P
      /\ plans' \in Seq(Revision) /\ Len(plans') = n
      /\ \A p \in P : plans'[p].selection = plans[p].selection
  <2>1. n \in Nat /\ P = 1 .. n /\ \A p \in 1 .. n : plans[p] \in Revision
    BY DEF PlanInv, PlanTypes
  <2>2. \A p \in 1 .. n : plans'[p] \in Revision /\ plans'[p].selection = plans[p].selection
    BY <1>2, <1>3, <2>1 DEF Revision
  <2>3. plans' \in [1 .. n -> Revision]
    BY <1>2, <2>1, <2>2
  <2>4. plans' \in Seq(Revision) /\ Len(plans') = n
    BY <2>1, <2>3
  <2>5. QED BY <2>1, <2>2, <2>3, <2>4
<1>5. Ordered'
  <2>1. ASSUME NEW p \in P
        PROVE plans'[p].selection <= plans'[n].selection /\ plans'[p].selection <= selection.revision
    <3>1. n \in P
      BY <1>3
    <3>2. QED BY <1>4, <2>1, <3>1 DEF PlanInv, Ordered
  <2>2. QED BY <1>2, <1>4, <2>1 DEF Ordered
<1>6. \A c \in DOMAIN rows : rows[c] \in RowOf(Q, P)
  BY DEF PlanInv, PlanTypes, Shape
<1>7. ASSUME NEW c \in DOMAIN rows
      PROVE  /\ rows'[c].applicability = rows[c].applicability
             /\ \/ rows'[c] = rows[c]
                \/ /\ rows'[c] \in RowOf(Q, P)
                   /\ rows'[c].handler = rows[c].handler
                   /\ rows'[c].blocker.reason # "decision" /\ rows[c].blocker.reason # "decision"
             /\ verdict = "pass" => rows'[c].execution = rows[c].execution /\ rows'[c].outcome = rows[c].outcome
             /\ verdict = "fail" /\ Owes(c) => rows'[c].execution = failed
  <2> DEFINE u == rows'[c]
             row == rows[c]
  <2>1. CASE ~ Owes(c)
    BY <1>2, <2>1
  <2>2. CASE Owes(c) /\ verdict = "pass"
    <3> DEFINE b == Capability
    <3>1. /\ row \in RowOf(Q, P) /\ u = BlockRow(row, b)
          /\ b \in {Capability, Dependency} \union { Decision(q) : q \in Q } /\ b.reason # "decision"
          /\ row.blocker.reason # "decision"
      BY <1>2, <1>6, <2>2, OwnedRow, NoForkReason DEF PlanInv
    <3> HIDE DEF u, row, b, Q, P
    <3>2. /\ u \in RowOf(Q, P) /\ u.handler = row.handler /\ u.applicability = row.applicability
          /\ u.execution = row.execution /\ u.outcome = row.outcome /\ u.blocker = b
      BY <3>1, RowBlocks
    <3>3. QED BY <2>2, <3>1, <3>2 DEF u, row
  <2>3. CASE Owes(c) /\ verdict = "fail"
    <3> DEFINE b == Dependency
               v == CloseRow(row, failed, j)
    <3>1. /\ row \in RowOf(Q, P) /\ u = BlockRow(v, b) /\ v = CloseRow(row, failed, j)
          /\ b \in {Capability, Dependency} \union { Decision(q) : q \in Q } /\ b.reason # "decision"
          /\ row.blocker.reason # "decision"
          /\ failed \in {"pending", "satisfied", "failed"}
          /\ j \in {NoOutcome, Closed} \union { Judged(p) : p \in P }
      BY <1>2, <1>3, <1>6, <2>3, OwnedRow, NoForkReason DEF PlanInv
    <3> HIDE DEF u, v, row, b, j, failed, Q, P
    <3>2. /\ v \in RowOf(Q, P) /\ v.handler = row.handler /\ v.applicability = row.applicability
          /\ v.execution = failed
      BY <3>1, RowCloses
    <3>3. /\ u \in RowOf(Q, P) /\ u.handler = v.handler /\ u.applicability = v.applicability
          /\ u.execution = v.execution /\ u.blocker = b
      BY <3>1, <3>2, RowBlocks
    <3>4. QED BY <2>3, <3>1, <3>2, <3>3 DEF u, row
  <2>4. QED BY <2>1, <2>2, <2>3
<1>8. PlanInv'
  BY <1>2, <1>4, <1>5, <1>7, RowsOwned
<1>9. ASSUME JudgedInv PROVE JudgedInv'
  <2>1. Together'
    BY <1>2, <1>7, <1>9 DEF JudgedInv, Together
  <2>2. VerdictIsLatest'
    <3>1. CASE verdict = "pass"
      BY <1>2, <1>4, <1>7, <1>9, <3>1 DEF JudgedInv, VerdictIsLatest
    <3>2. CASE verdict = "fail"
      <4>1. "assess_plan" \in DOMAIN rows /\ Owes("assess_plan")
        BY DEF AssessPlan, Required, PlanInv, PlanTypes, Shape
      <4>2. rows'["assess_plan"].execution = "failed"
        BY <1>7, <3>2, <4>1
      <4>3. QED BY <4>2 DEF VerdictIsLatest
    <3>3. QED BY <3>1, <3>2
  <2>3. QED BY <2>1, <2>2 DEF JudgedInv
<1>10. QED BY <1>8, <1>9 DEF PlanGood

\* judge_plan: a verdict is written on the last revision, by rows the assessor owns.
LEMMA JudgePlanKeeps ==
  ASSUME PlanInv, StoreInv, JudgePlan
  PROVE  PlanGood
<1> DEFINE Q == DOMAIN questions
           P == DOMAIN plans
           j == Judged(Latest)
           done == "satisfied"
           failed == "failed"
           owed == OpenRows("assess_plan")
           late == CloseRows(owed, failed, j)
<1>1. PICK S \in Written :
        \/ \E b \in {Capability, Dependency} : WriteRows(BlockRows(S, b))
        \/ \E x \in {done, failed} : WriteRows(CloseRows(S, x, j))
        \/ WriteRows([c \in DOMAIN rows |-> IF c \in S THEN BlockRow(late[c], Dependency) ELSE late[c]])
  BY DEF JudgePlan
<1>2. Latest = Len(plans) /\ Latest \in P
  BY LatestIsLast DEF PlanInv, JudgePlan
<1>3. /\ "assess_plan" \in DOMAIN rows /\ "assess_plan" \in owed /\ "assess_plan" \in S
      /\ \A c \in S \cap DOMAIN rows : c \in owed
  <2>1. /\ "assess_plan" \in DOMAIN rows /\ rows["assess_plan"].handler = "assess_plan"
        /\ rows["assess_plan"].applicability = "required" /\ rows["assess_plan"].execution = "pending"
    BY DEF JudgePlan, Required, PlanInv, PlanTypes, Shape
  <2>2. "assess_plan" \in owed
    BY <2>1 DEF OpenRows
  <2>3. S = {"assess_plan"} \/ S = owed
    BY <1>1 DEF Written
  <2>4. QED BY <2>1, <2>2, <2>3
<1>4. \A c \in owed : c \in DOMAIN rows /\ rows[c].blocker.reason # "decision"
  BY OwnedRow DEF OpenRows, PlanInv
<1>5. \A c \in S \cap DOMAIN rows, q \in Pending(questions) : rows[c].blocker # Decision(q)
  BY <1>3, <1>4 DEF Decision
<1>6. j \in {NoOutcome, Closed} \union { Judged(p) : p \in P }
  BY <1>2
<1>7. failed \in {"pending", "satisfied", "failed"} /\ \A x \in {done, failed} : x \in {"pending", "satisfied", "failed"}
  OBVIOUS
<1>8. ASSUME NEW b \in {Capability, Dependency}, WriteRows(BlockRows(S, b)) PROVE PlanGood
  BY <1>5, <1>8, BlockRowsStep DEF PlanGood
<1>9. ASSUME NEW x \in {done, failed}, WriteRows(CloseRows(S, x, j)) PROVE PlanGood
  <2>1. x \in {"pending", "satisfied", "failed"}
    BY <1>7
  <2> HIDE DEF j
  <2>2. /\ PlanInv'
        /\ DOMAIN rows' = DOMAIN rows /\ plans' = plans
        /\ \A c \in DOMAIN rows :
              /\ rows'[c].applicability = rows[c].applicability
              /\ c \in S => rows'[c].execution = x /\ rows'[c].outcome = j
              /\ c \notin S => rows'[c] = rows[c]
    BY <1>5, <1>6, <1>9, <2>1, CloseRowsStep
  <2>3. JudgedInv => JudgedInv'
    BY <1>2, <1>3, <2>2 DEF JudgedInv, Together, VerdictIsLatest, j
  <2>4. QED BY <2>2, <2>3 DEF PlanGood
<1>10. ASSUME WriteRows([c \in DOMAIN rows |-> IF c \in S THEN BlockRow(late[c], Dependency) ELSE late[c]])
       PROVE PlanGood
  <2>1. /\ questions' = questions /\ selection' = selection /\ plans' = plans
        /\ DOMAIN rows' = DOMAIN rows
        /\ \A c \in DOMAIN rows : rows'[c] = IF c \in S THEN BlockRow(late[c], Dependency) ELSE late[c]
    BY <1>10 DEF WriteRows, WritePlan
  <2>2. \A c \in DOMAIN rows : late[c] = IF c \in owed THEN CloseRow(rows[c], failed, j) ELSE rows[c]
    BY DEF CloseRows
  <2>3. \A c \in DOMAIN rows : rows[c] \in RowOf(Q, P)
    BY DEF PlanInv, PlanTypes, Shape
  <2> HIDE DEF late
  <2>4. ASSUME NEW c \in DOMAIN rows
        PROVE  /\ rows'[c].applicability = rows[c].applicability
               /\ \/ rows'[c] = rows[c]
                  \/ /\ rows'[c] \in RowOf(Q, P)
                     /\ rows'[c].handler = rows[c].handler
                     /\ rows'[c].blocker.reason # "decision" /\ rows[c].blocker.reason # "decision"
               /\ c \in owed => rows'[c].execution = failed
    <3> DEFINE u == rows'[c]
               v == late[c]
               row == rows[c]
               b == Dependency
    <3>1. CASE c \notin owed
      BY <1>3, <2>1, <2>2, <3>1
    <3>2. CASE c \in owed
      <4>1. /\ row \in RowOf(Q, P) /\ v = CloseRow(row, failed, j)
            /\ (u = v \/ u = BlockRow(v, b))
            /\ b \in {Capability, Dependency} \union { Decision(q) : q \in Q } /\ b.reason # "decision"
            /\ row.blocker.reason # "decision"
        BY <1>4, <2>1, <2>2, <2>3, <3>2, NoForkReason
      <4> HIDE DEF u, v, row, b, j, failed, Q, P
      <4>2. /\ v \in RowOf(Q, P) /\ v.handler = row.handler /\ v.applicability = row.applicability
            /\ v.execution = failed /\ v.blocker.reason # "decision"
        BY <1>6, <1>7, <4>1, RowCloses
      <4>3. /\ u \in RowOf(Q, P) /\ u.handler = v.handler /\ u.applicability = v.applicability
            /\ u.execution = v.execution /\ u.blocker.reason # "decision"
        BY <4>1, <4>2, RowBlocks
      <4>4. QED BY <4>1, <4>2, <4>3 DEF u, row
    <3>3. QED BY <3>1, <3>2
  <2>5. PlanInv'
    <3>1. plans' \in Seq(Revision) /\ DOMAIN plans \subseteq DOMAIN plans' /\ Ordered'
      BY <2>1 DEF PlanInv, PlanTypes, Ordered
    <3>2. QED BY <2>1, <2>4, <3>1, RowsOwned
  <2>6. JudgedInv => JudgedInv'
    BY <1>3, <2>1, <2>4 DEF JudgedInv, Together, VerdictIsLatest
  <2>7. QED BY <2>5, <2>6 DEF PlanGood
<1>11. QED BY <1>1, <1>8, <1>9, <1>10

-----------------------------------------------------------------------------
(* Steps that leave the plan alone.                                         *)

\* What writes neither the questions nor the plan.
LEMMA PlanIdle ==
  ASSUME PlanInv, UNCHANGED <<questions, plan>>
  PROVE  PlanGood
<1>1. Len(questions) <= Len(questions') /\ Len(questions') <= MaxQuestions
  BY StoreAssumption DEF PlanInv, PlanTypes
<1>2. QED BY <1>1, PlanStays DEF PlanGood

\* publish_question asks under no selection.
LEMMA PublishPlan ==
  ASSUME PlanInv, StoreInv, PublishQuestion
  PROVE  PlanGood
<1> DEFINE n == Len(questions)
           m == n + 1
           x == [state |-> "pending", intent |-> task.intent, under |-> 0]
<1>1. /\ questions' = Append(questions, x) /\ UNCHANGED plan /\ n < MaxQuestions
      /\ Pending(questions) = {} /\ questions \in Seq(Question) /\ x.under = 0
  BY DEF PublishQuestion, StoreInv
<1>2. /\ n \in Nat /\ Len(questions') = m /\ m <= MaxQuestions /\ DOMAIN questions \subseteq DOMAIN questions'
      /\ \A q \in Pending(questions') : questions'[q] = x
  BY <1>1, StoreAssumption DEF Pending
<1>3. Len(questions) <= Len(questions') /\ Len(questions') <= MaxQuestions
  BY <1>2
<1>4. \A q \in Pending(questions') : questions'[q].under = 0
  BY <1>1, <1>2
<1> HIDE DEF x, m, n
<1>5. QED BY <1>1, <1>2, <1>3, <1>4, PlanStays DEF PlanGood

\* Questions superseded where the plan stays.
LEMMA SupersedePlan ==
  ASSUME PlanInv, StoreInv, NEW S, questions' = Superseded(questions, S), UNCHANGED plan
  PROVE  PlanGood
<1>1. questions \in Seq(Question) /\ Len(questions) <= MaxQuestions
  BY DEF StoreInv, PlanInv, PlanTypes
<1>2. /\ questions' \in Seq(Question) /\ DOMAIN questions' = DOMAIN questions
      /\ Pending(questions') = Pending(questions) \ S
  BY <1>1, SupersededLemma
<1>3. Len(questions') = Len(questions)
  BY <1>1, <1>2
<1>4. \A q \in Pending(questions') : q \in Pending(questions) /\ questions'[q] = questions[q]
  BY <1>2 DEF Pending, Superseded
<1> HIDE DEF Pending, Superseded
<1>5. Len(questions) <= Len(questions') /\ Len(questions') <= MaxQuestions
  BY <1>1, <1>3, StoreAssumption
<1>6. QED BY <1>2, <1>4, <1>5, PlanStays DEF PlanGood

-----------------------------------------------------------------------------
(* The proof of the criteria.                                               *)

Obligation == [applicability : {"required", "unresolved"}, execution : {"pending", "satisfied", "stale"}]

ProofInv ==
    /\ DOMAIN obligations \subseteq Criteria
    /\ \A c \in DOMAIN obligations : obligations[c] \in Obligation
    /\ evidence \in [Criteria -> {"none", "current", "stale"}]
    /\ attempts \in [Attempts -> AttemptState]
    /\ CompletedIsProven

\* A completion stands while the task stays completed and its proof untouched.
LEMMA ProofStays ==
  ASSUME ProofInv, EndStep, UNCHANGED <<obligations, evidence>>,
         attempts' \in [Attempts -> AttemptState],
         task.lifecycle = "completed" /\ task'.lifecycle = "completed" => UNCHANGED rows,
         Complete => UNCHANGED rows
  PROVE  ProofInv'
<1>1. ASSUME task'.lifecycle = "completed"
      PROVE  /\ DOMAIN obligations = Criteria
             /\ \A c \in Criteria : /\ obligations[c].execution = "satisfied"
                                    /\ obligations[c].applicability = "required"
                                    /\ evidence[c] # "stale"
             /\ \A c \in DOMAIN rows' : rows'[c].execution = "satisfied"
  <2>1. CASE task.lifecycle = "completed"
    BY <1>1, <2>1 DEF ProofInv, CompletedIsProven
  <2>2. CASE task.lifecycle # "completed"
    <3>1. Complete
      BY <1>1, <2>2 DEF EndStep
    <3>2. QED BY <3>1 DEF Complete, Proven
  <2>3. QED BY <2>1, <2>2
<1>2. QED BY <1>1 DEF ProofInv, CompletedIsProven

\* What only an open task does.
LEMMA OpenProof ==
  ASSUME ProofInv, EndStep, Open, UNCHANGED proof, Complete => UNCHANGED rows
  PROVE  ProofInv'
<1>1. task.lifecycle # "completed"
  BY DEF Open, Terminal
<1>2. UNCHANGED <<obligations, evidence>> /\ attempts' \in [Attempts -> AttemptState]
  BY DEF proof, ProofInv
<1>3. QED BY <1>1, <1>2, ProofStays

\* The transactions on attempts change no proof but their own state.
LEMMA AttemptProof ==
  ASSUME ProofInv, EndStep, NEW a \in Attempts,
         PlanAttempt(a) \/ RunAttempt(a) \/ SettleAttempt(a) \/ ReconcileAttempt(a)
  PROVE  ProofInv'
<1>1. UNCHANGED <<obligations, evidence, rows>>
  BY DEF PlanAttempt, RunAttempt, SettleAttempt, ReconcileAttempt, plan
<1>2. PICK s \in AttemptState : attempts' = [attempts EXCEPT ![a] = s]
  BY DEF PlanAttempt, RunAttempt, SettleAttempt, ReconcileAttempt, AttemptState
<1>3. attempts' \in [Attempts -> AttemptState]
  BY <1>2 DEF ProofInv
<1>4. QED BY <1>1, <1>3, ProofStays

\* materialize_obligations and insert_evidence_for_task.
LEMMA ObligationProof ==
  ASSUME ProofInv, MaterializeObligations \/ InsertEvidence
  PROVE  ProofInv'
<1>1. CASE MaterializeObligations
  <2>1. PICK made \in SUBSET (Criteria \ DOMAIN obligations) :
            obligations' = [c \in DOMAIN obligations \union made |->
                IF c \in DOMAIN obligations THEN obligations[c]
                ELSE [applicability |-> "required", execution |-> "pending"]]
    BY <1>1 DEF MaterializeObligations
  <2>2. DOMAIN obligations' \subseteq Criteria /\ \A c \in DOMAIN obligations' : obligations'[c] \in Obligation
    BY <2>1 DEF ProofInv, Obligation
  <2>3. task'.lifecycle # "completed" /\ evidence' = evidence /\ attempts' = attempts
    BY <1>1 DEF MaterializeObligations, Open, Terminal
  <2>4. QED BY <2>2, <2>3 DEF ProofInv, CompletedIsProven
<1>2. CASE InsertEvidence
  <2>1. /\ obligations' = [c \in Criteria |-> [obligations[c] EXCEPT !.execution = "satisfied"]]
        /\ evidence' = [c \in Criteria |-> IF evidence[c] = "none" THEN "current" ELSE evidence[c]]
        /\ task' = task /\ attempts' = attempts /\ rows' = rows /\ DOMAIN obligations = Criteria
    BY <1>2 DEF InsertEvidence, plan
  <2>2. \A c \in Criteria : /\ obligations'[c] \in Obligation
                            /\ obligations'[c].execution = "satisfied"
                            /\ obligations'[c].applicability = obligations[c].applicability
    BY <2>1 DEF ProofInv, Obligation
  <2>3. /\ evidence' \in [Criteria -> {"none", "current", "stale"}]
        /\ \A c \in Criteria : evidence[c] # "stale" => evidence'[c] # "stale"
    BY <2>1 DEF ProofInv
  <2>4. DOMAIN obligations' = Criteria
    BY <2>1
  <2>5. CompletedIsProven'
    BY <2>1, <2>2, <2>3, <2>4 DEF ProofInv, CompletedIsProven
  <2>6. QED BY <2>1, <2>2, <2>3, <2>4, <2>5 DEF ProofInv
<1>3. QED BY <1>1, <1>2

\* invalidate_evidence and mark_applicability_unresolved reopen a completed task.
LEMMA DoubtProof ==
  ASSUME ProofInv, task \in Task, NEW c \in Criteria,
         InvalidateEvidence(c) \/ MarkApplicabilityUnresolved(c)
  PROVE  ProofInv'
<1>1. task'.lifecycle # "completed"
  BY DEF InvalidateEvidence, MarkApplicabilityUnresolved, BlockForeign, Task
<1>2. /\ DOMAIN obligations' = DOMAIN obligations /\ attempts' = attempts
      /\ \A d \in DOMAIN obligations : obligations'[d] \in Obligation
  <2>1. CASE InvalidateEvidence(c)
    BY <2>1 DEF InvalidateEvidence, ProofInv, Obligation
  <2>2. CASE MarkApplicabilityUnresolved(c)
    BY <2>2 DEF MarkApplicabilityUnresolved, ProofInv, Obligation
  <2>3. QED BY <2>1, <2>2
<1>3. evidence' \in [Criteria -> {"none", "current", "stale"}]
  BY DEF InvalidateEvidence, MarkApplicabilityUnresolved, ProofInv
<1>4. QED BY <1>1, <1>2, <1>3 DEF ProofInv, CompletedIsProven

-----------------------------------------------------------------------------
(* The invariance of the plan and of the proof.                             *)

FullInv == StoreInv /\ PlanInv /\ ProofInv

\* A created task satisfies them.
LEMMA FullInit == Init => FullInv /\ JudgedInv
<1> SUFFICES ASSUME Init PROVE FullInv /\ JudgedInv
  OBVIOUS
<1>1. StoreInv
  BY StoreInit
<1>2. PlanInv
  <2>1. questions = << >> /\ rows = << >> /\ plans = << >> /\ selection.revision = 0
    BY DEF Init
  <2>2. PlanTypes
    BY <2>1, StoreAssumption DEF PlanTypes, Shape
  <2>3. Selected /\ Ordered /\ ForkBelongsToSelection
    BY <2>1 DEF Selected, Ordered, ForkBelongsToSelection, Pending
  <2>4. QED BY <2>2, <2>3 DEF PlanInv
<1>3. ProofInv
  BY DEF Init, ProofInv, CompletedIsProven, AttemptState
<1>4. JudgedInv
  BY DEF Init, JudgedInv, Together, VerdictIsLatest
<1>5. QED BY <1>1, <1>2, <1>3, <1>4 DEF FullInv

\* Every step keeps the invariant of the plan.
LEMMA PlanStep == PlanInv /\ StoreInv /\ [Next]_vars => PlanGood
<1> SUFFICES ASSUME PlanInv, StoreInv, [Next]_vars PROVE PlanGood
  OBVIOUS
<1>1. CASE UNCHANGED vars
  BY <1>1, PlanIdle DEF vars
<1>2. CASE PublishQuestion
  BY <1>2, PublishPlan
<1>3. ASSUME NEW q \in DOMAIN questions, AnswerQuestion(q) PROVE PlanGood
  BY <1>3, AnswerPlan
<1>4. CASE Steer \/ Cancel \/ Complete
  BY <1>4, SupersedePlan DEF Steer, Cancel, Complete
<1>5. CASE PauseForWorkflowOff \/ MarkBlocked \/ CompleteRefused
  BY <1>5, PlanIdle DEF PauseForWorkflowOff, MarkBlocked, CompleteRefused
<1>6. ASSUME NEW a \in Attempts,
             PlanAttempt(a) \/ RunAttempt(a) \/ SettleAttempt(a) \/ ReconcileAttempt(a)
      PROVE  PlanGood
  BY <1>6, PlanIdle DEF PlanAttempt, RunAttempt, SettleAttempt, ReconcileAttempt
<1>7. CASE MaterializeObligations \/ InsertEvidence
  BY <1>7, PlanIdle DEF MaterializeObligations, InsertEvidence
<1>8. ASSUME NEW c \in Criteria, InvalidateEvidence(c) PROVE PlanGood
  BY <1>8, PlanIdle DEF InvalidateEvidence
<1>9. ASSUME NEW c \in Criteria, MarkApplicabilityUnresolved(c) PROVE PlanGood
  BY <1>9, UnresolvedPlan DEF MarkApplicabilityUnresolved
<1>10. ASSUME NEW r \in Requests, Select(r) PROVE PlanGood
  BY <1>10, SelectPlan
<1>11. ASSUME NEW r \in Requests, Reselect(r) PROVE PlanGood
  BY <1>11, ReselectPlan
<1>12. CASE HoldForPlanGate
  BY <1>12, PlanIdle DEF HoldForPlanGate, WritePlan, plan
<1>13. CASE MarkPlanUnresolved
  BY <1>13, UnresolvedPlan DEF MarkPlanUnresolved, WriteRows, WritePlan
<1>14. CASE FrameGoal
  BY <1>14, FramePlan
<1>15. CASE PlanWork
  BY <1>15, WorkPlan
<1>16. CASE AssessPlan
  BY <1>16, AssessPlanKeeps
<1>17. CASE JudgePlan
  BY <1>17, JudgePlanKeeps
<1>18. ASSUME NEW c \in Purpose, StageReply(c) PROVE PlanGood
  BY <1>18, ReplyPlan
<1>19. ASSUME NEW c \in Purpose, StageForks(c) PROVE PlanGood
  BY <1>19, ForkPlan
<1>20. QED
  BY <1>1, <1>2, <1>3, <1>4, <1>5, <1>6, <1>7, <1>8, <1>9, <1>10, <1>11, <1>12, <1>13,
     <1>14, <1>15, <1>16, <1>17, <1>18, <1>19 DEF Next

\* Every step keeps the invariant of the proof.
LEMMA ProofStep == ProofInv /\ StoreInv /\ [Next]_vars => ProofInv'
<1> SUFFICES ASSUME ProofInv, StoreInv, [Next]_vars PROVE ProofInv'
  OBVIOUS
<1>1. EndStep /\ task \in Task
  BY StoreStep DEF Good, StoreInv
<1>2. Complete => UNCHANGED rows
  BY DEF Complete, plan
<1>3. ASSUME UNCHANGED <<proof, rows>> PROVE ProofInv'
  BY <1>1, <1>3, ProofStays DEF proof, ProofInv
<1>4. CASE UNCHANGED vars
  BY <1>3, <1>4 DEF vars, plan
<1>5. CASE PublishQuestion \/ Steer \/ PauseForWorkflowOff \/ Cancel \/ MarkBlocked \/ Complete \/ CompleteRefused
  BY <1>3, <1>5 DEF PublishQuestion, Steer, PauseForWorkflowOff, Cancel, MarkBlocked, Complete,
                    CompleteRefused, plan
<1>6. ASSUME NEW q \in DOMAIN questions, AnswerQuestion(q) PROVE ProofInv'
  BY <1>1, <1>2, <1>6, OpenProof DEF AnswerQuestion
<1>7. ASSUME NEW a \in Attempts,
             PlanAttempt(a) \/ RunAttempt(a) \/ SettleAttempt(a) \/ ReconcileAttempt(a)
      PROVE  ProofInv'
  BY <1>1, <1>7, AttemptProof
<1>8. CASE MaterializeObligations \/ InsertEvidence
  BY <1>8, ObligationProof
<1>9. ASSUME NEW c \in Criteria, InvalidateEvidence(c) \/ MarkApplicabilityUnresolved(c) PROVE ProofInv'
  BY <1>1, <1>9, DoubtProof
<1>10. ASSUME Open, UNCHANGED proof PROVE ProofInv'
  BY <1>1, <1>2, <1>10, OpenProof
<1>11. ASSUME NEW r \in Requests, Select(r) \/ Reselect(r) PROVE ProofInv'
  BY <1>10, <1>11 DEF Select, Reselect, WriteRows, WritePlan
<1>12. CASE HoldForPlanGate \/ MarkPlanUnresolved
  BY <1>10, <1>12 DEF HoldForPlanGate, MarkPlanUnresolved, WriteRows, WritePlan
<1>13. CASE FrameGoal \/ PlanWork
  BY <1>10, <1>13 DEF FrameGoal, PlanWork, Required, WriteRows, WritePlan
<1>14. CASE AssessPlan \/ JudgePlan
  BY <1>10, <1>14 DEF AssessPlan, JudgePlan, Required, WriteRows, WritePlan
<1>15. ASSUME NEW c \in Purpose, StageReply(c) \/ StageForks(c) PROVE ProofInv'
  BY <1>10, <1>15 DEF StageReply, StageForks, StageRuns, Required, WriteRows, WritePlan
<1>16. QED
  BY <1>4, <1>5, <1>6, <1>7, <1>8, <1>9, <1>11, <1>12, <1>13, <1>14, <1>15 DEF Next

\* The invariant of the task, its plan and its proof holds throughout.
LEMMA FullInvariant == Spec => []FullInv
<1>1. FullInv /\ [Next]_vars => FullInv'
  BY StoreStep, PlanStep, ProofStep DEF FullInv, Good, PlanGood
<1>2. QED BY <1>1, FullInit, PTL DEF Spec

\* It types every table.
LEMMA FullTypes == FullInv => TypeOK
<1> SUFFICES ASSUME FullInv PROVE TypeOK
  OBVIOUS
<1>1. /\ task \in [lifecycle : Lifecycle, intent : 1 .. MaxIntent,
                   hold : {"none", "unassessed", "paused"}, planBlock : BOOLEAN]
      /\ selection.revision \in 0 .. MaxSelections
      /\ \A q \in DOMAIN questions :
          questions[q] \in [state : {"pending", "answered", "superseded"},
                            intent : 1 .. MaxIntent, under : 0 .. MaxSelections]
  <2>1. task \in Task /\ selection.revision \in 0 .. MaxSelections /\ questions \in Seq(Question)
    BY DEF FullInv, StoreInv
  <2>2. \A q \in DOMAIN questions : questions[q] \in Question
    BY <2>1
  <2>3. QED BY <2>1, <2>2 DEF Task, HoldKind, Question
<1>2. /\ Len(questions) <= MaxQuestions
      /\ DOMAIN rows \subseteq SELECTION_CAPABILITIES
      /\ \A c \in DOMAIN rows : rows[c] \in Row
      /\ \A p \in DOMAIN plans :
          plans[p] \in [selection : 1 .. MaxSelections, verdict : {"none", "pass", "fail"}]
  <2>1. Len(questions) <= MaxQuestions /\ plans \in Seq(Revision)
    BY DEF FullInv, PlanInv, PlanTypes
  <2>2. \A p \in DOMAIN plans : plans[p] \in Revision
    BY <2>1
  <2>3. /\ DOMAIN rows \subseteq SELECTION_CAPABILITIES
        /\ \A c \in DOMAIN rows : rows[c] \in RowOf(DOMAIN questions, DOMAIN plans)
    BY DEF FullInv, PlanInv, PlanTypes, Shape
  <2>4. Row = RowOf(DOMAIN questions, DOMAIN plans)
    BY DEF Row, RowOf
  <2>5. QED BY <2>1, <2>2, <2>3, <2>4 DEF Revision
<1>3. /\ DOMAIN obligations \subseteq Criteria
      /\ \A c \in DOMAIN obligations :
          obligations[c] \in [applicability : {"required", "unresolved"},
                              execution : {"pending", "satisfied", "stale"}]
      /\ evidence \in [Criteria -> {"none", "current", "stale"}]
      /\ attempts \in [Attempts -> AttemptState]
  BY DEF FullInv, ProofInv, Obligation
<1>4. QED BY <1>1, <1>2, <1>3 DEF TypeOK

\* A task's tables keep their columns, and a pending fork belongs to the current
\* selection, with a row of it that waits on exactly that question.
THEOREM ForkSafe == Spec => [](TypeOK /\ ForkBelongsToSelection)
<1>1. FullInv => TypeOK /\ ForkBelongsToSelection
  BY FullTypes DEF FullInv, PlanInv
<1>2. QED BY <1>1, FullInvariant, PTL

\* No held task runs, no fork outlives its selection, and where no rule learned
\* between two selections of the same facts changes what the plan's two stages
\* owe, no gate is open on a plan nobody judged.
THEOREM PlanSafe == ASSUME SettledNeeds PROVE Spec => []PlanHoldsTask
<1>1. Init => FullInv /\ JudgedInv
  BY FullInit
<1>2. FullInv /\ JudgedInv /\ [Next]_vars => FullInv' /\ JudgedInv'
  BY StoreStep, PlanStep, ProofStep DEF FullInv, Good, PlanGood
<1>3. FullInv /\ JudgedInv => PlanHoldsTask
  BY FullTypes, JudgedGate DEF FullInv, PlanInv, StoreInv, PlanHoldsTask
<1>4. QED BY <1>1, <1>2, <1>3, PTL DEF Spec

\* Writes of the plan release what the plan held and nothing else.
THEOREM ReleaseSafe == Spec => PlanReleasesItsOwn
<1>1. StoreInv /\ [Next]_vars =>
        [ plan' # plan => ~ /\ task'.lifecycle = "blocked" /\ task'.planBlock
                            /\ ~ Held(task', rows')
                            /\ NoOtherSource(questions, obligations)' ]_vars
  BY StoreStep DEF Good, SettleStep
<1>2. Spec => PlanWritesSettle
  BY <1>1, StoreInvariant, PTL DEF Spec, PlanWritesSettle
<1>3. QED BY <1>2, ForeignSafe DEF PlanReleasesItsOwn

\* The end of a task is proven, final, and leaves no question open.
THEOREM EndSafe == Spec => EndsAreProven
<1>1. FullInv => CompletedIsProven
  BY DEF FullInv, ProofInv
<1>2. Spec => [](OneLiveQuestion /\ CompletedIsProven)
  BY <1>1, FullInvariant, QuestionSafe, PTL
<1>3. QED BY <1>2, EndsSafe DEF EndsAreProven

-----------------------------------------------------------------------------
(***************************************************************************)
(* The effects of a task.  The invariant says what an attempt, the shared  *)
(* read it waits in and the write worker know of each other.               *)
(***************************************************************************)
Identities == [ino : Nat, birth : Nat]
FlightRecord == [key : [ino : Nat, mode : Mode], members : SUBSET EffectId, got : Nat \cup {-1}]
EffectStates == {"none", "planned", "running", "confirmed", "rejected", "unknown"}
EffectRecord == [class : EffectClass \cup {"none"}, mode : Mode \cup {"none"}, state : EffectStates,
                 expected : Identities, since : Nat, got : Nat \cup {-1}, touched : SUBSET Identities]
WritingRecord == [of : EffectId \cup {"none"}, at : {"idle", "probe", "opened", "helper", "truncated"},
                  inode : Nat, file : Identities]

\* A shared read that has been made was made after each of its members was admitted.
GoodFlights ==
    {f \in FlightRecord : \A e \in f.members : /\ effects[e].state # "none"
                                               /\ f.got # -1 => effects[e].since <= f.got}

EffectsTypeOK ==
    /\ file \in [ino : Nat, birth : Nat, bytes : Nat]
    /\ writing \in WritingRecord
    /\ effects \in [EffectId -> EffectRecord]

\* The worker holds a running attempt, and writes to the file that was admitted.
WorkerIsAdmitted ==
    /\ writing.at # "idle" => writing.of \in EffectId /\ effects[writing.of].state = "running"
    /\ writing.at \in {"helper", "truncated"} => writing.file = effects[writing.of].expected

\* What an attempt may have touched and read, by its state.
AttemptIsTrue ==
    \A e \in EffectId :
        /\ effects[e].touched # {} =>
              \/ effects[e].state \in {"confirmed", "unknown"}
              \/ effects[e].state = "running" /\ writing.of = e /\ writing.at = "truncated"
        /\ effects[e].touched \subseteq {effects[e].expected}
        /\ effects[e].since <= file.bytes
        /\ effects[e].got # -1 => effects[e].since <= effects[e].got

EffectsInv == EffectsTypeOK /\ flights \in Seq(GoodFlights) /\ WorkerIsAdmitted /\ AttemptIsTrue

\* The scan of Manned, one flight at a time.
MannedStep(F, all, n) ==
    IF n = 0 THEN << >>
    ELSE IF all[n].members # {} THEN Append(F[n - 1], all[n]) ELSE F[n - 1]

MannedScan(all) == CHOOSE F : F = [n \in 0 .. Len(all) |-> MannedStep(F, all, n)]

LEMMA MannedIsScan == \A all : Manned(all) = MannedScan(all)[Len(all)]
BY DEF Manned, MannedScan, MannedStep

\* The flights that keep a member are flights there were.
LEMMA MannedIs ==
  ASSUME NEW S, NEW all \in Seq(S)
  PROVE  Manned(all) \in Seq(S)
<1> DEFINE N == Len(all)
<1>0. N \in Nat /\ DOMAIN all = 1 .. N
  OBVIOUS
<1> DEFINE G == {k \in 0 .. N : \E F : F = [n \in 0 .. k |-> MannedStep(F, all, n)]}
<1>1. 0 \in G
  <2> DEFINE F0 == [n \in 0 .. 0 |-> <<>>]
  <2>1. F0 = [n \in 0 .. 0 |-> MannedStep(F0, all, n)]
    BY DEF MannedStep
  <2>2. 0 \in 0 .. N
    BY <1>0
  <2> HIDE DEF F0
  <2>3. QED BY <2>1, <2>2
<1> HIDE DEF N
<1>2. ASSUME NEW k \in 0 .. N, k # N, k \in G PROVE k + 1 \in G
  <2>1. PICK F : F = [n \in 0 .. k |-> MannedStep(F, all, n)]
    BY <1>2
  <2> DEFINE H == [n \in 0 .. k + 1 |-> IF n <= k THEN F[n] ELSE MannedStep(F, all, n)]
  <2>2. \A n \in 0 .. k : H[n] = F[n]
    BY <1>0
  <2>3. ASSUME NEW n \in 0 .. k + 1 PROVE H[n] = MannedStep(H, all, n)
    <3>1. n = 0 \/ (n - 1 \in 0 .. k /\ H[n - 1] = F[n - 1])
      BY <1>0, <2>2
    <3>2. MannedStep(H, all, n) = MannedStep(F, all, n)
      BY <3>1 DEF MannedStep
    <3>3. CASE n <= k
      <4>1. n \in 0 .. k
        BY <1>0, <3>3
      <4>2. F[n] = MannedStep(F, all, n)
        BY <2>1, <4>1
      <4>3. QED BY <2>2, <3>2, <4>1, <4>2
    <3>4. CASE ~ (n <= k)
      BY <3>2, <3>4
    <3>5. QED BY <3>3, <3>4
  <2>4. H = [n \in 0 .. k + 1 |-> MannedStep(H, all, n)]
    BY <2>3
  <2>5. k + 1 \in 0 .. N
    BY <1>0, <1>2
  <2> HIDE DEF H
  <2>6. \E X : X = [n \in 0 .. k + 1 |-> MannedStep(X, all, n)]
    BY <2>4
  <2>7. QED BY <2>5, <2>6
<1>3. N \in 0 .. N
  BY <1>0
<1> HIDE DEF G
<1>4. N \in G
  BY <1>0, <1>1, <1>2, <1>3, IntervalInduction
<1>5. \E F : F = [n \in 0 .. Len(all) |-> MannedStep(F, all, n)]
  BY <1>4 DEF G, N
<1> DEFINE K == MannedScan(all)
<1>6. K = [n \in 0 .. Len(all) |-> MannedStep(K, all, n)]
  BY <1>5, Zenon DEF MannedScan
<1>7. Manned(all) = K[Len(all)]
  BY MannedIsScan
<1> HIDE DEF K
<1> DEFINE J == {n \in 0 .. N : K[n] \in Seq(S)}
<1>8. 0 \in J
  <2>1. 0 \in 0 .. N /\ K[0] = <<>>
    BY <1>0, <1>6 DEF MannedStep, N
  <2>2. <<>> \in Seq(S)
    OBVIOUS
  <2>3. K[0] \in Seq(S)
    BY <2>1, <2>2
  <2>4. QED BY <2>1, <2>3
<1>9. ASSUME NEW k \in 0 .. N, k # N, k \in J PROVE k + 1 \in J
  <2>1. k + 1 \in 1 .. N /\ k + 1 \in 0 .. N /\ k + 1 # 0 /\ (k + 1) - 1 = k
    BY <1>0, <1>9
  <2>2. K[k + 1] = MannedStep(K, all, k + 1)
    BY <1>6, <2>1 DEF N
  <2>3. K[k + 1] = IF all[k + 1].members # {} THEN Append(K[k], all[k + 1]) ELSE K[k]
    BY <2>1, <2>2 DEF MannedStep
  <2>4. all[k + 1] \in S
    BY <1>0, <2>1
  <2>5. K[k] \in Seq(S)
    BY <1>9
  <2>6. K[k + 1] \in Seq(S)
    BY <2>3, <2>4, <2>5
  <2>7. QED BY <2>1, <2>6
<1> HIDE DEF J
<1>10. N \in J
  BY <1>0, <1>3, <1>8, <1>9, IntervalInduction
<1>11. QED BY <1>7, <1>10 DEF J, N

\* A change of the attempts that keeps when each was admitted keeps the flights good.
LEMMA FlightsStand ==
  ASSUME \A e \in EffectId : effects[e].state # "none" =>
            effects'[e].state # "none" /\ effects'[e].since = effects[e].since,
         NEW f \in GoodFlights
  PROVE  f \in GoodFlights'
BY DEF GoodFlights, FlightRecord

\* A member that leaves, whether or not it leaves what it has read.
LEMMA FlightsLeft ==
  ASSUME flights \in Seq(GoodFlights), EffectsTypeOK, AttemptIsTrue, NEW e \in EffectId,
         \A x \in EffectId : effects[x].state # "none" =>
            effects'[x].state # "none" /\ effects'[x].since = effects[x].since,
         DropMember(e) \/ SettleFlight(e, file.bytes)
  PROVE  flights' \in Seq(GoodFlights')
<1> DEFINE left == [i \in DOMAIN flights |-> [flights[i] EXCEPT !.members = flights[i].members \ {e}]]
           answered == [i \in DOMAIN flights |->
                         IF e \notin flights[i].members THEN flights[i]
                         ELSE [flights[i] EXCEPT !.members = flights[i].members \ {e}, !.got = file.bytes]]
<1>1. file.bytes \in Nat /\ \A x \in EffectId : effects[x].since <= file.bytes
  BY DEF EffectsTypeOK, AttemptIsTrue
<1>2. /\ Len(flights) \in Nat /\ DOMAIN flights = 1 .. Len(flights)
      /\ \A i \in DOMAIN flights : flights[i] \in GoodFlights
  OBVIOUS
<1>3. ASSUME NEW f \in GoodFlights'
      PROVE  /\ [f EXCEPT !.members = f.members \ {e}] \in GoodFlights'
  BY DEF GoodFlights, FlightRecord
<1>4. ASSUME NEW f \in GoodFlights
      PROVE  /\ [f EXCEPT !.members = f.members \ {e}, !.got = file.bytes] \in GoodFlights'
  <2>1. f \in FlightRecord /\ \A x \in f.members : x \in EffectId /\ effects[x].state # "none"
    BY DEF GoodFlights, FlightRecord
  <2>2. /\ [f EXCEPT !.members = f.members \ {e}, !.got = file.bytes] \in FlightRecord
        /\ [f EXCEPT !.members = f.members \ {e}, !.got = file.bytes].members = f.members \ {e}
        /\ [f EXCEPT !.members = f.members \ {e}, !.got = file.bytes].got = file.bytes
    BY <1>1, <2>1 DEF FlightRecord
  <2>3. \A x \in f.members : effects'[x].state # "none" /\ effects'[x].since <= file.bytes
    BY <1>1, <2>1
  <2>4. QED BY <2>2, <2>3 DEF GoodFlights
<1>5. \A i \in 1 .. Len(flights) : left[i] \in GoodFlights' /\ answered[i] \in GoodFlights'
  BY <1>2, <1>3, <1>4, FlightsStand
<1>6. left \in Seq(GoodFlights') /\ answered \in Seq(GoodFlights')
  <2>1. DOMAIN left = 1 .. Len(flights) /\ DOMAIN answered = 1 .. Len(flights)
    BY <1>2
  <2>2. left = [i \in 1 .. Len(flights) |-> left[i]] /\ answered = [i \in 1 .. Len(flights) |-> answered[i]]
    BY <1>2
  <2> HIDE DEF left, answered
  <2>3. QED BY <1>2, <1>5, <2>1, <2>2
<1>7. flights' = Manned(left) \/ flights' = Manned(answered)
  BY DEF DropMember, SettleFlight
<1> HIDE DEF left, answered
<1>8. QED BY <1>6, <1>7, MannedIs

\* What an attempt is when it is recorded.
LEMMA EffectOfIs ==
  ASSUME NEW class \in EffectClass, NEW mode \in Mode, NEW state \in EffectStates \ {"none"},
         NEW expected \in Identities, NEW since \in Nat
  PROVE  LET r == EffectOf(class, mode, state, expected, since)
         IN  r \in EffectRecord /\ r.state # "none" /\ r.got = -1 /\ r.touched = {} /\ r.since = since
<1>1. \A c \in EffectClass \cup {"none"}, m \in Mode \cup {"none"}, s \in EffectStates, x \in Identities,
         n \in Nat, g \in Nat \cup {-1}, t \in SUBSET Identities :
         [class |-> c, mode |-> m, state |-> s, expected |-> x, since |-> n, got |-> g, touched |-> t]
            \in EffectRecord
  BY DEF EffectRecord
<1>2. {} \in SUBSET Identities /\ -1 \in Nat \cup {-1}
  OBVIOUS
<1>3. EffectOf(class, mode, state, expected, since) \in EffectRecord
  BY <1>1, <1>2, Zenon DEF EffectOf
<1>4. QED BY <1>3 DEF EffectOf

\* One attempt moves, and the file stays: what is left to show is the attempt's own
\* part of the invariant, and the worker's.
LEMMA AttemptMoves ==
  ASSUME EffectsInv, NEW e \in EffectId, NEW r \in EffectRecord,
         effects' = [effects EXCEPT ![e] = r], file' = file,
         flights' \in Seq(GoodFlights'), writing' \in WritingRecord, WorkerIsAdmitted',
         r.since <= file.bytes, r.got # -1 => r.since <= r.got, r.touched \subseteq {r.expected},
         r.touched # {} => r.state \in {"confirmed", "unknown"},
         writing' = writing \/ writing.at = "idle" \/ writing.of = e
  PROVE  EffectsInv'
<1> USE DEF EffectsInv
<1>1. /\ effects \in [EffectId -> EffectRecord]
      /\ effects' \in [EffectId -> EffectRecord] /\ effects'[e] = r
      /\ \A x \in EffectId : x # e => effects'[x] = effects[x]
  BY DEF EffectsTypeOK
<1>2. EffectsTypeOK'
  BY <1>1 DEF EffectsTypeOK
<1>3. AttemptIsTrue'
  <2>1. ASSUME NEW x \in EffectId, x # e
        PROVE  /\ effects'[x].touched # {} =>
                     \/ effects'[x].state \in {"confirmed", "unknown"}
                     \/ effects'[x].state = "running" /\ writing'.of = x /\ writing'.at = "truncated"
               /\ effects'[x].touched \subseteq {effects'[x].expected}
               /\ effects'[x].since <= file'.bytes
               /\ effects'[x].got # -1 => effects'[x].since <= effects'[x].got
    BY <1>1, <2>1 DEF AttemptIsTrue
  <2>2. QED BY <1>1, <2>1 DEF AttemptIsTrue
<1>4. QED BY <1>2, <1>3

\* An attempt that has not been admitted waits in no shared read, and holds nothing.
LEMMA AdmitKeeps ==
  ASSUME EffectsInv, NEW e \in EffectId, Admit(e) \/ Preview(e) PROVE EffectsInv'
<1>1. /\ effects[e].state = "none" /\ writing = NoWrite
      /\ UNCHANGED <<facts, flips, file, writing>>
      /\ file \in [ino : Nat, birth : Nat, bytes : Nat] /\ writing \in WritingRecord
      /\ effects \in [EffectId -> EffectRecord] /\ flights \in Seq(GoodFlights)
  BY DEF Admit, Preview, EffectsInv, EffectsTypeOK
<1>2. PICK class \in EffectClass, mode \in Mode, r \in EffectRecord :
         /\ effects' = [effects EXCEPT ![e] = r]
         /\ r.state # "none" /\ r.got = -1 /\ r.touched = {} /\ r.since <= file.bytes
         /\ \/ flights' = flights
            \/ r.since = file.bytes /\ Subscribe(e, mode)
  <2>1. CASE Admit(e)
    <3>1. PICK class \in EffectClass, mode \in Mode :
            /\ effects' = [effects EXCEPT ![e] =
                 EffectOf(class, mode, IF Allowed(class, mode) THEN "planned" ELSE "rejected",
                          IF class = "Write" THEN Identity(file) ELSE NoFile, file.bytes)]
            /\ IF class = "Read" /\ Allowed(class, mode) THEN Subscribe(e, mode)
               ELSE UNCHANGED flights
      BY <2>1, Zenon DEF Admit
    <3> DEFINE state == IF Allowed(class, mode) THEN "planned" ELSE "rejected"
               expected == IF class = "Write" THEN Identity(file) ELSE NoFile
               r == EffectOf(class, mode, state, expected, file.bytes)
    <3>2. state \in EffectStates \ {"none"} /\ expected \in Identities
      BY <1>1 DEF Identity, NoFile, Identities, EffectStates
    <3>3. effects' = [effects EXCEPT ![e] = r]
      BY <3>1
    <3> HIDE DEF state, expected
    <3>4. r \in EffectRecord /\ r.state # "none" /\ r.got = -1 /\ r.touched = {} /\ r.since = file.bytes
      BY <1>1, <3>2, EffectOfIs
    <3>5. r.since <= file.bytes
      BY <1>1, <3>4
    <3> HIDE DEF r
    <3>6. QED BY <3>1, <3>3, <3>4, <3>5
  <2>2. CASE Preview(e)
    <3>1. PICK class \in EffectClass, mode \in Mode :
            effects' = [effects EXCEPT ![e] = EffectOf(class, mode, "rejected", NoFile, 0)]
      BY <2>2, Zenon DEF Preview
    <3>2. flights' = flights
      BY <2>2 DEF Preview
    <3> DEFINE r == EffectOf(class, mode, "rejected", NoFile, 0)
    <3>3. "rejected" \in EffectStates \ {"none"} /\ NoFile \in Identities /\ 0 \in Nat
      BY DEF EffectStates, NoFile, Identities
    <3>4. r \in EffectRecord /\ r.state # "none" /\ r.got = -1 /\ r.touched = {} /\ r.since = 0
      BY <3>3, EffectOfIs
    <3>5. r.since <= file.bytes
      BY <1>1, <3>4
    <3>6. effects' = [effects EXCEPT ![e] = r]
      BY <3>1
    <3> HIDE DEF r
    <3>7. QED BY <3>1, <3>2, <3>4, <3>5, <3>6
  <2>3. QED BY <2>1, <2>2
<1>3. \A x \in EffectId : effects[x].state # "none" =>
         effects'[x].state # "none" /\ effects'[x].since = effects[x].since
  BY <1>1, <1>2
<1>4. /\ Len(flights) \in Nat /\ DOMAIN flights = 1 .. Len(flights)
      /\ \A i \in DOMAIN flights : flights[i] \in GoodFlights'
  <2>1. \A i \in DOMAIN flights : flights[i] \in GoodFlights
    BY <1>1
  <2>2. QED BY <1>1, <1>3, <2>1, FlightsStand
<1>5. flights \in Seq(GoodFlights')
  BY <1>1, <1>4
<1>6. flights' \in Seq(GoodFlights')
  <2>1. CASE flights' = flights
    BY <1>5, <2>1
  <2>2. CASE r.since = file.bytes /\ Subscribe(e, mode)
    <3> DEFINE mine == {i \in DOMAIN flights : flights[i].key = FlightKey(mode)}
               last == CHOOSE i \in mine : \A j \in mine : j <= i
               new == [key |-> FlightKey(mode), members |-> {e}, got |-> -1]
               joined == [flights[last] EXCEPT !.members = flights[last].members \cup {e}]
    <3>1. flights' = IF mine # {} /\ Joins(flights[last], mode)
                     THEN [flights EXCEPT ![last] = joined] ELSE Append(flights, new)
      BY <2>2 DEF Subscribe
    <3>2. new \in GoodFlights'
      <4>1. FlightKey(mode) \in [ino : Nat, mode : Mode]
        BY <1>1 DEF FlightKey
      <4>2. effects'[e].state # "none"
        BY <1>1, <1>2
      <4> HIDE DEF mine, last, joined
      <4>3. QED BY <4>1, <4>2 DEF GoodFlights, FlightRecord
    <3>3. CASE mine # {} /\ Joins(flights[last], mode)
      <4>1. last \in DOMAIN flights
        <5>1. mine \subseteq 1 .. Len(flights)
          BY <1>4
        <5> HIDE DEF mine
        <5>2. \E i \in mine : \A j \in mine : j <= i
          BY <1>4, <3>3, <5>1, GreatestInInterval
        <5>3. last \in mine
          BY <5>2
        <5>4. QED BY <1>4, <5>1, <5>3
      <4> HIDE DEF mine, last
      <4>2. flights[last] \in GoodFlights' /\ flights[last].got = -1
        BY <1>4, <3>3, <4>1 DEF Joins
      <4>3. /\ joined \in FlightRecord /\ joined.got = -1
            /\ joined.members = flights[last].members \cup {e}
        BY <4>2 DEF GoodFlights, FlightRecord
      <4>4. effects'[e].state # "none"
        BY <1>1, <1>2
      <4>5. joined \in GoodFlights'
        BY <4>2, <4>3, <4>4 DEF GoodFlights
      <4> HIDE DEF joined
      <4>6. [flights EXCEPT ![last] = joined] \in Seq(GoodFlights')
        BY <1>5, <4>1, <4>5
      <4>7. QED BY <3>1, <3>3, <4>6
    <3>4. CASE ~ (mine # {} /\ Joins(flights[last], mode))
      <4> HIDE DEF mine, last, new, joined
      <4>1. flights' = Append(flights, new)
        BY <3>1, <3>4
      <4>2. QED BY <1>5, <3>2, <4>1
    <3>5. QED BY <3>3, <3>4
  <2>3. QED BY <1>2, <2>1, <2>2
<1>7. WorkerIsAdmitted'
  BY <1>1 DEF WorkerIsAdmitted, NoWrite
<1>8. QED BY <1>1, <1>2, <1>6, <1>7, AttemptMoves

\* A planned attempt that ends or begins to run, with what it read: its right is
\* not looked at here.
LEMMA PlannedMoves ==
  ASSUME EffectsInv, NEW e \in EffectId, effects[e].state = "planned", writing = NoWrite,
         NEW state \in {"running", "confirmed", "rejected", "unknown"}, NEW got \in Nat \cup {-1},
         effects' = [effects EXCEPT ![e] = [effects[e] EXCEPT !.state = state, !.got = got]],
         UNCHANGED <<facts, flips, file>>, got # -1 => effects[e].since <= got,
         flights' = flights \/ DropMember(e) \/ SettleFlight(e, file.bytes),
         writing' = writing \/ (writing'.of = e /\ writing' \in WritingRecord
                                /\ writing'.at = "probe" /\ state = "running")
  PROVE  EffectsInv'
<1> DEFINE r == [effects[e] EXCEPT !.state = state, !.got = got]
<1>1. /\ effects \in [EffectId -> EffectRecord] /\ writing \in WritingRecord /\ flights \in Seq(GoodFlights)
      /\ effects[e].since <= file.bytes /\ effects[e].touched = {}
      /\ EffectsTypeOK /\ AttemptIsTrue
  BY DEF EffectsInv, EffectsTypeOK, AttemptIsTrue
<1>2. /\ r \in EffectRecord /\ r.state = state /\ r.got = got /\ r.since = effects[e].since
      /\ r.touched = {} /\ r.expected = effects[e].expected
  BY <1>1 DEF EffectRecord, EffectStates
<1>3. effects' = [effects EXCEPT ![e] = r]
  OBVIOUS
<1> HIDE DEF r
<1>4. \A x \in EffectId : effects[x].state # "none" =>
         effects'[x].state # "none" /\ effects'[x].since = effects[x].since
  BY <1>1, <1>2, <1>3
<1>5. flights' \in Seq(GoodFlights')
  <2>1. CASE flights' = flights
    <3>1. /\ Len(flights) \in Nat /\ DOMAIN flights = 1 .. Len(flights)
          /\ \A i \in DOMAIN flights : flights[i] \in GoodFlights
      BY <1>1
    <3>2. \A i \in DOMAIN flights : flights[i] \in GoodFlights'
      BY <1>4, <3>1, FlightsStand
    <3>3. QED BY <1>1, <2>1, <3>1, <3>2
  <2>2. CASE DropMember(e) \/ SettleFlight(e, file.bytes)
    BY <1>1, <1>4, <2>2, FlightsLeft
  <2>3. QED BY <2>1, <2>2
<1>6. WorkerIsAdmitted'
  <2>1. CASE writing' = writing
    BY <2>1 DEF WorkerIsAdmitted, NoWrite
  <2>2. CASE writing'.of = e /\ writing'.at = "probe" /\ state = "running"
    BY <1>1, <1>2, <1>3, <2>2 DEF WorkerIsAdmitted
  <2>3. QED BY <2>1, <2>2
<1>7. writing' \in WritingRecord /\ writing.at = "idle"
  BY <1>1 DEF NoWrite
<1>8. QED BY <1>1, <1>2, <1>3, <1>5, <1>6, <1>7, AttemptMoves

\* A planned attempt changes its state alone.
LEMMA PlannedEnds ==
  ASSUME EffectsInv, NEW e \in EffectId, effects[e].state = "planned", writing = NoWrite,
         NEW state \in {"running", "confirmed", "rejected", "unknown"}, SetEffect(e, state),
         UNCHANGED <<facts, flips, file>>, flights' = flights \/ DropMember(e),
         writing' = writing \/ (writing'.of = e /\ writing' \in WritingRecord
                                /\ writing'.at = "probe" /\ state = "running")
  PROVE  EffectsInv'
<1>1. /\ effects[e] \in EffectRecord /\ (effects[e].got # -1 => effects[e].since <= effects[e].got)
  BY DEF EffectsInv, EffectsTypeOK, AttemptIsTrue
<1>2. effects[e].got \in Nat \cup {-1}
  BY <1>1 DEF EffectRecord
<1>3. effects' = [effects EXCEPT ![e] = [effects[e] EXCEPT !.state = state]]
  BY DEF SetEffect
<1>4. [effects[e] EXCEPT !.state = state] = [effects[e] EXCEPT !.state = state, !.got = effects[e].got]
  BY <1>1 DEF EffectRecord
<1>5. effects' = [effects EXCEPT ![e] = [effects[e] EXCEPT !.state = state, !.got = effects[e].got]]
  BY <1>3, <1>4
<1>6. QED BY <1>1, <1>2, <1>5, PlannedMoves

\* What a member of a shared read gets: its bytes are not older than its admission.
LEMMA SharedIs ==
  ASSUME EffectsInv, NEW e \in EffectId, NEW got \in Shared(e)
  PROVE  got \in Nat /\ effects[e].since <= got
<1>1. PICK i \in DOMAIN flights : e \in flights[i].members /\ got = flights[i].got /\ got # -1
  BY DEF Shared
<1>2. flights[i] \in GoodFlights
  BY <1>1 DEF EffectsInv
<1>3. QED BY <1>1, <1>2 DEF GoodFlights, FlightRecord

\* The executor's steps on a planned attempt: refusal, a read, a read that fails, a
\* run, the start of a write.
LEMMA PlannedKeeps ==
  ASSUME EffectsInv, NEW e \in EffectId,
         RefuseEffect(e) \/ ReadEffect(e) \/ ReadFails(e) \/ RunEffect(e) \/ StartWrite(e)
  PROVE  EffectsInv'
<1>1. effects[e].state = "planned" /\ writing = NoWrite /\ UNCHANGED <<facts, flips, file>>
  BY DEF RefuseEffect, ReadEffect, ReadFails, RunEffect, StartWrite
<1>2. CASE RefuseEffect(e)
  <2>1. SetEffect(e, "rejected") /\ DropMember(e) /\ writing' = writing
    BY <1>2 DEF RefuseEffect
  <2>2. QED BY <1>1, <2>1, PlannedEnds
<1>3. CASE ReadEffect(e)
  <2>1. PICK state \in {"confirmed", "unknown"}, got \in IF Shared(e) # {} THEN Shared(e) ELSE {file.bytes} :
          effects' = [effects EXCEPT ![e] = [effects[e] EXCEPT !.state = state, !.got = got]]
    BY <1>3 DEF ReadEffect
  <2>2. got \in Nat /\ effects[e].since <= got
    <3>1. CASE got \in Shared(e)
      BY <3>1, SharedIs
    <3>2. CASE got = file.bytes
      BY <3>2 DEF EffectsInv, EffectsTypeOK, AttemptIsTrue
    <3>3. QED BY <2>1, <3>1, <3>2
  <2>3. writing' = writing /\ (DropMember(e) \/ SettleFlight(e, file.bytes))
    BY <1>3 DEF ReadEffect
  <2>4. QED BY <1>1, <2>1, <2>2, <2>3, PlannedMoves
<1>4. CASE ReadFails(e)
  <2>1. /\ writing' = writing
        /\ \/ SetEffect(e, "rejected") /\ DropMember(e)
           \/ SetEffect(e, "running") /\ flights' = flights
    BY <1>4 DEF ReadFails
  <2>2. QED BY <1>1, <2>1, PlannedEnds
<1>5. CASE RunEffect(e)
  <2>1. PICK state \in {"confirmed", "rejected"} : SetEffect(e, state)
    BY <1>5 DEF RunEffect
  <2>2. writing' = writing /\ flights' = flights
    BY <1>5 DEF RunEffect
  <2>3. QED BY <1>1, <2>1, <2>2, PlannedEnds
<1>6. CASE StartWrite(e)
  <2>1. /\ SetEffect(e, "running") /\ flights' = flights
        /\ writing' = [NoWrite EXCEPT !.of = e, !.at = "probe", !.inode = file.ino]
    BY <1>6 DEF StartWrite
  <2>2. writing' \in WritingRecord /\ writing'.of = e /\ writing'.at = "probe"
    <3>1. file.ino \in Nat
      BY DEF EffectsInv, EffectsTypeOK
    <3>2. QED BY <2>1, <3>1 DEF NoWrite, NoFile, WritingRecord, Identities
  <2>3. QED BY <1>1, <2>1, <2>2, PlannedEnds
<1>7. QED BY <1>2, <1>3, <1>4, <1>5, <1>6

\* The flights stay good when no attempt loses its admission.
LEMMA FlightsKept ==
  ASSUME flights \in Seq(GoodFlights), flights' = flights,
         \A e \in EffectId : effects[e].state # "none" =>
            effects'[e].state # "none" /\ effects'[e].since = effects[e].since
  PROVE  flights' \in Seq(GoodFlights')
<1>1. /\ Len(flights) \in Nat /\ DOMAIN flights = 1 .. Len(flights)
      /\ \A i \in DOMAIN flights : flights[i] \in GoodFlights
  OBVIOUS
<1>2. \A i \in DOMAIN flights : flights[i] \in GoodFlights'
  BY <1>1, FlightsStand
<1>3. QED BY <1>1, <1>2

\* The end of a write: what is called rejected has touched nothing.
LEMMA WriteEnds ==
  ASSUME EffectsInv, NEW state \in {"confirmed", "rejected", "unknown"}, FailsWrite(state),
         writing.at # "idle", writing.at = "truncated" => state # "rejected"
  PROVE  EffectsInv'
<1> DEFINE e == writing.of
           r == [effects[e] EXCEPT !.state = state]
<1>1. /\ e \in EffectId /\ effects[e].state = "running" /\ effects \in [EffectId -> EffectRecord]
      /\ flights \in Seq(GoodFlights)
      /\ effects[e].touched # {} => writing.at = "truncated"
      /\ effects[e].touched \subseteq {effects[e].expected} /\ effects[e].since <= file.bytes
      /\ effects[e].got # -1 => effects[e].since <= effects[e].got
  BY DEF EffectsInv, EffectsTypeOK, WorkerIsAdmitted, AttemptIsTrue
<1>2. /\ effects' = [effects EXCEPT ![e] = r] /\ writing' = NoWrite /\ file' = file /\ flights' = flights
  BY DEF FailsWrite, SetEffect
<1>3. /\ r \in EffectRecord /\ r.state = state /\ r.since = effects[e].since /\ r.got = effects[e].got
      /\ r.touched = effects[e].touched /\ r.expected = effects[e].expected
  BY <1>1 DEF EffectRecord, EffectStates
<1> HIDE DEF r
<1>4. \A x \in EffectId : effects[x].state # "none" =>
         effects'[x].state # "none" /\ effects'[x].since = effects[x].since
  BY <1>1, <1>2, <1>3
<1>5. flights' \in Seq(GoodFlights')
  BY <1>1, <1>2, <1>4, FlightsKept
<1>6. writing' \in WritingRecord /\ WorkerIsAdmitted'
  BY <1>2 DEF WritingRecord, NoWrite, NoFile, Identities, WorkerIsAdmitted
<1>7. r.touched # {} => r.state \in {"confirmed", "unknown"}
  BY <1>1, <1>3
<1> HIDE DEF e
<1>8. writing.of = e
  BY DEF e
<1>9. QED BY <1>1, <1>2, <1>3, <1>5, <1>6, <1>7, <1>8, AttemptMoves

\* The steps of the write worker.
LEMMA WorkerKeeps ==
  ASSUME EffectsInv, WriteProbeFails \/ OpenTarget \/ ConfirmOccupant \/ Truncate \/ HelperEnds
  PROVE  EffectsInv'
<1>0. /\ writing \in WritingRecord /\ effects \in [EffectId -> EffectRecord]
      /\ file \in [ino : Nat, birth : Nat, bytes : Nat] /\ flights \in Seq(GoodFlights)
      /\ AttemptIsTrue /\ WorkerIsAdmitted
  BY DEF EffectsInv, EffectsTypeOK
<1>1. CASE WriteProbeFails
  <2>1. writing.at \in {"probe", "opened"} /\ FailsWrite("rejected")
    BY <1>1 DEF WriteProbeFails
  <2>2. QED BY <2>1, WriteEnds
<1>2. ASSUME NEW at \in {"opened", "helper"}, NEW w \in Identities,
             writing.at # "idle", at = "helper" => w = effects[writing.of].expected,
             writing' = [writing EXCEPT !.at = at, !.file = w],
             writing.at # "truncated", UNCHANGED <<file, effects, flights>>
      PROVE  EffectsInv'
  <2>1. writing' \in WritingRecord /\ writing'.of = writing.of /\ writing'.at = at /\ writing'.file = w
    BY <1>0, <1>2 DEF WritingRecord
  <2>2. WorkerIsAdmitted'
    BY <1>0, <1>2, <2>1 DEF WorkerIsAdmitted
  <2>3. AttemptIsTrue'
    BY <1>0, <1>2, <2>1 DEF AttemptIsTrue
  <2>4. flights' \in Seq(GoodFlights')
    BY <1>0, <1>2, FlightsKept
  <2>5. QED BY <1>0, <1>2, <2>1, <2>2, <2>3, <2>4 DEF EffectsInv, EffectsTypeOK
<1>3. CASE OpenTarget
  <2>1. /\ writing.at = "probe" /\ writing' = [writing EXCEPT !.at = "opened", !.file = Identity(file)]
        /\ UNCHANGED <<file, effects, flights>>
    BY <1>3 DEF OpenTarget
  <2>2. Identity(file) \in Identities
    BY <1>0 DEF Identity, Identities
  <2>3. QED BY <1>2, <2>1, <2>2
<1>4. CASE ConfirmOccupant
  <2>1. CASE Occupant(writing, effects[writing.of].expected)
    <3>1. /\ writing.at = "opened" /\ writing' = [writing EXCEPT !.at = "helper"]
          /\ writing.file = effects[writing.of].expected
          /\ UNCHANGED <<file, effects, flights>>
      BY <1>4, <2>1 DEF ConfirmOccupant, Occupant
    <3>2. writing' = [writing EXCEPT !.at = "helper", !.file = writing.file] /\ writing.file \in Identities
      BY <1>0, <3>1 DEF WritingRecord
    <3>3. QED BY <1>2, <3>1, <3>2
  <2>2. CASE ~ Occupant(writing, effects[writing.of].expected)
    <3>1. writing.at = "opened" /\ FailsWrite("rejected")
      BY <1>4, <2>2 DEF ConfirmOccupant
    <3>2. QED BY <3>1, WriteEnds
  <2>3. QED BY <2>1, <2>2
<1>5. CASE Truncate
  <2> DEFINE e == writing.of
             r == [effects[e] EXCEPT !.touched = effects[e].touched \cup {writing.file}]
  <2>1. /\ writing.at = "helper" /\ writing' = [writing EXCEPT !.at = "truncated"] /\ flights' = flights
        /\ effects' = [effects EXCEPT ![e] = r]
        /\ file' = file \/ file' = [file EXCEPT !.bytes = file.bytes + 1]
    BY <1>5 DEF Truncate
  <2>2. /\ e \in EffectId /\ effects[e].state = "running" /\ writing.file = effects[e].expected
        /\ effects[e] \in EffectRecord /\ effects[e].touched \subseteq {effects[e].expected}
        /\ effects[e].touched \subseteq Identities /\ effects[e].expected \in Identities
    BY <1>0, <2>1 DEF WorkerIsAdmitted, AttemptIsTrue, EffectRecord
  <2>3. /\ r \in EffectRecord /\ r.state = "running" /\ r.since = effects[e].since /\ r.got = effects[e].got
        /\ r.touched \subseteq {r.expected} /\ r.expected = effects[e].expected
    BY <2>2 DEF EffectRecord
  <2>4. /\ writing' \in WritingRecord /\ writing'.of = e /\ writing'.at = "truncated"
        /\ writing'.file = writing.file
    BY <1>0, <2>1 DEF WritingRecord
  <2>5. file' \in [ino : Nat, birth : Nat, bytes : Nat] /\ file.bytes <= file'.bytes
    BY <1>0, <2>1
  <2> HIDE DEF r, e
  <2>6. /\ effects' \in [EffectId -> EffectRecord] /\ effects'[e] = r
        /\ \A x \in EffectId : x # e => effects'[x] = effects[x]
    BY <1>0, <2>1, <2>2, <2>3
  <2>7. flights' \in Seq(GoodFlights')
    <3>1. \A x \in EffectId : effects[x].state # "none" =>
             effects'[x].state # "none" /\ effects'[x].since = effects[x].since
      BY <2>3, <2>6
    <3>2. QED BY <1>0, <2>1, <3>1, FlightsKept
  <2>8. WorkerIsAdmitted'
    BY <2>2, <2>3, <2>4, <2>6 DEF WorkerIsAdmitted
  <2>9. AttemptIsTrue'
    <3>1. \A x \in EffectId : effects[x].since \in Nat
      BY <1>0 DEF EffectRecord
    <3>2. file.bytes \in Nat /\ file'.bytes \in Nat
      BY <1>0, <2>5
    <3>3. \A x \in EffectId : effects'[x].since <= file'.bytes
      <4>1. \A x \in EffectId : effects'[x].since = effects[x].since
        BY <2>3, <2>6
      <4>2. QED BY <1>0, <2>5, <3>1, <3>2, <4>1 DEF AttemptIsTrue
    <3>4. ASSUME NEW x \in EffectId, x # e
          PROVE  effects'[x].touched # {} => effects'[x].state \in {"confirmed", "unknown"}
      BY <1>0, <2>1, <2>6, <3>4 DEF AttemptIsTrue
    <3>5. QED BY <1>0, <2>2, <2>3, <2>4, <2>6, <3>3, <3>4 DEF AttemptIsTrue
  <2>10. QED BY <2>4, <2>5, <2>6, <2>7, <2>8, <2>9 DEF EffectsInv, EffectsTypeOK
<1>6. CASE HelperEnds
  <2>1. writing.at \in {"helper", "truncated"}
    BY <1>6 DEF HelperEnds
  <2>2. PICK exit \in HelperExit(writing.at) :
          FailsWrite(CASE exit = "ok" -> "confirmed"
                       [] exit = "io" -> "rejected"
                       [] exit \in {"mutated", "killed"} -> "unknown")
    BY <1>6 DEF HelperEnds
  <2>3. exit \in {"ok", "io", "mutated", "killed"} /\ (writing.at = "truncated" => exit # "io")
    BY <2>2 DEF HelperExit
  <2>4. QED BY <2>1, <2>2, <2>3, WriteEnds
<1>7. QED BY <1>1, <1>3, <1>4, <1>5, <1>6

\* The rest of the world, and a step of nobody.
LEMMA WorldKeeps ==
  ASSUME EffectsInv, (\E f \in FactName : Flip(f)) \/ ReplaceFile \/ UNCHANGED effectVars
  PROVE  EffectsInv'
<1>1. /\ UNCHANGED <<effects, flights, writing>>
      /\ file \in [ino : Nat, birth : Nat, bytes : Nat] /\ flights \in Seq(GoodFlights)
      /\ effects \in [EffectId -> EffectRecord]
  BY DEF Flip, ReplaceFile, effectVars, EffectsInv, EffectsTypeOK
<1>2. file' \in [ino : Nat, birth : Nat, bytes : Nat] /\ file.bytes <= file'.bytes
  <2>1. CASE ReplaceFile
    <3>1. PICK ino \in {1, 2}, new \in BOOLEAN :
             file' = [ino |-> ino, birth |-> file.birth + (IF new THEN 1 ELSE 0), bytes |-> file.bytes + 1]
      BY <2>1 DEF ReplaceFile
    <3>2. QED BY <1>1, <3>1
  <2>2. CASE (\E f \in FactName : Flip(f)) \/ UNCHANGED effectVars
    BY <1>1, <2>2 DEF Flip, effectVars
  <2>3. QED BY <2>1, <2>2
<1>3. flights' \in Seq(GoodFlights')
  BY <1>1, FlightsKept
<1>4. WorkerIsAdmitted'
  BY <1>1 DEF EffectsInv, WorkerIsAdmitted
<1>5. AttemptIsTrue'
  <2>1. \A x \in EffectId : effects[x].since \in Nat /\ effects[x].since <= file.bytes
    BY <1>1 DEF EffectsInv, AttemptIsTrue, EffectRecord
  <2>2. \A x \in EffectId : effects'[x].since <= file'.bytes
    BY <1>1, <1>2, <2>1
  <2>3. QED BY <1>1, <2>2 DEF EffectsInv, AttemptIsTrue
<1>6. QED BY <1>1, <1>2, <1>3, <1>4, <1>5 DEF EffectsInv, EffectsTypeOK

\* At first nothing was admitted.
LEMMA EffectsStart == ASSUME EffectsInit PROVE EffectsInv
<1>1. /\ file = [ino |-> 1, birth |-> 1, bytes |-> 0] /\ effects = [e \in EffectId |-> NoEffect]
      /\ flights = << >> /\ writing = NoWrite
  BY DEF EffectsInit
<1>2. NoEffect \in EffectRecord /\ NoEffect.touched = {} /\ NoEffect.since = 0 /\ NoEffect.got = -1
  <2>1. \A c \in EffectClass \cup {"none"}, m \in Mode \cup {"none"}, s \in EffectStates, x \in Identities,
           n \in Nat, g \in Nat \cup {-1}, t \in SUBSET Identities :
           [class |-> c, mode |-> m, state |-> s, expected |-> x, since |-> n, got |-> g, touched |-> t]
              \in EffectRecord
    BY DEF EffectRecord
  <2>2. /\ {} \in SUBSET Identities /\ -1 \in Nat \cup {-1} /\ 0 \in Nat /\ "none" \in EffectStates
        /\ NoFile \in Identities /\ "none" \in EffectClass \cup {"none"} /\ "none" \in Mode \cup {"none"}
    BY DEF EffectStates, NoFile, Identities
  <2>3. NoEffect \in EffectRecord
    BY <2>1, <2>2, Zenon DEF NoEffect, EffectOf
  <2>4. QED BY <2>3 DEF NoEffect, EffectOf
<1>3. EffectsTypeOK
  BY <1>1, <1>2 DEF EffectsTypeOK, NoWrite, NoFile, WritingRecord, Identities
<1>4. flights \in Seq(GoodFlights)
  BY <1>1
<1>5. WorkerIsAdmitted /\ AttemptIsTrue
  BY <1>1, <1>2 DEF WorkerIsAdmitted, AttemptIsTrue, NoWrite
<1>6. QED BY <1>3, <1>4, <1>5 DEF EffectsInv

\* Whatever starts an attempt has asked the gates in that step.
LEMMA StartsAreGated ==
  ASSUME EffectsInv, [EffectsNext]_effectVars, NEW e \in EffectId, effects[e].state = "planned",
         effects'[e].state \in {"running", "confirmed", "unknown"}
  PROVE  Fact("granted") /\ ~ Fact("cancelled") /\ Allowed(effects[e].class, effects[e].mode)
<1>1. /\ effects \in [EffectId -> EffectRecord]
      /\ writing.at # "idle" => writing.of \in EffectId /\ effects[writing.of].state = "running"
      /\ effects' # effects
  BY DEF EffectsInv, EffectsTypeOK, WorkerIsAdmitted
<1>2. ASSUME NEW x \in EffectId, NEW r, effects' = [effects EXCEPT ![x] = r] PROVE x = e
  BY <1>1, <1>2
<1>3. EffectsNext
  BY <1>1 DEF effectVars
<1>4. ASSUME NEW x \in EffectId, ReadEffect(x) \/ ReadFails(x) \/ RunEffect(x) \/ StartWrite(x)
      PROVE  Fact("granted") /\ ~ Fact("cancelled") /\ Allowed(effects[e].class, effects[e].mode)
  <2>1. Gates(x) /\ \E r : effects' = [effects EXCEPT ![x] = r]
    <3>1. CASE ReadEffect(x)
      BY <3>1 DEF ReadEffect
    <3>2. CASE ReadFails(x)
      BY <3>2 DEF ReadFails, SetEffect
    <3>3. CASE RunEffect(x)
      BY <3>3 DEF RunEffect, SetEffect
    <3>4. CASE StartWrite(x)
      BY <3>4 DEF StartWrite, SetEffect
    <3>5. QED BY <1>4, <3>1, <3>2, <3>3, <3>4
  <2>2. x = e
    BY <1>2, <2>1
  <2>3. QED BY <2>1, <2>2 DEF Gates
<1>5. ASSUME NEW x \in EffectId, Admit(x) \/ Preview(x) PROVE FALSE
  <2>1. effects[x].state = "none" /\ \E r : effects' = [effects EXCEPT ![x] = r]
    <3>1. CASE Admit(x)
      BY <3>1, Zenon DEF Admit
    <3>2. CASE Preview(x)
      BY <3>2, Zenon DEF Preview
    <3>3. QED BY <1>5, <3>1, <3>2
  <2>2. QED BY <1>2, <2>1
<1>6. ASSUME NEW x \in EffectId, RefuseEffect(x) PROVE FALSE
  <2>1. effects' = [effects EXCEPT ![x] = [effects[x] EXCEPT !.state = "rejected"]]
    BY <1>6 DEF RefuseEffect, SetEffect
  <2>2. x = e
    BY <1>2, <2>1
  <2>3. effects'[e].state = "rejected"
    BY <1>1, <2>1, <2>2 DEF EffectRecord
  <2>4. QED BY <2>3
<1>7. ASSUME WriteProbeFails \/ ConfirmOccupant \/ Truncate \/ HelperEnds PROVE FALSE
  <2>1. writing.at # "idle" /\ \E r : effects' = [effects EXCEPT ![writing.of] = r]
    BY <1>1, <1>7 DEF WriteProbeFails, ConfirmOccupant, Truncate, HelperEnds, FailsWrite, SetEffect
  <2>2. QED BY <1>1, <1>2, <2>1
<1>8. ASSUME OpenTarget \/ (\E f \in FactName : Flip(f)) \/ ReplaceFile PROVE FALSE
  BY <1>1, <1>8 DEF OpenTarget, Flip, ReplaceFile
<1>9. QED BY <1>3, <1>4, <1>5, <1>6, <1>7, <1>8 DEF EffectsNext

\* Effects: a shared read is never older than the admission it answers, a write
\* that is called rejected moved nothing and one that moved touched the admitted file
\* only, and an effect starts under rights that hold in that step (admit, execute_gates,
\* ReadFlights, confirm_write_occupant).
THEOREM EffectsSafe == EffectsSpec => EffectsAreAdmitted
<1>1. EffectsInit => EffectsInv
  BY EffectsStart
<1>2. EffectsInv /\ [EffectsNext]_effectVars => EffectsInv'
  BY AdmitKeeps, PlannedKeeps, WorkerKeeps, WorldKeeps DEF EffectsNext
<1>3. EffectsInv => SharedIsFresh /\ RejectedMovedNothing /\ TouchesAdmitted
  <2>1. SUFFICES ASSUME EffectsInv PROVE SharedIsFresh /\ RejectedMovedNothing /\ TouchesAdmitted
    OBVIOUS
  <2>2. SharedIsFresh
    BY <2>1 DEF EffectsInv, AttemptIsTrue, SharedIsFresh
  <2>3. RejectedMovedNothing
    BY <2>1 DEF EffectsInv, AttemptIsTrue, RejectedMovedNothing
  <2>4. TouchesAdmitted
    BY <2>1 DEF EffectsInv, AttemptIsTrue, TouchesAdmitted
  <2>5. QED BY <2>2, <2>3, <2>4
<1>4. EffectsInv /\ [EffectsNext]_effectVars =>
        [\A e \in EffectId :
           effects[e].state = "planned" /\ effects'[e].state \in {"running", "confirmed", "unknown"}
           => Fact("granted") /\ ~ Fact("cancelled") /\ Allowed(effects[e].class, effects[e].mode)]_effectVars
  BY StartsAreGated
<1>5. QED BY <1>1, <1>2, <1>3, <1>4, PTL DEF EffectsSpec, EffectsAreAdmitted, StartsAllowed

-----------------------------------------------------------------------------
(***************************************************************************)
(* The forks of a task.  The invariant says what the call under way was    *)
(* handed, which question it may answer, and which numbers are answered.   *)
(***************************************************************************)
Forks == Fork \cup {NoFork}
RowsOfForks == {f.row : f \in Forks} \cup {"none"}
DecisionRecord == [n : Nat, fork : Forks, row : RowsOfForks, pending : BOOLEAN]
CallRecord == [step : {"none", "publish", "answer"}, fork : Forks,
               author : {"system", "agent", "human", "none"}, delegated : BOOLEAN]

ForksTypeOK ==
    /\ decision \in DecisionRecord /\ resolving \in CallRecord
    /\ forkMode \in {"ask", "auto"}

\* What a call has been admitted with, and the question it is about to answer.
CallIsAllowed ==
    /\ resolving.step \in {"publish", "answer"} =>
          /\ ValidFork(resolving.fork)
          /\ resolving.delegated => resolving.author \in {"system", "agent"}
    /\ resolving.step = "answer" =>
          resolving.delegated /\ (decision.pending => same_fork(decision.fork, resolving.fork))

\* Answers are of questions asked, and the pending one has none.
AnswersAreNumbered ==
    \A a \in settled : /\ a.n \in Nat /\ a.n <= decision.n
                       /\ decision.pending => a.n # decision.n

ForksInv ==
    /\ ForksTypeOK /\ CallIsAllowed /\ AnswersAreNumbered
    /\ MachineAnswersItsFork /\ OneAnswerPerFork

LEMMA NoCallIsTyped == NoCall \in CallRecord /\ NoCall.step = "none"
BY DEF NoCall, CallRecord, Forks

\* A step that settles nothing keeps the answers when no answered question opens again.
LEMMA NothingSettled ==
  ASSUME ForksInv, UNCHANGED settled, ForksTypeOK', CallIsAllowed', decision'.n >= decision.n,
         decision'.pending => decision'.n > decision.n \/ (decision.pending /\ decision'.n = decision.n)
  PROVE  ForksInv'
<1>1. decision.n \in Nat /\ decision'.n \in Nat /\ decision.pending \in BOOLEAN
  BY DEF ForksInv, ForksTypeOK, DecisionRecord
<1>2. AnswersAreNumbered'
  BY <1>1 DEF ForksInv, AnswersAreNumbered
<1>3. MachineAnswersItsFork'
  BY DEF ForksInv, MachineAnswersItsFork, same_fork, Positions
<1>4. OneAnswerPerFork'
  BY DEF ForksInv, OneAnswerPerFork
<1>5. QED BY <1>2, <1>3, <1>4 DEF ForksInv

\* The answer to the pending question is its only one (answer_question).
LEMMA SettleKeeps ==
  ASSUME ForksInv, decision.pending, NEW option, NEW author, NEW wanted, Settle(option, author, wanted),
         resolving' = NoCall, UNCHANGED forkMode,
         author # "human" => /\ author \in {"system", "agent"}
                             /\ same_fork(decision.fork, wanted) /\ option = wanted.recommended
                             /\ \E p \in Positions(decision.fork) : p.id = option /\ p.state = "enabled"
  PROVE  ForksInv'
<1> DEFINE new == [n |-> decision.n, fork |-> decision.fork, option |-> option,
                   author |-> author, wanted |-> wanted]
<1>1. /\ settled' = settled \cup {new}
      /\ decision' = [decision EXCEPT !.pending = FALSE, !.row = "none"]
      /\ decision \in DecisionRecord /\ decision.n \in Nat
  BY DEF Settle, ForksInv, ForksTypeOK, DecisionRecord
<1>2. decision' \in DecisionRecord /\ decision'.n = decision.n /\ decision'.pending = FALSE
  BY <1>1 DEF DecisionRecord, RowsOfForks
<1>3. ForksTypeOK' /\ CallIsAllowed'
  BY <1>2, NoCallIsTyped DEF ForksInv, ForksTypeOK, CallIsAllowed
<1>4. \A a \in settled : a.n \in Nat /\ a.n <= decision.n /\ a.n # decision.n
  BY DEF ForksInv, AnswersAreNumbered
<1>5. /\ new.n = decision.n /\ new.fork = decision.fork /\ new.option = option
      /\ new.author = author /\ new.wanted = wanted
  OBVIOUS
<1> HIDE DEF new
<1>6. AnswersAreNumbered'
  BY <1>1, <1>2, <1>4, <1>5 DEF AnswersAreNumbered
<1>7. OneAnswerPerFork'
  BY <1>1, <1>4, <1>5 DEF ForksInv, OneAnswerPerFork
<1>8. MachineAnswersItsFork'
  BY <1>1, <1>5 DEF ForksInv, MachineAnswersItsFork, same_fork, Positions
<1>9. QED BY <1>3, <1>6, <1>7, <1>8 DEF ForksInv

\* A call is admitted with a valid fork, and delegated to a machine only (resolve_fork).
LEMMA ResolveKeeps ==
  ASSUME ForksInv, Resolve PROVE ForksInv'
<1>1. PICK f \in Fork, author \in {"system", "agent", "human", "none"}, delegated \in BOOLEAN :
        /\ AuthorAllowed(author) /\ ValidFork(f)
        /\ resolving' = [step |-> "publish", fork |-> f, author |-> author,
                         delegated |-> delegated /\ forkMode = "auto"]
        /\ UNCHANGED <<decision, forkMode, settled>>
  BY DEF Resolve
<1>2. ForksTypeOK'
  BY <1>1 DEF ForksInv, ForksTypeOK, CallRecord, Forks
<1>3. ValidFork(resolving.fork)'
  BY <1>1 DEF ValidFork, Positions
<1>4. CallIsAllowed'
  BY <1>1, <1>3 DEF CallIsAllowed, AuthorAllowed
<1>5. QED BY <1>1, <1>2, <1>4, NothingSettled DEF ForksInv, ForksTypeOK, DecisionRecord

\* The fork is published as the question of the task, or meets the same one pending
\* (publish_or_dedupe).
LEMMA PublishForkKeeps ==
  ASSUME ForksInv, PublishOrDedupe PROVE ForksInv'
<1> DEFINE f == resolving.fork
           next == IF resolving.delegated THEN [resolving EXCEPT !.step = "answer"] ELSE NoCall
<1>1. /\ resolving.step = "publish" /\ UNCHANGED <<forkMode, settled>>
      /\ resolving \in CallRecord /\ decision \in DecisionRecord /\ decision.n \in Nat
      /\ f \in Forks /\ ValidFork(f) /\ decision.pending \in BOOLEAN
      /\ resolving.delegated => resolving.author \in {"system", "agent"}
  BY DEF PublishOrDedupe, ForksInv, ForksTypeOK, CallIsAllowed, CallRecord, DecisionRecord
<1>2. /\ next \in CallRecord
      /\ \/ next.step = "none"
         \/ /\ next.step = "answer" /\ next.fork = f /\ next.delegated
            /\ next.author \in {"system", "agent"}
  BY <1>1, NoCallIsTyped DEF CallRecord
<1>3. CASE decision.pending
  <2>1. UNCHANGED decision /\ resolving' = (IF same_fork(decision.fork, f) /\ (f.row = "none" \/ decision.row = f.row)
                                            THEN next ELSE NoCall)
    BY <1>1, <1>3 DEF PublishOrDedupe
  <2> HIDE DEF f, next
  <2>2. /\ resolving' \in CallRecord
        /\ \/ resolving'.step = "none"
           \/ /\ resolving'.step = "answer" /\ resolving'.fork = f /\ resolving'.delegated
              /\ resolving'.author \in {"system", "agent"} /\ same_fork(decision.fork, f)
    BY <1>2, <2>1, NoCallIsTyped
  <2>3. ForksTypeOK'
    BY <1>1, <2>1, <2>2 DEF ForksInv, ForksTypeOK
  <2>4. CallIsAllowed'
    <3>1. resolving'.step # "publish" /\ (resolving'.step = "answer" => ValidFork(resolving'.fork))
      BY <1>1, <2>2
    <3>2. ValidFork(resolving'.fork) <=> ValidFork(resolving.fork)'
      BY DEF ValidFork, Positions
    <3>3. resolving'.step = "answer" => same_fork(decision.fork, resolving.fork)'
      BY <2>1, <2>2 DEF same_fork
    <3>4. QED BY <2>2, <3>1, <3>2, <3>3 DEF CallIsAllowed
  <2>5. QED BY <1>1, <2>1, <2>3, <2>4, NothingSettled
<1>4. CASE ~ decision.pending
  <2>1. /\ decision' = [n |-> decision.n + 1, fork |-> f, row |-> f.row, pending |-> TRUE]
        /\ resolving' = next
    BY <1>1, <1>4 DEF PublishOrDedupe
  <2> HIDE DEF f, next
  <2>2. f.row \in RowsOfForks
    BY <1>1 DEF RowsOfForks
  <2>3. decision' \in DecisionRecord /\ decision'.n = decision.n + 1 /\ decision'.fork = f
    BY <1>1, <2>1, <2>2 DEF DecisionRecord
  <2>4. ForksTypeOK'
    BY <1>1, <1>2, <2>1, <2>3 DEF ForksInv, ForksTypeOK
  <2>5. CallIsAllowed'
    <3>1. resolving'.step # "publish" /\ (resolving'.step = "answer" => ValidFork(resolving'.fork))
      BY <1>1, <1>2, <2>1
    <3>2. ValidFork(resolving'.fork) <=> ValidFork(resolving.fork)'
      BY DEF ValidFork, Positions
    <3>3. resolving'.step = "answer" => same_fork(decision.fork, resolving.fork)'
      BY <1>2, <2>1, <2>3 DEF same_fork
    <3>4. QED BY <1>2, <2>1, <3>1, <3>2, <3>3 DEF CallIsAllowed
  <2>6. QED BY <1>1, <2>1, <2>3, <2>4, <2>5, NothingSettled
<1>5. QED BY <1>1, <1>3, <1>4

\* The machine takes the recommended position of the fork it was handed.
LEMMA MachineAnswersKeeps ==
  ASSUME ForksInv, MachineAnswers PROVE ForksInv'
<1>1. /\ resolving.step = "answer" /\ resolving' = NoCall /\ UNCHANGED forkMode
      /\ ValidFork(resolving.fork) /\ resolving.author \in {"system", "agent"}
      /\ decision.pending => same_fork(decision.fork, resolving.fork)
  BY DEF MachineAnswers, ForksInv, CallIsAllowed
<1>2. CASE decision.pending
  <2>1. Settle(MachineChoice, resolving.author, resolving.fork)
    BY <1>2 DEF MachineAnswers
  <2>2. /\ MachineChoice = resolving.fork.recommended
        /\ \E p \in Positions(decision.fork) : p.id = MachineChoice /\ p.state = "enabled"
    BY <1>1, <1>2 DEF MachineChoice, same_fork, ValidFork, Positions
  <2>3. QED BY <1>1, <1>2, <2>1, <2>2, SettleKeeps
<1>3. CASE ~ decision.pending
  <2>1. UNCHANGED <<decision, settled>>
    BY <1>3 DEF MachineAnswers
  <2>2. ForksTypeOK' /\ CallIsAllowed'
    BY <1>1, <2>1, NoCallIsTyped DEF ForksInv, ForksTypeOK, CallIsAllowed
  <2>3. QED BY <1>3, <2>1, <2>2, NothingSettled DEF ForksInv, ForksTypeOK, DecisionRecord
<1>4. QED BY <1>2, <1>3 DEF ForksInv, ForksTypeOK, DecisionRecord

\* A person, another selection, a switch of the mode and a crash.
LEMMA AroundKeeps ==
  ASSUME ForksInv, PersonAnswers \/ ReselectFork \/ SwitchMode \/ CrashResolving PROVE ForksInv'
<1>1. CASE PersonAnswers
  <2>1. PICK p \in Positions(decision.fork) : Settle(p.id, "human", decision.fork)
    BY <1>1 DEF PersonAnswers
  <2>2. decision.pending /\ resolving' = NoCall /\ UNCHANGED forkMode
    BY <1>1 DEF PersonAnswers
  <2>3. QED BY <2>1, <2>2, SettleKeeps
<1>2. CASE ReselectFork
  <2>1. /\ decision' = [decision EXCEPT !.pending = FALSE, !.row = "none"]
        /\ resolving = NoCall /\ UNCHANGED <<forkMode, resolving, settled>>
        /\ decision \in DecisionRecord
    BY <1>2 DEF ReselectFork, ForksInv, ForksTypeOK
  <2>2. decision' \in DecisionRecord /\ decision'.n = decision.n /\ decision'.pending = FALSE
        /\ decision.n \in Nat
    BY <2>1 DEF DecisionRecord, RowsOfForks
  <2>3. ForksTypeOK' /\ CallIsAllowed'
    BY <2>1, <2>2, NoCallIsTyped DEF ForksInv, ForksTypeOK, CallIsAllowed
  <2>4. QED BY <2>1, <2>2, <2>3, NothingSettled
<1>3. CASE SwitchMode \/ CrashResolving
  <2>1. /\ UNCHANGED <<decision, settled>> /\ resolving' = NoCall
        /\ forkMode' \in {"ask", "auto"}
    BY <1>3 DEF SwitchMode, CrashResolving, ForksInv, ForksTypeOK
  <2>2. ForksTypeOK' /\ CallIsAllowed'
    BY <2>1, NoCallIsTyped DEF ForksInv, ForksTypeOK, CallIsAllowed
  <2>3. QED BY <2>1, <2>2, NothingSettled DEF ForksInv, ForksTypeOK, DecisionRecord
<1>4. QED BY <1>1, <1>2, <1>3

LEMMA ForksInitHolds == ForksInit => ForksInv
<1> SUFFICES ASSUME ForksInit PROVE ForksInv
  OBVIOUS
<1>1. ForksTypeOK
  BY NoCallIsTyped DEF ForksInit, ForksTypeOK, DecisionRecord, Forks, RowsOfForks
<1>2. QED
  BY <1>1, NoCallIsTyped DEF ForksInit, ForksInv, CallIsAllowed, AnswersAreNumbered,
                             MachineAnswersItsFork, OneAnswerPerFork

LEMMA ForksStep == ForksInv /\ [ForksNext]_forkVars => ForksInv'
<1> SUFFICES ASSUME ForksInv, [ForksNext]_forkVars PROVE ForksInv'
  OBVIOUS
<1>1. CASE UNCHANGED forkVars
  <2>1. ForksTypeOK' /\ CallIsAllowed'
    BY <1>1 DEF forkVars, ForksInv, ForksTypeOK, CallIsAllowed, ValidFork, Positions, same_fork
  <2>2. QED BY <1>1, <2>1, NothingSettled DEF forkVars, ForksInv, ForksTypeOK, DecisionRecord
<1>2. QED BY <1>1, ResolveKeeps, PublishForkKeeps, MachineAnswersKeeps, AroundKeeps DEF ForksNext

\* An answer that falls in a machine's answering step is in the machine's name.
LEMMA NoImpersonationStep ==
  ForksInv /\ [ForksNext]_forkVars =>
    [resolving.step = "answer" => \A a \in settled' \ settled : a.author # "human"]_forkVars
<1> SUFFICES ASSUME ForksInv, ForksNext, resolving.step = "answer", NEW a \in settled' \ settled
             PROVE  a.author # "human"
  BY DEF forkVars
<1>1. resolving # NoCall /\ resolving.author \in {"system", "agent"}
  BY NoCallIsTyped DEF ForksInv, CallIsAllowed
<1>2. MachineAnswers
  BY <1>1 DEF ForksNext, Resolve, PublishOrDedupe, PersonAnswers, ReselectFork, SwitchMode, CrashResolving
<1>3. Settle(MachineChoice, resolving.author, resolving.fork)
  BY <1>2 DEF MachineAnswers
<1>4. QED BY <1>1, <1>3 DEF Settle

-----------------------------------------------------------------------------
(***************************************************************************)
(* The order of the parts of a plan.  The invariant says what the order so *)
(* far holds, and that a pass that has placed nothing has met no part that *)
(* was ready: that is why a pass that ends without a part proves a cycle.  *)
(***************************************************************************)
OrderingRecord == [parts : Seq(Part), at : Nat \ {0}, order : Seq({p.id : p \in Part}), before : Nat]

PartsTypeOK ==
    /\ ordering \in OrderingRecord
    /\ planned \in {"running", "ordered", "pass", "fail", "cycle", "empty", "too_large", "invalid",
                    "duplicate", "unknown_dependency"}

\* What is placed is a part's, once, after all it depends on.
OrderFollows ==
    /\ Placed \subseteq Ids(ordering.parts)
    /\ \A i, j \in DOMAIN ordering.order : ordering.order[i] = ordering.order[j] => i = j
    /\ \A i, j \in DOMAIN ordering.order : \A k \in DOMAIN ordering.parts :
         ordering.parts[k].id = ordering.order[i] /\ ordering.order[j] \in ordering.parts[k].needs
            => j < i
    /\ \A k \in DOMAIN ordering.parts :
         ordering.parts[k].id \in Placed => ordering.parts[k].needs \subseteq Placed

\* A pass that placed nothing met no part that was ready.
PassIsStuck ==
    /\ ordering.before <= Len(ordering.order)
    /\ Len(ordering.order) = ordering.before =>
          \A k \in DOMAIN ordering.parts : k < ordering.at => ~ Ready(ordering.parts[k])

\* What the order ended as.
PlanIsJudged ==
    /\ planned \in {"ordered", "pass", "fail"} =>
          Refusal(ordering.parts) = "none" /\ Placed = Ids(ordering.parts)
    /\ planned = "pass" => ~ plan_findings(ordering.parts)
    /\ planned = "cycle" =>
         ~ \E order \in [1..Len(ordering.parts) -> Ids(ordering.parts)] : Sound(order)

PartsInv == PartsTypeOK /\ OrderFollows /\ PassIsStuck /\ PlanIsJudged

\* What is placed is the range of the order.
LEMMA PlacedIs == Placed = {ordering.order[i] : i \in DOMAIN ordering.order}
BY DEF Placed, ToSet

\* The first m numbers are finitely many, m of them.
LEMMA FirstNumbers ==
  ASSUME NEW m \in Nat
  PROVE  IsFiniteSet(1 .. m) /\ Cardinality(1 .. m) = m
<1>1. 1 \in Int /\ m \in Int
  OBVIOUS
<1>2. /\ IsFiniteSet(1 .. m)
      /\ Cardinality(1 .. m) = IF 1 > m THEN 0 ELSE m - 1 + 1
  BY <1>1, FS_Interval
<1>3. (IF 1 > m THEN 0 ELSE m - 1 + 1) = m
  OBVIOUS
<1>4. QED BY <1>2, <1>3

\* Parts that are not refused name each part once and depend on parts handed over
\* (dependency_order: the checks).
LEMMA AcceptedParts ==
  ASSUME NEW parts \in Seq(Part), Refusal(parts) = "none"
  PROVE  /\ Len(parts) \in Nat \ {0} /\ DOMAIN parts = 1 .. Len(parts)
         /\ \A i \in DOMAIN parts : parts[i].needs \subseteq Ids(parts)
         /\ Cardinality(Ids(parts)) = Len(parts) /\ IsFiniteSet(Ids(parts))
         /\ \A i, j \in DOMAIN parts : parts[i].id = parts[j].id => i = j
<1> DEFINE n == Len(parts)
           f == [i \in 1 .. n |-> parts[i].id]
<1>1. n \in Nat /\ DOMAIN parts = 1 .. n /\ parts # << >>
  BY DEF Refusal
<1>2. /\ ~ Cardinality(Ids(parts)) < n
      /\ \A i \in DOMAIN parts : parts[i].needs \subseteq Ids(parts)
  BY <1>1 DEF Refusal
<1>3. f \in Surjection(1 .. n, Ids(parts))
  BY <1>1 DEF Surjection, Ids
<1>4. IsFiniteSet(1 .. n) /\ Cardinality(1 .. n) = n
  BY <1>1, FirstNumbers
<1>5. /\ IsFiniteSet(Ids(parts)) /\ Cardinality(Ids(parts)) <= n
      /\ Cardinality(Ids(parts)) = n <=> f \in Injection(1 .. n, Ids(parts))
  BY <1>3, <1>4, FS_Surjection
<1>6. Cardinality(Ids(parts)) \in Nat
  BY <1>5, FS_CardinalityType
<1>7. f \in Injection(1 .. n, Ids(parts)) /\ Cardinality(Ids(parts)) = n
  BY <1>1, <1>2, <1>5, <1>6
<1>8. \A i, j \in DOMAIN parts : parts[i].id = parts[j].id => i = j
  BY <1>1, <1>7 DEF Injection, IsInjective
<1>9. n # 0
  BY <1>1
<1>10. QED BY <1>1, <1>2, <1>5, <1>7, <1>8, <1>9

\* A pass takes the next part: it joins the order when what it depends on is in it.
LEMMA ConsiderKeeps ==
  ASSUME PartsInv, ConsiderPart PROVE PartsInv'
<1> DEFINE parts == ordering.parts
           old == ordering.order
           at == ordering.at
           part == parts[at]
           n == Len(old) + 1
<1>1. /\ planned = "running" /\ Refusal(parts) = "none" /\ at <= Len(parts)
      /\ UNCHANGED <<planned, criteria>>
      /\ ordering' = [ordering EXCEPT !.at = at + 1, !.order = IF Ready(part) THEN Append(old, part.id) ELSE old]
  BY DEF ConsiderPart
<1>2. /\ ordering \in OrderingRecord /\ parts \in Seq(Part) /\ old \in Seq({p.id : p \in Part})
      /\ at \in Nat \ {0} /\ ordering.before \in Nat /\ Len(old) \in Nat /\ DOMAIN old = 1 .. Len(old)
  BY DEF PartsInv, PartsTypeOK, OrderingRecord
<1>3. /\ DOMAIN parts = 1 .. Len(parts) /\ Len(parts) \in Nat
      /\ \A i, j \in DOMAIN parts : parts[i].id = parts[j].id => i = j
  BY <1>1, <1>2, AcceptedParts
<1>4. at \in DOMAIN parts /\ part \in Part
  BY <1>1, <1>2, <1>3
<1>5. /\ ordering'.parts = parts /\ ordering'.at = at + 1 /\ ordering'.before = ordering.before
      /\ ordering'.order = (IF Ready(part) THEN Append(old, part.id) ELSE old)
      /\ ordering' \in OrderingRecord
  <2>1. Append(old, part.id) \in Seq({p.id : p \in Part})
    BY <1>2, <1>4
  <2> DEFINE new == IF Ready(part) THEN Append(old, part.id) ELSE old
  <2>2. new \in Seq({p.id : p \in Part}) /\ at + 1 \in Nat \ {0}
    BY <1>2, <2>1
  <2>3. ordering' = [ordering EXCEPT !.at = at + 1, !.order = new]
    BY <1>1
  <2> HIDE DEF new
  <2>4. /\ ordering'.parts = parts /\ ordering'.at = at + 1 /\ ordering'.before = ordering.before
        /\ ordering'.order = new /\ ordering' \in OrderingRecord
    BY <1>2, <2>2, <2>3 DEF OrderingRecord
  <2>5. QED BY <2>4 DEF new
<1>6. PartsTypeOK' /\ PlanIsJudged'
  BY <1>1, <1>5 DEF PartsInv, PartsTypeOK, PlanIsJudged
<1>7. OrderFollows /\ PassIsStuck
  BY DEF PartsInv
<1>8. CASE ~ Ready(part)
  <2>1. ordering'.order = old
    BY <1>5, <1>8
  <2>2. Placed' = Placed
    BY <2>1 DEF Placed
  <2>3. OrderFollows'
    BY <1>5, <1>7, <2>1, <2>2 DEF OrderFollows, Ids
  <2>4. \A k \in DOMAIN parts : Ready(ordering.parts[k])' <=> Ready(parts[k])
    BY <1>5, <2>2 DEF Ready
  <2>5. PassIsStuck'
    <3>1. \A k \in DOMAIN parts : k < at + 1 => k < at \/ k = at
      BY <1>2, <1>3
    <3>2. QED BY <1>5, <1>7, <1>8, <2>1, <2>4, <3>1 DEF PassIsStuck
  <2>6. QED BY <1>6, <2>3, <2>5 DEF PartsInv
<1>9. CASE Ready(part)
  <2>1. /\ ordering'.order = Append(old, part.id) /\ Len(ordering'.order) = n /\ n \in Nat
        /\ DOMAIN ordering'.order = 1 .. n /\ ordering'.order[n] = part.id
        /\ \A i \in 1 .. Len(old) : ordering'.order[i] = old[i]
    BY <1>2, <1>4, <1>5, <1>9
  <2>2. part.id \notin Placed /\ part.needs \subseteq Placed
    BY <1>9 DEF Ready
  <2>3. Placed' = Placed \cup {part.id}
    BY <1>2, <2>1 DEF Placed, ToSet
  <2>4. \A i \in 1 .. Len(old) : old[i] \in Placed
    BY <1>2 DEF Placed, ToSet
  <2>5. part.id \in Ids(parts)
    BY <1>4 DEF Ids
  <2>6. Ids(ordering.parts)' = Ids(parts)
    BY <1>5 DEF Ids
  <2>7. \A i \in 1 .. n : i = n \/ i \in 1 .. Len(old)
    BY <1>2
  <2>8. \A i, j \in 1 .. n : ordering'.order[i] = ordering'.order[j] => i = j
    BY <1>2, <1>7, <2>1, <2>2, <2>4, <2>7 DEF OrderFollows
  <2>9. ASSUME NEW i \in 1 .. n, NEW j \in 1 .. n, NEW k \in DOMAIN parts,
               parts[k].id = ordering'.order[i], ordering'.order[j] \in parts[k].needs
        PROVE  j < i
    <3>1. CASE i = n
      <4>1. k = at
        BY <1>3, <1>4, <2>1, <2>9, <3>1
      <4>2. j # n
        BY <2>1, <2>2, <2>9, <4>1
      <4>3. QED BY <2>7, <3>1, <4>2, <1>2
    <3>2. CASE i \in 1 .. Len(old)
      <4>1. parts[k].id = old[i] /\ parts[k].id \in Placed
        BY <2>1, <2>4, <2>9, <3>2
      <4>2. parts[k].needs \subseteq Placed
        BY <1>7, <4>1 DEF OrderFollows
      <4>3. j # n
        BY <2>1, <2>2, <2>9, <4>2
      <4>4. j \in 1 .. Len(old) /\ ordering'.order[j] = old[j]
        BY <2>1, <2>7, <4>3
      <4>5. QED BY <1>2, <1>7, <2>9, <3>2, <4>1, <4>4 DEF OrderFollows
    <3>3. QED BY <2>7, <3>1, <3>2
  <2>10. \A k \in DOMAIN parts : parts[k].id \in Placed' => parts[k].needs \subseteq Placed'
    BY <1>3, <1>4, <1>7, <2>2, <2>3 DEF OrderFollows
  <2>11. OrderFollows'
    <3>1. Placed' \subseteq Ids(ordering.parts)'
      BY <1>7, <2>3, <2>5, <2>6 DEF OrderFollows
    <3>2. QED BY <1>5, <2>1, <2>8, <2>9, <2>10, <3>1 DEF OrderFollows
  <2>12. PassIsStuck'
    BY <1>2, <1>5, <1>7, <2>1 DEF PassIsStuck
  <2>13. QED BY <1>6, <2>11, <2>12 DEF PartsInv
<1>10. QED BY <1>8, <1>9

\* A pass that ends stuck has met every part and found none ready: no order of the
\* parts exists (dependency_order: the cycle).
LEMMA StuckIsCycle ==
  ASSUME PartsInv, Refusal(ordering.parts) = "none", ordering.at > Len(ordering.parts),
         Placed # Ids(ordering.parts), Stuck,
         NEW order \in [1 .. Len(ordering.parts) -> Ids(ordering.parts)], Sound(order)
  PROVE  FALSE
<1> DEFINE parts == ordering.parts
           T == {i \in DOMAIN order : order[i] \notin Placed}
<1>1. /\ parts \in Seq(Part) /\ Len(parts) \in Nat /\ DOMAIN parts = 1 .. Len(parts)
      /\ \A k \in DOMAIN parts : parts[k].needs \subseteq Ids(parts)
      /\ ordering.at \in Nat
  BY AcceptedParts DEF PartsInv, PartsTypeOK, OrderingRecord
<1>2. \A k \in DOMAIN parts : ~ Ready(parts[k])
  BY <1>1 DEF PartsInv, PassIsStuck, Stuck
<1>3. Placed \subseteq Ids(parts) /\ {order[i] : i \in DOMAIN order} = Ids(parts)
  BY DEF PartsInv, OrderFollows, Sound, ToSet
<1>4. T \subseteq Nat /\ T # {}
  <2>1. DOMAIN order = 1 .. Len(parts)
    OBVIOUS
  <2>2. T \subseteq Nat
    BY <1>1, <2>1
  <2>3. PICK d \in Ids(parts) : d \notin Placed
    BY <1>3
  <2>4. PICK i \in DOMAIN order : order[i] = d
    BY <1>3, <2>3
  <2>5. QED BY <2>2, <2>3, <2>4
<1>5. PICK i \in T : \A y \in T : i <= y
  BY <1>4, LeastNat
<1>6. PICK k \in DOMAIN parts : parts[k].id = order[i]
  BY <1>3, <1>5 DEF Ids
<1>7. PICK d \in parts[k].needs : d \notin Placed
  BY <1>2, <1>5, <1>6 DEF Ready
<1>8. PICK j \in DOMAIN order : order[j] = d
  BY <1>1, <1>3, <1>7
<1>9. j < i
  BY <1>5, <1>6, <1>7, <1>8 DEF Sound
<1>10. j \in T
  BY <1>7, <1>8
<1>11. i \in Nat /\ j \in Nat /\ i <= j
  BY <1>4, <1>5, <1>10
<1>12. QED BY <1>9, <1>11

\* A pass ends: the order is whole, it is stuck, or another pass begins.
LEMMA EndPassKeeps ==
  ASSUME PartsInv, EndPass PROVE PartsInv'
<1>1. /\ planned = "running" /\ ordering.at > Len(ordering.parts) /\ Refusal(ordering.parts) = "none"
      /\ UNCHANGED criteria
      /\ ordering \in OrderingRecord /\ Len(ordering.order) \in Nat
  BY DEF EndPass, PartsInv, PartsTypeOK, OrderingRecord
<1>2. CASE UNCHANGED ordering
  <2>1. OrderFollows' /\ PassIsStuck'
    BY <1>2 DEF PartsInv, OrderFollows, PassIsStuck, Placed, Ids, Ready
  <2>2. \/ planned' = "ordered" /\ Placed = Ids(ordering.parts)
        \/ planned' = "cycle" /\ Placed # Ids(ordering.parts) /\ Stuck
        \/ planned' = "running"
    BY <1>1 DEF EndPass
  <2>3. PartsTypeOK'
    BY <1>2, <2>2 DEF PartsInv, PartsTypeOK
  <2>4. PlanIsJudged'
    <3>1. planned' = "cycle" =>
            ~ \E order \in [1..Len(ordering.parts) -> Ids(ordering.parts)] : Sound(order)
      BY <1>1, <2>2, StuckIsCycle
    <3>2. QED BY <1>1, <1>2, <2>2, <3>1 DEF PlanIsJudged, Sound, Ids, Refusal, Placed
  <2>5. QED BY <2>1, <2>3, <2>4 DEF PartsInv
<1>3. CASE ordering' = [ordering EXCEPT !.at = 1, !.before = Len(ordering.order)] /\ UNCHANGED planned
  <2>1. /\ ordering' \in OrderingRecord /\ ordering'.parts = ordering.parts
        /\ ordering'.order = ordering.order /\ ordering'.at = 1
        /\ ordering'.before = Len(ordering.order)
    <3> DEFINE l == Len(ordering.order)
    <3>1. ordering' = [ordering EXCEPT !.at = 1, !.before = l] /\ l \in Nat /\ 1 \in Nat \ {0}
      BY <1>1, <1>3
    <3> HIDE DEF l
    <3>2. /\ ordering' \in OrderingRecord /\ ordering'.parts = ordering.parts
          /\ ordering'.order = ordering.order /\ ordering'.at = 1 /\ ordering'.before = l
      BY <1>1, <3>1 DEF OrderingRecord
    <3>3. QED BY <3>2 DEF l
  <2>2. OrderFollows'
    BY <2>1 DEF PartsInv, OrderFollows, Placed, Ids
  <2>3. PassIsStuck'
    <3>1. \A k \in DOMAIN ordering.parts : k \in Nat /\ ~ k < 1
      BY <1>1, AcceptedParts DEF OrderingRecord
    <3>2. QED BY <1>1, <2>1, <3>1 DEF PassIsStuck
  <2>4. PartsTypeOK' /\ PlanIsJudged'
    BY <1>1, <1>3, <2>1 DEF PartsInv, PartsTypeOK, PlanIsJudged
  <2>5. QED BY <2>2, <2>3, <2>4 DEF PartsInv
<1>4. QED BY <1>2, <1>3 DEF EndPass

\* A refusal and an assessment leave the order alone (dependency_order, assess_plan).
LEMMA JudgeKeeps ==
  ASSUME PartsInv, RefuseParts \/ AssessParts PROVE PartsInv'
<1>1. UNCHANGED <<ordering, criteria>>
  BY DEF RefuseParts, AssessParts
<1>2. OrderFollows' /\ PassIsStuck'
  BY <1>1 DEF PartsInv, OrderFollows, PassIsStuck, Placed, Ids, Ready
<1>3. \/ planned' \in {"empty", "too_large", "invalid", "duplicate", "unknown_dependency"}
      \/ /\ planned = "ordered" /\ planned' \in {"fail", "pass"}
         /\ planned' = "pass" => ~ plan_findings(ordering.parts)
  BY DEF RefuseParts, AssessParts, Refusal
<1>4. PartsTypeOK'
  BY <1>1, <1>3 DEF PartsInv, PartsTypeOK
<1>5. PlanIsJudged'
  BY <1>1, <1>3 DEF PartsInv, PlanIsJudged, Refusal, Placed, Ids, plan_findings, Uncovered
<1>6. QED BY <1>2, <1>4, <1>5 DEF PartsInv

LEMMA PartsInitHolds == PartsInit => PartsInv
<1> SUFFICES ASSUME PartsInit PROVE PartsInv
  OBVIOUS
<1>1. PICK parts \in (UNION {[1..n -> Part] : n \in 0..MaxParts})
                     \cup {[i \in 1..(ARRAY_MAX_ITEMS + 1) |-> p] : p \in Part} :
        ordering = [parts |-> parts, at |-> 1, order |-> <<>>, before |-> 0]
  BY DEF PartsInit
<1>2. parts \in Seq(Part)
  <2>1. \A n \in Nat : [1 .. n -> Part] \subseteq Seq(Part)
    OBVIOUS
  <2>2. ASSUME NEW n \in 0 .. MaxParts, parts \in [1 .. n -> Part] PROVE parts \in Seq(Part)
    BY <2>1, <2>2, PartsAssumption
  <2>3. ASSUME NEW p \in Part, parts = [i \in 1..(ARRAY_MAX_ITEMS + 1) |-> p] PROVE parts \in Seq(Part)
    <3>1. ARRAY_MAX_ITEMS + 1 \in Nat /\ parts \in [1 .. ARRAY_MAX_ITEMS + 1 -> Part]
      BY <2>3, PartsAssumption
    <3>2. QED BY <2>1, <3>1
  <2>4. CASE parts \in UNION {[1..n -> Part] : n \in 0..MaxParts}
    BY <2>2, <2>4
  <2>5. CASE parts \in {[i \in 1..(ARRAY_MAX_ITEMS + 1) |-> p] : p \in Part}
    <3>1. PICK p \in Part : parts = [i \in 1..(ARRAY_MAX_ITEMS + 1) |-> p]
      BY <2>5
    <3>2. QED BY <2>3, <3>1
  <2>6. QED BY <1>1, <2>4, <2>5
<1>3. /\ ordering.parts = parts /\ ordering.at = 1 /\ ordering.order = << >> /\ ordering.before = 0
      /\ planned = "running" /\ DOMAIN parts \subseteq Nat \ {0}
  BY <1>1, <1>2 DEF PartsInit
<1>4. ordering \in OrderingRecord
  BY <1>1, <1>2 DEF OrderingRecord
<1>5. Placed = {} /\ DOMAIN ordering.order = {} /\ Len(ordering.order) = 0
  BY <1>3 DEF Placed, ToSet
<1>6. OrderFollows
  BY <1>5 DEF OrderFollows
<1>7. PassIsStuck
  BY <1>3, <1>5 DEF PassIsStuck
<1>8. PartsTypeOK /\ PlanIsJudged
  BY <1>3, <1>4 DEF PartsTypeOK, PlanIsJudged
<1>9. QED BY <1>6, <1>7, <1>8 DEF PartsInv

LEMMA PartsStep == PartsInv /\ [PartsNext]_partsVars => PartsInv'
<1> SUFFICES ASSUME PartsInv, [PartsNext]_partsVars PROVE PartsInv'
  OBVIOUS
<1>1. CASE UNCHANGED partsVars
  <2>1. OrderFollows' /\ PassIsStuck'
    BY <1>1 DEF partsVars, PartsInv, OrderFollows, PassIsStuck, Placed, Ids, Ready
  <2>2. PartsTypeOK'
    BY <1>1 DEF partsVars, PartsInv, PartsTypeOK
  <2>3. PlanIsJudged'
    BY <1>1 DEF partsVars, PartsInv, PlanIsJudged, Refusal, Placed, Ids, Sound, plan_findings, Uncovered
  <2>4. QED BY <2>1, <2>2, <2>3 DEF PartsInv
<1>2. QED BY <1>1, JudgeKeeps, ConsiderKeeps, EndPassKeeps DEF PartsNext

\* A whole order is sound: it holds as many parts as there are, none twice.
LEMMA WholeIsSound ==
  ASSUME PartsInv, Refusal(ordering.parts) = "none", Placed = Ids(ordering.parts)
  PROVE  Sound(ordering.order)
<1> DEFINE old == ordering.order
           n == Len(old)
<1>1. /\ ordering.parts \in Seq(Part) /\ old \in Seq({p.id : p \in Part})
      /\ n \in Nat /\ DOMAIN old = 1 .. n
  BY DEF PartsInv, PartsTypeOK, OrderingRecord
<1>2. Cardinality(Ids(ordering.parts)) = Len(ordering.parts) /\ IsFiniteSet(Ids(ordering.parts))
  BY <1>1, AcceptedParts
<1>3. {old[i] : i \in 1 .. n} = Ids(ordering.parts)
  BY <1>1 DEF Placed, ToSet
<1>4. old \in [1 .. n -> Ids(ordering.parts)]
  BY <1>1, <1>3
<1>5. \A i, j \in 1 .. n : old[i] = old[j] => i = j
  BY <1>1 DEF PartsInv, OrderFollows
<1>6. old \in Surjection(1 .. n, Ids(ordering.parts)) /\ old \in Injection(1 .. n, Ids(ordering.parts))
  <2>1. DOMAIN old = 1 .. n
    BY <1>1
  <2>2. \A t \in Ids(ordering.parts) : \E s \in 1 .. n : old[s] = t
    BY <1>3
  <2>3. QED BY <1>4, <1>5, <2>1, <2>2 DEF Surjection, Injection, IsInjective
<1>7. IsFiniteSet(1 .. n) /\ Cardinality(1 .. n) = n
  <2>1. n \in Nat
    BY <1>1
  <2>2. QED BY <2>1, FirstNumbers
<1>8. Cardinality(Ids(ordering.parts)) = n
  BY <1>6, <1>7, FS_Surjection
<1>9. QED BY <1>2, <1>8 DEF Sound, Placed, PartsInv, OrderFollows

\* The forks and the parts of a plan: a machine answers the fork it was handed with its
\* recommended, enabled position and never in a person's name, a question has one
\* answer, an ordered plan holds every part once after what it depends on, a plan is a
\* cycle only when no such order exists, and a plan that passes serves exactly the
\* task's criteria (resolve_fork, publish_or_dedupe, dependency_order, plan_findings).
THEOREM PlansSafe == ForksSpec /\ PartsSpec => PlansAreSound
<1>1. ForksSpec => [](MachineAnswersItsFork /\ OneAnswerPerFork) /\ NoImpersonation
  <2>1. ForksInv => MachineAnswersItsFork /\ OneAnswerPerFork
    BY DEF ForksInv
  <2>2. QED BY <2>1, ForksInitHolds, ForksStep, NoImpersonationStep, PTL DEF ForksSpec, NoImpersonation
<1>2. PartsInv => OrderIsSound /\ PassIsCovered
  <2> SUFFICES ASSUME PartsInv PROVE OrderIsSound /\ PassIsCovered
    OBVIOUS
  <2>1. OrderIsSound
    BY WholeIsSound DEF PartsInv, PlanIsJudged, OrderIsSound
  <2>2. ASSUME planned = "pass" PROVE PassIsCovered
    <3>1. Placed = Ids(ordering.parts) /\ ~ plan_findings(ordering.parts)
      BY <2>2 DEF PartsInv, PlanIsJudged
    <3>2. /\ criteria # {} /\ Uncovered(ordering.parts) = {}
          /\ \A i \in DOMAIN ordering.parts : /\ ordering.parts[i].serves \subseteq criteria
                                              /\ ordering.parts[i].proof
      BY <3>1 DEF plan_findings
    <3>3. UNION {ordering.parts[i].serves : i \in DOMAIN ordering.parts} = criteria
      BY <3>2 DEF Uncovered
    <3>4. \A id \in ToSet(ordering.order) :
            \E i \in DOMAIN ordering.parts : ordering.parts[i].id = id /\ ordering.parts[i].proof
      BY <3>1, <3>2 DEF Placed, Ids
    <3>5. QED BY <3>2, <3>3, <3>4 DEF PassIsCovered
  <2>3. QED BY <2>1, <2>2 DEF PassIsCovered
<1>3. PartsSpec => [](OrderIsSound /\ PassIsCovered)
  BY <1>2, PartsInitHolds, PartsStep, PTL DEF PartsSpec
<1>4. QED BY <1>1, <1>3, PTL DEF PlansAreSound

-----------------------------------------------------------------------------
(***************************************************************************)
(* One confined check (Checks): whatever is edited, revoked or stopped     *)
(* while it runs, and wherever it dies.                                    *)
(***************************************************************************)
\* A row of the start is written only when no other disposition is, and is never
\* joined by one, as the check it is of is over.
CheckInv ==
    /\ check = [at |-> check.at, native |-> check.native, deps |-> check.deps, todo |-> check.todo]
    /\ siteRows = [s \in Site |-> siteRows[s]]
    /\ siteRows["close.unrecovered"] = "ok" => check.at \in {"boot", "booted"}
    /\ TestedIsCandidate /\ OneDisposition

\* What a step is that a phase starts with: it asked for the rights again.
PhaseAsks ==
    check'.at \in {"vendor", "test"} /\ check.at # check'.at
       => "revoked" \notin world /\ "owner" \notin world
          /\ (check.native => "selection" \notin world)

\* A move of the check leaves the rest of its record.
LEMMA CheckGoes ==
  ASSUME CheckInv, NEW at, Go(at)
  PROVE  /\ check'.at = at /\ check'.native = check.native
         /\ check' = [at |-> check'.at, native |-> check'.native, deps |-> check'.deps,
                      todo |-> check'.todo]
BY DEF CheckInv, Go

\* A step of the check while it runs: it retains rows, none of them of the start.
LEMMA RunningStep ==
  ASSUME CheckInv, check.at \notin {"down", "boot", "booted"},
         check'.at \notin {"boot", "booted"},
         check' = [at |-> check'.at, native |-> check'.native, deps |-> check'.deps,
                   todo |-> check'.todo],
         \/ UNCHANGED siteRows
         \/ \E site \in Site \ {"close.unrecovered"} : \E value :
               siteRows' = [siteRows EXCEPT ![site] = value],
         tested' \in {Nothing, Candidate}
  PROVE  CheckInv'
<1>1. siteRows["close.unrecovered"] # "ok"
  BY DEF CheckInv
<1>2. /\ siteRows' = [s \in Site |-> siteRows'[s]]
      /\ siteRows'["close.unrecovered"] # "ok"
  <2>1. CASE UNCHANGED siteRows
    BY <1>1, <2>1 DEF CheckInv
  <2>2. CASE \E site \in Site \ {"close.unrecovered"} : \E value :
               siteRows' = [siteRows EXCEPT ![site] = value]
    <3>1. PICK site \in Site \ {"close.unrecovered"} :
             \E value : siteRows' = [siteRows EXCEPT ![site] = value]
      BY <2>2
    <3>2. PICK value : siteRows' = [siteRows EXCEPT ![site] = value]
      BY <3>1
    <3>3. QED BY <1>1, <3>2 DEF CheckInv
  <2>3. QED BY <2>1, <2>2
<1>3. OneDisposition'
  BY <1>2 DEF OneDisposition
<1>4. TestedIsCandidate'
  BY DEF TestedIsCandidate, Nothing, Candidate
<1>5. QED BY <1>2, <1>3, <1>4 DEF CheckInv

\* The steps of execute_check.
LEMMA ExecuteKeeps ==
  ASSUME CheckInv,
         \/ RefusePreClaim \/ Claim \/ MakeRoot \/ RecordRoot \/ Inventory \/ PreEffect \/ Stage
         \/ Vendor \/ Test \/ CloseSelection \/ CloseInventory \/ CloseResult \/ ObservePhase
         \/ Fail \/ Reject
  PROVE  CheckInv' /\ PhaseAsks
<1>0. check.at \notin {"down", "boot", "booted"}
  BY DEF RefusePreClaim, Claim, MakeRoot, RecordRoot, Inventory, PreEffect, Stage, Vendor, Test,
         CloseSelection, CloseInventory, CloseResult, ObservePhase, Fail, Reject
<1>1. PICK at \in {"refused", "claimed", "root", "inventory", "copy", "stage", "controls", "vendor",
                   "test", "closing", "result", "closed", "done", "failing"} : Go(at)
  BY DEF RefusePreClaim, Claim, MakeRoot, RecordRoot, Inventory, PreEffect, Stage, Vendor, Test,
         CloseSelection, CloseInventory, CloseResult, ObservePhase, Fail, Reject
<1>2. /\ check'.at = at
      /\ check' = [at |-> check'.at, native |-> check'.native, deps |-> check'.deps,
                   todo |-> check'.todo]
  BY <1>1, CheckGoes
<1>3. \/ UNCHANGED siteRows
      \/ \E site \in Site \ {"close.unrecovered"} : \E value :
            siteRows' = [siteRows EXCEPT ![site] = value]
  <2>1. CASE \/ RefusePreClaim \/ Claim \/ MakeRoot \/ Inventory \/ Stage \/ Vendor \/ Test
             \/ ObservePhase
    BY <2>1 DEF RefusePreClaim, Claim, MakeRoot, Inventory, Stage, Vendor, Test, ObservePhase
  <2>2. CASE RecordRoot
    BY <2>2 DEF RecordRoot, Site
  <2>3. CASE PreEffect
    BY <2>3 DEF PreEffect, Site
  <2>4. CASE CloseSelection
    BY <2>4 DEF CloseSelection, Site
  <2>5. CASE CloseInventory
    BY <2>5 DEF CloseInventory, Site
  <2>6. CASE CloseResult
    BY <2>6 DEF CloseResult, Site
  <2>7. CASE Fail
    BY <2>7 DEF Fail, FailureSite, Site
  <2>8. CASE Reject
    <3>1. UNCHANGED siteRows \/ siteRows' = [siteRows EXCEPT !["cleanup.root"] = "ok"]
      BY <2>8 DEF Reject
    <3>2. QED BY <3>1 DEF Site
  <2>9. QED BY <2>1, <2>2, <2>3, <2>4, <2>5, <2>6, <2>7, <2>8
<1>4. tested' \in {Nothing, Candidate}
  <2>1. CASE Test
    BY <2>1 DEF Test, SealedUnchanged
  <2>2. CASE ~ Test
    <3>1. UNCHANGED tested
      BY <2>2 DEF RefusePreClaim, Claim, MakeRoot, RecordRoot, Inventory, PreEffect, Stage, Vendor,
                  CloseSelection, CloseInventory, CloseResult, ObservePhase, Fail, Reject
    <3>2. QED BY <3>1 DEF CheckInv, TestedIsCandidate
  <2>3. QED BY <2>1, <2>2
<1>5. CheckInv'
  BY <1>0, <1>1, <1>2, <1>3, <1>4, RunningStep
<1>6. PhaseAsks
  <2>1. CASE Vendor \/ Test
    BY <2>1 DEF Vendor, Test, Reconsulted, Admitted, PhaseAsks
  <2>2. CASE ~ (Vendor \/ Test)
    <3>1. \E to \in {"refused", "claimed", "root", "inventory", "copy", "stage", "controls",
                     "closing", "result", "closed", "done", "failing"} : Go(to)
      BY <2>2 DEF RefusePreClaim, Claim, MakeRoot, RecordRoot, Inventory, PreEffect, Stage,
                  CloseSelection, CloseInventory, CloseResult, ObservePhase, Fail, Reject
    <3>2. check'.at \notin {"vendor", "test"}
      BY <3>1, CheckGoes
    <3>3. QED BY <3>2 DEF PhaseAsks
  <2>3. QED BY <2>1, <2>2
<1>7. QED BY <1>5, <1>6

\* A copied file, the vendor phase's own writes, an edit, an event, and the death of the
\* process.
LEMMA MeanwhileKeeps ==
  ASSUME CheckInv,
         \/ \E f \in SourceFile : CopyFile(f) \/ VendorTouches(f) \/ Edit(f)
         \/ \E event \in {"cancel", "late", "revoked", "selection", "owner", "task"} : Happens(event)
         \/ CheckDies
  PROVE  CheckInv' /\ PhaseAsks
<1>1. UNCHANGED <<siteRows, ledger, tested>>
  BY DEF CopyFile, VendorTouches, Edit, Happens, CheckDies
<1>2. CASE CheckDies
  <2>1. check.at \notin {"down", "boot", "booted"} /\ Go("down")
    BY <1>2 DEF CheckDies
  <2>2. /\ check'.at = "down"
        /\ check' = [at |-> check'.at, native |-> check'.native, deps |-> check'.deps,
                     todo |-> check'.todo]
    BY <2>1, CheckGoes
  <2>3. tested' \in {Nothing, Candidate}
    BY <1>1 DEF CheckInv, TestedIsCandidate
  <2>4. CheckInv'
    BY <1>1, <2>1, <2>2, <2>3, RunningStep
  <2>5. QED BY <2>2, <2>4 DEF PhaseAsks
<1>3. CASE ~ CheckDies
  <2>1. /\ check'.at = check.at
        /\ check' = [at |-> check'.at, native |-> check'.native, deps |-> check'.deps,
                     todo |-> check'.todo]
    <3>1. CASE UNCHANGED check
      BY <3>1 DEF CheckInv
    <3>2. CASE \E f \in SourceFile : CopyFile(f)
      <4>1. PICK f \in SourceFile : check' = [check EXCEPT !.todo = @ \ {f}]
        BY <3>2 DEF CopyFile
      <4>2. QED BY <4>1 DEF CheckInv
    <3>3. QED BY <1>3, <3>1, <3>2 DEF VendorTouches, Edit, Happens
  <2>2. CheckInv'
    BY <1>1, <2>1 DEF CheckInv, TestedIsCandidate, OneDisposition, SettledCheck, Finalised,
                      Nothing, Candidate
  <2>3. QED BY <2>1, <2>2 DEF PhaseAsks
<1>4. QED BY <1>2, <1>3

\* The next start: a claimed check without a disposition gets one.
LEMMA StartKeeps ==
  ASSUME CheckInv, Reconcile \/ ResumeCleanup
  PROVE  CheckInv' /\ PhaseAsks
<1>1. UNCHANGED <<tested, ledger>>
  BY DEF Reconcile, ResumeCleanup
<1>2. PICK at \in {"boot", "booted"} : Go(at)
  BY DEF Reconcile, ResumeCleanup
<1>3. /\ check'.at = at
      /\ check' = [at |-> check'.at, native |-> check'.native, deps |-> check'.deps,
                   todo |-> check'.todo]
  BY <1>2, CheckGoes
<1>4. TestedIsCandidate'
  BY <1>1 DEF CheckInv, TestedIsCandidate, Nothing, Candidate
<1>5. siteRows = [s \in Site |-> siteRows[s]]
  BY DEF CheckInv
<1>6. siteRows' = [s \in Site |-> siteRows'[s]] /\ OneDisposition'
  <2>1. CASE Reconcile
    <3>1. siteRows["close.unrecovered"] # "ok"
      BY <2>1 DEF CheckInv, Reconcile
    <3>2. CASE ledger = "planned" \/ SettledCheck
      <4>1. UNCHANGED siteRows
        BY <2>1, <3>2 DEF Reconcile
      <4>2. QED BY <1>1, <1>5, <3>1, <3>2, <4>1 DEF OneDisposition, SettledCheck, Finalised
    <3>3. CASE ~ (ledger = "planned" \/ SettledCheck)
      <4>1. siteRows' = [siteRows EXCEPT !["close.unrecovered"] = "ok"]
        BY <2>1, <3>3 DEF Reconcile
      <4>2. /\ siteRows' = [s \in Site |-> siteRows'[s]]
            /\ siteRows'["close.unrecovered"] = "ok" /\ siteRows'["seam"] = siteRows["seam"]
            /\ siteRows'["close.selection"] = siteRows["close.selection"]
        BY <1>5, <4>1 DEF Site
      <4>3. siteRows["seam"] # "failed" /\ siteRows["close.selection"] # "failed"
        BY <3>3 DEF SettledCheck, Finalised
      <4>4. QED BY <4>2, <4>3 DEF OneDisposition, SettledCheck
    <3>4. QED BY <3>2, <3>3
  <2>2. CASE ResumeCleanup
    <3>1. UNCHANGED siteRows \/ siteRows' = [siteRows EXCEPT !["cleanup.root"] = "ok"]
      BY <2>2 DEF ResumeCleanup
    <3>2. /\ siteRows' = [s \in Site |-> siteRows'[s]]
          /\ \A s \in {"seam", "close.selection", "close.unrecovered"} : siteRows'[s] = siteRows[s]
      BY <1>5, <3>1 DEF Site
    <3>3. check.at = "boot"
      BY <2>2 DEF ResumeCleanup
    <3>4. QED BY <1>1, <3>2, <3>3 DEF CheckInv, OneDisposition, SettledCheck, Finalised
  <2>3. QED BY <2>1, <2>2
<1>7. CheckInv'
  BY <1>3, <1>4, <1>6 DEF CheckInv
<1>8. QED BY <1>3, <1>7 DEF PhaseAsks

\* The invariant of a check, at its start and after every step, and the rights its phases
\* ask for.
LEMMA CheckHolds == ChecksSpec => [](TestedIsCandidate /\ OneDisposition) /\ PhasesReconsult
<1>1. ChecksInit => CheckInv
  BY DEF ChecksInit, CheckInv, TestedIsCandidate, OneDisposition, Site
<1>2. CheckInv /\ [ChecksNext]_checkVars => CheckInv' /\ [PhaseAsks]_checkVars
  <2> SUFFICES ASSUME CheckInv, [ChecksNext]_checkVars PROVE CheckInv' /\ [PhaseAsks]_checkVars
    OBVIOUS
  <2>1. CASE UNCHANGED checkVars
    BY <2>1 DEF checkVars, CheckInv, TestedIsCandidate, OneDisposition, SettledCheck, Finalised,
                Nothing, Candidate
  <2>2. CASE ChecksNext
    BY <2>2, ExecuteKeeps, MeanwhileKeeps, StartKeeps DEF ChecksNext
  <2>3. QED BY <2>1, <2>2
<1>3. CheckInv => TestedIsCandidate /\ OneDisposition
  BY DEF CheckInv
<1>4. [PhaseAsks]_checkVars =>
         [check'.at \in {"vendor", "test"} /\ check.at # check'.at
          => "revoked" \notin world /\ "owner" \notin world
             /\ (check.native => "selection" \notin world)]_checkVars
  BY DEF PhaseAsks
<1>5. QED BY <1>1, <1>2, <1>3, <1>4, PTL DEF ChecksSpec, PhasesReconsult

-----------------------------------------------------------------------------
(***************************************************************************)
(* Staging the registry dependencies of a check: any lockfile, any keys,   *)
(* digests and bounds, and a host that goes on moving directories and      *)
(* rewriting files between any two steps.                                  *)
(***************************************************************************)
StagingStep == {"anchor", "leaf", "walk", "open", "check", "read", "write", "done", "refused"}
LeafKind == {"config", "archive", "entry"}
Place == {Lineage[i] : i \in DOMAIN Lineage}
StagingRow ==
    [ at : StagingStep, leaf : Leaf, walked : Nat, got : Digest, read : Nat, before : SUBSET Place,
      stopped : BOOLEAN, total : Nat ]

AllDeps == lock_registry_dependencies(lock)

\* A leaf's copy of a kind.
Staged(held, kind, key) == \E copy \in held : copy.leaf = <<kind, key>>

\* The dependencies left are the last of the sorted lock, and those before are staged.
LeftAfter(k) ==
    /\ k + Len(deps) = Len(AllDeps)
    /\ \A n \in 1 .. Len(deps) : deps[n] = AllDeps[n + k]
    /\ \A n \in 1 .. k : \A kind \in {"archive", "entry"} : Staged(copies, kind, AllDeps[n].key)

GoodCopy(copy) ==
    /\ copy.leaf[1] = "archive" =>
          \E i \in Registry(lock) : lock[i].key = copy.leaf[2] /\ lock[i].checksum = copy.digest
    /\ copy.before = {} /\ ~copy.stopped
    /\ copy.bytes <= LEAF_MAX

StagingTypes ==
    /\ lock \in Seq(LockRow) /\ deps \in Seq(LockRow)
    /\ cacheFiles \in [Leaf -> CacheFile] /\ away \subseteq Place
    /\ staging \in StagingRow

\* The leaf at hand is the first dependency's, and its archive comes before its entry.
LeafAtHand ==
    /\ deps # << >>
    /\ staging.leaf[1] # "config" => staging.leaf[2] = deps[1].key
    /\ staging.leaf[1] = "entry" => Staged(copies, "archive", deps[1].key)

\* What the recheck of this leaf has walked past leads to the pinned directories.
Walked ==
    /\ staging.before \subseteq away /\ staging.walked < Len(Lineage) /\ ~staging.stopped
    /\ \A i \in 1 .. staging.walked : Lineage[i] \notin staging.before

StagingInv ==
    /\ StagingTypes
    /\ \A copy \in copies : GoodCopy(copy)
    /\ staging.read <= LEAF_MAX + 1
    /\ cancelled \in BOOLEAN
    /\ staging.at = "anchor" => staging.total = 0 /\ staging.leaf[1] = "config"
    /\ staging.at \in {"leaf", "walk", "open", "check", "read", "write"} =>
          LeafAtHand /\ \E k \in Nat : LeftAfter(k)
    /\ staging.at = "walk" => Walked
    /\ staging.at \in {"open", "check", "read", "write"} => staging.before = {} /\ ~staging.stopped
    /\ staging.at = "write" => staging.read <= LEAF_MAX
    /\ staging.at = "done" =>
          /\ staging.total <= STAGED_MAX
          /\ \A n \in 1 .. Len(AllDeps) : \A kind \in {"archive", "entry"} :
                Staged(copies, kind, AllDeps[n].key)

\* The sorted lock: each of its rows is a row of the lockfile, and each crate and version
\* of the lockfile is in it.
LEMMA SortedLock ==
  ASSUME lock \in Seq(LockRow)
  PROVE  /\ AllDeps \in Seq(LockRow)
         /\ \A n \in 1 .. Len(AllDeps) : \E i \in Registry(lock) : AllDeps[n] = lock[i]
         /\ \A i \in Registry(lock) : \E n \in 1 .. Len(AllDeps) : AllDeps[n].key = lock[i].key
<1> DEFINE keys == {lock[i].key : i \in Registry(lock)}
           size == Cardinality(keys)
           key(n) == CHOOSE k \in keys : Cardinality({l \in keys : l < k}) = n - 1
<1>1. Registry(lock) \subseteq 1 .. Len(lock) /\ Len(lock) \in Nat
  BY DEF Registry
<1>2. IsFiniteSet(Registry(lock))
  <2>1. IsFiniteSet(1 .. Len(lock))
    BY <1>1, FirstNumbers
  <2>2. QED BY <1>1, <2>1, FS_Subset
<1>3. \A i \in Registry(lock) : lock[i] \in LockRow
  BY <1>1
<1>4. keys \subseteq Int
  BY <1>3, DependenciesAssumption
<1>5. IsFiniteSet(keys)
  <2> DEFINE h == [i \in Registry(lock) |-> lock[i].key]
  <2>1. h \in Surjection(Registry(lock), keys)
    BY DEF Surjection
  <2>2. QED BY <1>2, <2>1, FS_Surjection
<1>6. ASSUME NEW k \in keys
      PROVE  FirstRow(lock, k) \in Registry(lock) /\ lock[FirstRow(lock, k)].key = k
  <2> DEFINE S == {i \in Registry(lock) : lock[i].key = k}
  <2>1. S \subseteq Nat /\ S # {}
    BY <1>1
  <2>2. PICK i \in S : \A j \in S : i <= j
    BY <2>1, LeastNat
  <2>3. \E i2 \in Registry(lock) :
           lock[i2].key = k /\ \A j \in Registry(lock) : lock[j].key = k => i2 <= j
    BY <2>2
  <2> HIDE DEF keys
  <2>4. QED BY <2>3 DEF FirstRow
<1>7. AllDeps = [n \in 1 .. size |-> lock[FirstRow(lock, key(n))]]
  BY DEF AllDeps, lock_registry_dependencies
<1> HIDE DEF keys
<1>8. /\ size \in Nat
      /\ \A k \in keys : RankIn(keys, k) \in 0 .. size - 1
      /\ \A k, l \in keys : RankIn(keys, k) = RankIn(keys, l) => k = l
      /\ \A r \in 0 .. size - 1 : \E k \in keys : RankIn(keys, k) = r
  BY <1>4, <1>5, RanksFill
<1>9. \A n \in 1 .. size : key(n) \in keys /\ RankIn(keys, key(n)) = n - 1
  <2> SUFFICES ASSUME NEW n \in 1 .. size PROVE key(n) \in keys /\ RankIn(keys, key(n)) = n - 1
    OBVIOUS
  <2>1. n - 1 \in 0 .. size - 1
    BY <1>8
  <2>2. \E k \in keys : Cardinality({l \in keys : l < k}) = n - 1
    BY <1>8, <2>1 DEF RankIn
  <2>3. QED BY <2>2 DEF RankIn
<1> HIDE DEF size, key
<1>10. \A n \in 1 .. size : lock[FirstRow(lock, key(n))] \in LockRow
  BY <1>3, <1>6, <1>9
<1>11. /\ AllDeps \in Seq(LockRow) /\ Len(AllDeps) = size
       /\ \A n \in 1 .. size : AllDeps[n] = lock[FirstRow(lock, key(n))]
  BY <1>7, <1>8, <1>10
<1>12. ASSUME NEW i \in Registry(lock)
       PROVE  \E n \in 1 .. size : AllDeps[n].key = lock[i].key
  <2> DEFINE r == RankIn(keys, lock[i].key)
  <2>1. lock[i].key \in keys
    BY DEF keys
  <2>2. r \in 0 .. size - 1
    BY <1>8, <2>1
  <2>3. r + 1 \in 1 .. size /\ (r + 1) - 1 = r
    BY <1>8, <2>2
  <2>4. key(r + 1) \in keys /\ RankIn(keys, key(r + 1)) = r
    BY <1>9, <2>3
  <2>5. key(r + 1) = lock[i].key
    BY <1>8, <2>1, <2>4
  <2>6. AllDeps[r + 1].key = lock[i].key
    BY <1>6, <1>11, <2>3, <2>4, <2>5
  <2>7. QED BY <2>3, <2>6
<1>13. \A n \in 1 .. size : \E i \in Registry(lock) : AllDeps[n] = lock[i]
  BY <1>6, <1>9, <1>11
<1>14. QED BY <1>11, <1>12, <1>13

\* A step that stages nothing and leaves the lock, the leaf at hand and what is left.
LEMMA StagingGoes ==
  ASSUME StagingInv, UNCHANGED <<lock, deps, copies>>,
         staging.at \in {"leaf", "walk", "open", "check", "read", "write"},
         staging' \in StagingRow, staging'.leaf = staging.leaf, staging'.total = staging.total,
         staging'.at \in {"leaf", "walk", "open", "check", "read", "write", "refused"},
         cacheFiles' \in [Leaf -> CacheFile], away' \subseteq Place, cancelled' \in BOOLEAN,
         staging'.read <= LEAF_MAX + 1,
         staging'.at = "write" => staging'.read <= LEAF_MAX,
         staging'.at = "walk" => Walked',
         staging'.at \in {"open", "check", "read", "write"} =>
            staging'.before = {} /\ ~staging'.stopped
  PROVE  StagingInv'
<1>1. StagingTypes'
  BY DEF StagingInv, StagingTypes, StagingRow, Leaf, Keys, Place, CacheFile
<1>2. \A copy \in copies' : GoodCopy(copy)'
  BY DEF StagingInv, GoodCopy, Registry
<1>3. LeafAtHand'
  BY DEF StagingInv, LeafAtHand, Staged
<1>4. AllDeps' = AllDeps
  BY DEF AllDeps, lock_registry_dependencies, Registry, FirstRow
<1>5. \E k \in Nat : LeftAfter(k)'
  BY <1>4 DEF StagingInv, LeftAfter, Staged
<1>6. QED BY <1>1, <1>2, <1>3, <1>5 DEF StagingInv

\* Each of the steps from a leaf's recheck to its read, and what the host and the owner do
\* meanwhile.
LEMMA LeafKeeps ==
  ASSUME StagingInv, StartLeaf \/ verify_lineage \/ openat_leaf \/ RecheckLeaf \/ read_leaf
  PROVE  StagingInv'
<1>0. /\ staging \in StagingRow /\ cacheFiles \in [Leaf -> CacheFile] /\ away \subseteq Place
      /\ staging.read <= LEAF_MAX + 1 /\ LEAF_MAX \in Nat
  BY DependenciesAssumption DEF StagingInv, StagingTypes
<1>1. UNCHANGED <<lock, deps, cacheFiles, away, cancelled, copies>>
  BY DEF StartLeaf, verify_lineage, openat_leaf, RecheckLeaf, read_leaf
<1>2. cacheFiles' \in [Leaf -> CacheFile] /\ away' \subseteq Place /\ cancelled' \in BOOLEAN
  BY <1>0, <1>1 DEF StagingInv
<1>3. Len(Lineage) = 6 /\ \A i \in 1 .. 6 : Lineage[i] \in Place
  <2>1. Len(Lineage) = 6 /\ DOMAIN Lineage = 1 .. 6
    BY DEF Lineage
  <2>2. QED BY <2>1 DEF Place
<1>4. CASE StartLeaf
  <2>1. PICK at \in {"refused", "walk"} :
           /\ staging' = [staging EXCEPT !.at = at, !.walked = 0, !.before = away,
                                         !.stopped = cancelled]
           /\ at = "walk" => ~cancelled
    BY <1>4 DEF StartLeaf, Rechecks
  <2>2. staging.at = "leaf"
    BY <1>4 DEF StartLeaf, At
  <2>3. cancelled \in BOOLEAN
    BY DEF StagingInv
  <2>4. /\ staging' \in StagingRow /\ staging'.at = at /\ staging'.walked = 0
        /\ staging'.before = away /\ staging'.stopped = cancelled
        /\ staging'.leaf = staging.leaf /\ staging'.total = staging.total
        /\ staging'.read = staging.read
    BY <1>0, <2>1, <2>3 DEF StagingRow, StagingStep
  <2>5. at = "walk" => Walked'
    BY <1>1, <1>3, <2>1, <2>4 DEF Walked
  <2>6. QED BY <1>0, <1>1, <1>2, <2>1, <2>2, <2>4, <2>5, StagingGoes
<1>5. CASE verify_lineage
  <2>1. staging.at = "walk" /\ Walked
    BY <1>5 DEF verify_lineage, At, StagingInv
  <2>2. staging.walked \in Nat /\ staging.walked < 6 /\ staging.before \subseteq away
    BY <1>0, <1>3, <2>1 DEF Walked, StagingRow
  <2>3. CASE ~ openat_directory(Lineage[staging.walked + 1])
    <3>1. staging' = [staging EXCEPT !.at = "refused"]
      BY <1>5, <2>3 DEF verify_lineage, RefuseLeaf
    <3>2. /\ staging' \in StagingRow /\ staging'.at = "refused" /\ staging'.leaf = staging.leaf
          /\ staging'.total = staging.total /\ staging'.read = staging.read
      BY <1>0, <3>1 DEF StagingRow, StagingStep
    <3>3. QED BY <1>0, <1>1, <1>2, <2>1, <3>2, StagingGoes
  <2>4. CASE openat_directory(Lineage[staging.walked + 1])
    <3> DEFINE w == staging.walked + 1
               at == IF w = Len(Lineage) THEN "open" ELSE "walk"
    <3>1. staging' = [staging EXCEPT !.walked = w, !.at = at]
      BY <1>5, <2>4 DEF verify_lineage
    <3>2. w \in 1 .. 6 /\ (at = "walk" => w < 6) /\ (at = "open" => w = 6)
          /\ at \in {"open", "walk"} /\ w \in Nat
      BY <1>3, <2>2
    <3>3. \A i \in 1 .. w : Lineage[i] \notin staging.before
      <4>1. SUFFICES ASSUME NEW i \in 1 .. w PROVE Lineage[i] \notin staging.before
        OBVIOUS
      <4>2. CASE i = w
        BY <2>2, <2>4, <4>2 DEF openat_directory
      <4>3. CASE i # w
        <5>1. i \in 1 .. staging.walked
          BY <2>2, <4>3
        <5>2. QED BY <2>1, <5>1 DEF Walked
      <4>4. QED BY <4>2, <4>3
    <3> HIDE DEF w, at
    <3>4. /\ staging' \in StagingRow /\ staging'.at = at /\ staging'.walked = w
          /\ staging'.leaf = staging.leaf /\ staging'.total = staging.total
          /\ staging'.read = staging.read /\ staging'.before = staging.before
          /\ staging'.stopped = staging.stopped
      <4>1. at \in StagingStep
        BY <3>2 DEF StagingStep
      <4>2. QED BY <1>0, <3>1, <3>2, <4>1 DEF StagingRow
    <3>5. at = "walk" => Walked'
      BY <1>1, <1>3, <2>1, <3>2, <3>3, <3>4 DEF Walked
    <3>6. at = "open" => staging.before = {} /\ ~staging.stopped
      <4>1. ~staging.stopped
        BY <2>1 DEF Walked
      <4>2. at = "open" => \A i \in 1 .. 6 : Lineage[i] \notin staging.before
        BY <3>2, <3>3
      <4>3. staging.before \subseteq Place
        BY <1>0 DEF StagingRow
      <4>4. DOMAIN Lineage = 1 .. 6
        BY DEF Lineage
      <4>5. QED BY <4>1, <4>2, <4>3, <4>4 DEF Place
    <3>7. QED BY <1>0, <1>1, <1>2, <2>1, <3>2, <3>4, <3>5, <3>6, StagingGoes
  <2>5. QED BY <2>3, <2>4
<1>6. CASE openat_leaf \/ RecheckLeaf
  <2>1. PICK at \in {"check", "read", "refused"} : staging' = [staging EXCEPT !.at = at]
    BY <1>6 DEF openat_leaf, RecheckLeaf
  <2>2. staging.at \in {"open", "check"} /\ staging.before = {} /\ ~staging.stopped
    BY <1>6 DEF openat_leaf, RecheckLeaf, At, StagingInv
  <2>3. /\ staging' \in StagingRow /\ staging'.at = at
        /\ staging'.leaf = staging.leaf /\ staging'.total = staging.total
        /\ staging'.read = staging.read /\ staging'.before = staging.before
        /\ staging'.stopped = staging.stopped
    BY <1>0, <2>1 DEF StagingRow, StagingStep
  <2>4. QED BY <1>0, <1>1, <1>2, <2>2, <2>3, StagingGoes
<1>7. CASE read_leaf
  <2> DEFINE found == cacheFiles[staging.leaf]
             n == Taken(found.size)
             at == IF n > LEAF_MAX THEN "refused" ELSE "write"
  <2>1. staging' = [staging EXCEPT !.read = n, !.got = found.digest, !.at = at]
    BY <1>7 DEF read_leaf
  <2>2. staging.at = "read" /\ staging.before = {} /\ ~staging.stopped
    BY <1>7 DEF read_leaf, At, StagingInv
  <2>3. staging.leaf \in Leaf
    BY <1>0 DEF StagingRow
  <2>4. found.size \in Nat /\ found.digest \in Digest
    BY <1>0, <2>3 DEF CacheFile
  <2> HIDE DEF found
  <2>5. n \in Nat /\ n <= LEAF_MAX + 1
    BY <1>0, <2>4 DEF Taken
  <2>6. at \in {"refused", "write"} /\ (at = "write" => n <= LEAF_MAX)
    BY <1>0, <2>5
  <2> HIDE DEF n, at
  <2>7. /\ staging' \in StagingRow /\ staging'.at = at
        /\ staging'.leaf = staging.leaf /\ staging'.total = staging.total
        /\ staging'.read = n /\ staging'.before = staging.before
        /\ staging'.stopped = staging.stopped
    BY <1>0, <2>1, <2>4, <2>5, <2>6 DEF StagingRow, StagingStep
  <2>8. QED BY <1>0, <1>1, <1>2, <2>2, <2>5, <2>6, <2>7, StagingGoes
<1>8. QED BY <1>4, <1>5, <1>6, <1>7

\* A renamed directory, a rewritten file and a cancellation.
LEMMA HostKeeps ==
  ASSUME StagingInv,
         \/ CancelCheck
         \/ \E i \in DOMAIN Lineage : Move(Lineage[i])
         \/ \E found \in Touched(cacheFiles[staging.leaf]) : Touch(found)
  PROVE  StagingInv'
<1>0. /\ staging \in StagingRow /\ cacheFiles \in [Leaf -> CacheFile] /\ away \subseteq Place
      /\ staging.read <= LEAF_MAX + 1 /\ LEAF_MAX \in Nat
  BY DependenciesAssumption DEF StagingInv, StagingTypes
<1>1. UNCHANGED <<lock, deps, copies>> /\ cancelled' \in BOOLEAN
  BY DEF CancelCheck, Move, Touch, StagingInv
<1>2. CASE CancelCheck
  <2>1. UNCHANGED <<staging, away, cacheFiles>> /\ staging.at = "leaf"
    BY <1>2 DEF CancelCheck, Fault
  <2>2. QED BY <1>0, <1>1, <2>1, StagingGoes
<1>3. CASE \E i \in DOMAIN Lineage : Move(Lineage[i])
  <2>1. PICK i \in DOMAIN Lineage : Move(Lineage[i])
    BY <1>3
  <2>2. /\ Lineage[i] \in Place /\ UNCHANGED cacheFiles /\ staging.at \in {"leaf", "walk"}
    BY <2>1 DEF Move, Fault, Place
  <2>3. CASE Lineage[i] \in away
    <3> DEFINE b == staging.before \ {Lineage[i]}
    <3>1. away' = away \ {Lineage[i]} /\ staging' = [staging EXCEPT !.before = b]
      BY <2>1, <2>3 DEF Move
    <3>2. b \in SUBSET Place
      BY <1>0 DEF StagingRow
    <3>3. b \subseteq staging.before /\ (staging.before \subseteq away => b \subseteq away')
      BY <3>1
    <3> HIDE DEF b
    <3>4. /\ staging' \in StagingRow /\ staging'.at = staging.at /\ staging'.before = b
          /\ staging'.leaf = staging.leaf /\ staging'.total = staging.total
          /\ staging'.read = staging.read /\ staging'.walked = staging.walked
          /\ staging'.stopped = staging.stopped
      BY <1>0, <3>1, <3>2 DEF StagingRow
    <3>5. staging'.at = "walk" => Walked'
      <4>1. SUFFICES ASSUME staging'.at = "walk" PROVE Walked'
        OBVIOUS
      <4>2. Walked
        BY <3>4, <4>1 DEF StagingInv
      <4>3. QED BY <3>3, <3>4, <4>2 DEF Walked
    <3>6. QED BY <1>0, <1>1, <2>2, <3>1, <3>4, <3>5, StagingGoes
  <2>4. CASE Lineage[i] \notin away
    <3>1. away' = away \cup {Lineage[i]} /\ UNCHANGED staging
      BY <2>1, <2>4 DEF Move
    <3>2. staging'.at = "walk" => Walked'
      BY <3>1 DEF Walked, StagingInv
    <3>3. away' \subseteq Place
      BY <1>0, <2>2, <3>1
    <3>4. QED BY <1>0, <1>1, <2>2, <3>1, <3>2, <3>3, StagingGoes
  <2>5. QED BY <2>3, <2>4
<1>4. CASE \E found \in Touched(cacheFiles[staging.leaf]) : Touch(found)
  <2>1. PICK found \in Touched(cacheFiles[staging.leaf]) : Touch(found)
    BY <1>4
  <2>2. cacheFiles[staging.leaf] \in CacheFile /\ staging.leaf \in Leaf
    BY <1>0 DEF StagingRow
  <2>3. found \in CacheFile
    <3> DEFINE old == cacheFiles[staging.leaf]
    <3>1. old \in CacheFile
      BY <2>2
    <3>2. \/ \E n \in 0 .. 2 : found = [old EXCEPT !.size = LEAF_MAX + n]
          \/ \E n \in {0, 2} : found = [old EXCEPT !.links = n]
          \/ \E d \in Digest : found = [old EXCEPT !.digest = d]
      BY <2>1 DEF Touched
    <3> HIDE DEF old
    <3>3. CASE \E n \in 0 .. 2 : found = [old EXCEPT !.size = LEAF_MAX + n]
      <4>1. PICK n \in 0 .. 2 : found = [old EXCEPT !.size = LEAF_MAX + n]
        BY <3>3
      <4> DEFINE grown == LEAF_MAX + n
      <4>2. grown \in Nat
        BY <1>0
      <4> HIDE DEF grown
      <4>3. found = [old EXCEPT !.size = grown]
        BY <4>1 DEF grown
      <4>4. QED BY <3>1, <4>2, <4>3 DEF CacheFile
    <3>4. CASE \E n \in {0, 2} : found = [old EXCEPT !.links = n]
      <4>1. PICK n \in {0, 2} : found = [old EXCEPT !.links = n]
        BY <3>4
      <4>2. n \in Nat
        OBVIOUS
      <4>3. QED BY <3>1, <4>1, <4>2 DEF CacheFile
    <3>5. CASE \E d \in Digest : found = [old EXCEPT !.digest = d]
      BY <3>1, <3>5 DEF CacheFile
    <3>6. QED BY <3>2, <3>3, <3>4, <3>5
  <2>4. /\ cacheFiles' = [cacheFiles EXCEPT ![staging.leaf] = found] /\ UNCHANGED <<away, staging>>
        /\ staging.at \in {"open", "check", "read", "write"}
    BY <2>1 DEF Touch, Fault
  <2>5. cacheFiles' \in [Leaf -> CacheFile]
    BY <1>0, <2>3, <2>4
  <2>6. /\ staging.at = "write" => staging.read <= LEAF_MAX
        /\ staging.before = {} /\ ~staging.stopped
    BY <2>4 DEF StagingInv
  <2>7. QED BY <1>0, <1>1, <2>4, <2>5, <2>6, StagingGoes
<1>5. QED BY <1>2, <1>3, <1>4

\* The anchor: the whole sorted lock is left, or nothing is to stage.
LEMMA AnchorKeeps == ASSUME StagingInv, anchor_dependencies PROVE StagingInv'
<1>0. /\ staging \in StagingRow /\ staging.at = "anchor" /\ lock \in Seq(LockRow)
      /\ staging.total = 0
  BY DEF StagingInv, StagingTypes, anchor_dependencies, At
<1>1. UNCHANGED <<lock, cacheFiles, away, cancelled, copies>>
  BY DEF anchor_dependencies
<1>2. AllDeps \in Seq(LockRow)
  BY <1>0, SortedLock
<1>3. AllDeps' = AllDeps
  BY <1>1 DEF AllDeps, lock_registry_dependencies, Registry, FirstRow
<1>4. (\A copy \in copies' : GoodCopy(copy)') /\ cancelled' \in BOOLEAN
  BY <1>1 DEF StagingInv, GoodCopy, Registry
<1>5. CASE LockRefused(lock) \/ \E i \in DOMAIN Lineage : ~openat_directory(Lineage[i])
  <2>1. staging' = [staging EXCEPT !.at = "refused"] /\ UNCHANGED deps
    BY <1>5 DEF anchor_dependencies, RefuseLeaf
  <2>2. staging' \in StagingRow /\ staging'.at = "refused" /\ staging'.read = staging.read
    BY <1>0, <2>1 DEF StagingRow, StagingStep
  <2>3. StagingTypes'
    BY <1>1, <2>1, <2>2 DEF StagingInv, StagingTypes, StagingRow, Leaf, Keys, Place, CacheFile
  <2>4. QED BY <1>4, <2>2, <2>3 DEF StagingInv
<1>6. CASE ~ (LockRefused(lock) \/ \E i \in DOMAIN Lineage : ~openat_directory(Lineage[i]))
  <2> DEFINE at == IF AllDeps = << >> THEN "done" ELSE "leaf"
  <2>1. deps' = AllDeps /\ staging' = [staging EXCEPT !.at = at]
    BY <1>6 DEF anchor_dependencies, AllDeps
  <2>2. at \in {"done", "leaf"} /\ (at = "done" => AllDeps = << >>)
        /\ (at = "leaf" => AllDeps # << >>)
    OBVIOUS
  <2> HIDE DEF at
  <2>3. /\ staging' \in StagingRow /\ staging'.at = at /\ staging'.read = staging.read
        /\ staging'.total = 0 /\ staging'.leaf = staging.leaf
    BY <1>0, <2>1, <2>2 DEF StagingRow, StagingStep
  <2>4. StagingTypes'
    BY <1>1, <1>2, <2>1, <2>3 DEF StagingInv, StagingTypes, StagingRow, Leaf, Keys, Place, CacheFile
  <2>5. staging.leaf[1] = "config"
    BY <1>0 DEF StagingInv
  <2>6. at = "leaf" => LeafAtHand' /\ LeftAfter(0)'
    <3>1. at = "leaf" => LeafAtHand'
      BY <2>1, <2>2, <2>3, <2>5 DEF LeafAtHand
    <3>2. LeftAfter(0)'
      BY <1>2, <1>3, <2>1 DEF LeftAfter
    <3>3. QED BY <3>1, <3>2
  <2>7. STAGED_MAX \in Nat
    BY DependenciesAssumption
  <2>8. at = "done" => \A n \in 1 .. Len(AllDeps) : \A kind \in {"archive", "entry"} :
                          Staged(copies', kind, AllDeps[n].key)
    BY <2>2
  <2>9. QED BY <1>3, <1>4, <2>2, <2>3, <2>4, <2>6, <2>7, <2>8 DEF StagingInv
<1>7. QED BY <1>5, <1>6

\* A staged leaf: a copy of what was read, and the leaf after it.
LEMMA StageKeeps == ASSUME StagingInv, StageLeaf PROVE StagingInv'
<1> DEFINE kind == staging.leaf[1]
           total == staging.total + (IF kind = "archive" THEN staging.read ELSE 0)
           copy == [leaf |-> staging.leaf, digest |-> WrittenDigest, bytes |-> staging.read,
                    before |-> staging.before, stopped |-> staging.stopped]
           bad == \/ kind = "archive" /\ staging.got # Head(deps).checksum
                  \/ kind = "entry" /\ staging.got \in Garbage
           deps2 == IF kind = "entry" THEN Tail(deps) ELSE deps
           at == IF total > STAGED_MAX THEN "refused" ELSE IF deps2 = << >> THEN "done" ELSE "leaf"
<1>0. /\ staging \in StagingRow /\ staging.at = "write" /\ lock \in Seq(LockRow)
      /\ deps \in Seq(LockRow) /\ LeafAtHand /\ staging.read <= LEAF_MAX
      /\ staging.before = {} /\ ~staging.stopped /\ LEAF_MAX \in Nat /\ STAGED_MAX \in Nat
      /\ staging.read <= LEAF_MAX + 1 /\ cancelled \in BOOLEAN
  BY DependenciesAssumption DEF StagingInv, StagingTypes, StageLeaf, At
<1>1. UNCHANGED <<lock, cacheFiles, away, cancelled>>
  BY DEF StageLeaf
<1>2. /\ AllDeps \in Seq(LockRow) /\ AllDeps' = AllDeps
      /\ \A n \in 1 .. Len(AllDeps) : \E i \in Registry(lock) : AllDeps[n] = lock[i]
  <2>1. AllDeps' = AllDeps
    BY <1>1 DEF AllDeps, lock_registry_dependencies, Registry, FirstRow
  <2>2. QED BY <1>0, <2>1, SortedLock
<1>3. PICK k \in Nat : LeftAfter(k)
  BY <1>0 DEF StagingInv
<1>4. /\ Len(deps) \in Nat /\ Len(deps) > 0 /\ deps[1] \in LockRow /\ Head(deps) = deps[1]
      /\ deps[1] = AllDeps[k + 1] /\ k + 1 \in 1 .. Len(AllDeps)
  <2>1. Len(deps) \in Nat /\ Len(deps) > 0 /\ deps[1] \in LockRow /\ Head(deps) = deps[1]
    BY <1>0 DEF LeafAtHand
  <2>2. k + 1 \in 1 .. Len(AllDeps) /\ 1 \in 1 .. Len(deps)
    BY <1>2, <1>3, <2>1 DEF LeftAfter
  <2>3. deps[1] = AllDeps[1 + k]
    BY <1>3, <2>2 DEF LeftAfter
  <2>4. QED BY <2>1, <2>2, <2>3
<1>5. /\ staging.leaf = <<kind, staging.leaf[2]>> /\ kind \in LeafKind
      /\ kind # "config" => staging.leaf = <<kind, deps[1].key>>
      /\ kind = "entry" => Staged(copies, "archive", deps[1].key)
  <2>1. staging.leaf \in Leaf
    BY <1>0 DEF StagingRow
  <2>2. staging.leaf = <<kind, staging.leaf[2]>> /\ kind \in LeafKind
    BY <2>1 DEF Leaf, LeafKind
  <2>3. QED BY <1>0, <2>2 DEF LeafAtHand
<1>6. CASE bad
  <2>1. staging' = [staging EXCEPT !.at = "refused"] /\ UNCHANGED <<deps, copies>>
    BY <1>6 DEF StageLeaf, RefuseLeaf
  <2>2. /\ staging' \in StagingRow /\ staging'.at = "refused" /\ staging'.leaf = staging.leaf
        /\ staging'.total = staging.total /\ staging'.read = staging.read
    BY <1>0, <2>1 DEF StagingRow, StagingStep
  <2>3. cacheFiles' \in [Leaf -> CacheFile] /\ away' \subseteq Place /\ cancelled' \in BOOLEAN
    BY <1>0, <1>1 DEF StagingInv, StagingTypes
  <2>4. QED BY <1>0, <1>1, <2>1, <2>2, <2>3, StagingGoes
<1>7. CASE ~bad
  <2>1. /\ copies' = copies \cup {copy} /\ deps' = deps2
        /\ staging' = [staging EXCEPT !.total = total, !.leaf = NextLeaf, !.at = at]
    BY <1>7 DEF StageLeaf
  <2>2. GoodCopy(copy)
    <3>1. ASSUME kind = "archive"
          PROVE  \E i \in Registry(lock) :
                    lock[i].key = staging.leaf[2] /\ lock[i].checksum = staging.got
      <4>1. staging.got = deps[1].checksum /\ staging.leaf[2] = deps[1].key
        BY <1>4, <1>5, <1>7, <3>1
      <4>2. PICK i \in Registry(lock) : deps[1] = lock[i]
        BY <1>2, <1>4
      <4>3. QED BY <4>1, <4>2
    <3>2. QED BY <1>0, <3>1 DEF GoodCopy, WrittenDigest
  <2>3. \A c \in copies' : GoodCopy(c)'
    <3>1. \A c \in copies' : GoodCopy(c)
      BY <2>1, <2>2 DEF StagingInv
    <3>2. QED BY <1>1, <3>1 DEF GoodCopy, Registry
  <2>4. copy.leaf = staging.leaf
    OBVIOUS
  <2> HIDE DEF copy
  <2>5. /\ \A kd, key : Staged(copies, kd, key) => Staged(copies', kd, key)
        /\ kind # "config" => Staged(copies', kind, deps[1].key)
    BY <1>5, <2>1, <2>4 DEF Staged
  <2>6. total \in Nat
    BY <1>0 DEF StagingRow
  <2> HIDE DEF total
  <2>7. /\ deps2 \in Seq(LockRow)
        /\ kind # "entry" => deps2 = deps
        /\ kind = "entry" => /\ Len(deps2) = Len(deps) - 1
                             /\ \A n \in 1 .. Len(deps2) : deps2[n] = deps[n + 1]
    BY <1>0, <1>4
  <2> HIDE DEF deps2
  <2>8. /\ at \in {"refused", "done", "leaf"}
        /\ at = "done" => total <= STAGED_MAX /\ deps2 = << >>
        /\ at = "leaf" => deps2 # << >>
    BY <1>0, <2>6
  <2> HIDE DEF at
  <2>9. /\ NextLeaf \in Leaf
        /\ kind = "config" => NextLeaf = <<"archive", deps[1].key>>
        /\ kind = "archive" => NextLeaf = <<"entry", deps[1].key>>
        /\ kind = "entry" /\ Len(deps) > 1 => NextLeaf = <<"archive", deps[2].key>>
    <3>1. deps[1].key \in Keys /\ (Len(deps) > 1 => deps[2].key \in Keys)
      BY <1>0, <1>4 DEF Keys
    <3>2. /\ kind = "config" => NextLeaf = <<"archive", deps[1].key>>
          /\ kind = "archive" => NextLeaf = <<"entry", deps[1].key>>
          /\ kind = "entry" /\ Len(deps) > 1 => NextLeaf = <<"archive", deps[2].key>>
          /\ kind = "entry" /\ ~(Len(deps) > 1) => NextLeaf = staging.leaf
      BY <1>4 DEF NextLeaf
    <3>3. staging.leaf \in Leaf
      BY <1>0 DEF StagingRow
    <3>4. QED BY <1>5, <3>1, <3>2, <3>3 DEF Leaf, LeafKind
  <2> DEFINE next == NextLeaf
  <2>10. staging' = [staging EXCEPT !.total = total, !.leaf = next, !.at = at] /\ next \in Leaf
    BY <2>1, <2>9
  <2> HIDE DEF next
  <2>11. /\ staging' \in StagingRow /\ staging'.at = at /\ staging'.leaf = next
         /\ staging'.total = total /\ staging'.read = staging.read
    <3>1. at \in StagingStep
      BY <2>8 DEF StagingStep
    <3>2. QED BY <1>0, <2>6, <2>10, <3>1 DEF StagingRow
  <2>12. StagingTypes'
    BY <1>1, <2>1, <2>7, <2>11 DEF StagingInv, StagingTypes, StagingRow, Leaf, Keys, Place,
                                   CacheFile
  <2>13. at = "leaf" => LeafAtHand'
    <3>1. SUFFICES ASSUME at = "leaf" PROVE LeafAtHand'
      OBVIOUS
    <3>2. deps' # << >> /\ deps' = deps2
      BY <2>1, <2>8, <3>1
    <3>3. CASE kind = "config"
      <4>1. staging'.leaf = <<"archive", deps[1].key>> /\ deps' = deps
        BY <2>7, <2>9, <2>11, <3>2, <3>3 DEF next
      <4>2. QED BY <3>2, <4>1 DEF LeafAtHand
    <3>4. CASE kind = "archive"
      <4>1. staging'.leaf = <<"entry", deps[1].key>> /\ deps' = deps
        BY <2>7, <2>9, <2>11, <3>2, <3>4 DEF next
      <4>2. Staged(copies', "archive", deps'[1].key)
        BY <2>5, <3>4, <4>1
      <4>3. QED BY <3>2, <4>1, <4>2 DEF LeafAtHand
    <3>5. CASE kind = "entry"
      <4>1. Len(deps) > 1 /\ deps'[1] = deps[2]
        <5>1. Len(deps2) > 0
          BY <2>7, <3>2
        <5>2. QED BY <1>4, <2>7, <3>2, <3>5, <5>1
      <4>2. staging'.leaf = <<"archive", deps'[1].key>>
        BY <2>9, <2>11, <3>5, <4>1 DEF next
      <4>3. QED BY <3>2, <4>2 DEF LeafAtHand
    <3>6. QED BY <1>5, <3>3, <3>4, <3>5 DEF LeafKind
  <2>14. kind # "entry" => LeftAfter(k)'
    BY <1>2, <1>3, <2>1, <2>5, <2>7 DEF LeftAfter
  <2>15. kind = "entry" => LeftAfter(k + 1)'
    <3>1. SUFFICES ASSUME kind = "entry" PROVE LeftAfter(k + 1)'
      OBVIOUS
    <3>2. /\ Len(deps') = Len(deps) - 1 /\ Len(deps) \in Nat
          /\ \A n \in 1 .. Len(deps') : deps'[n] = deps[n + 1]
      BY <1>4, <2>1, <2>7, <3>1
    <3>3. (k + 1) + Len(deps') = Len(AllDeps)
      BY <1>3, <3>2 DEF LeftAfter
    <3>4. ASSUME NEW n \in 1 .. Len(deps') PROVE deps'[n] = AllDeps[n + (k + 1)]
      <4>1. n + 1 \in 1 .. Len(deps) /\ (n + 1) + k = n + (k + 1)
        BY <3>2
      <4>2. deps[n + 1] = AllDeps[(n + 1) + k]
        BY <1>3, <4>1 DEF LeftAfter
      <4>3. QED BY <3>2, <4>1, <4>2
    <3>5. ASSUME NEW n \in 1 .. k + 1, NEW kd \in {"archive", "entry"}
          PROVE  Staged(copies', kd, AllDeps[n].key)
      <4>1. CASE n \in 1 .. k
        BY <1>3, <2>5, <4>1 DEF LeftAfter
      <4>2. CASE n = k + 1
        <5>1. Staged(copies', "archive", deps[1].key) /\ Staged(copies', "entry", deps[1].key)
          BY <1>5, <2>5, <3>1
        <5>2. QED BY <1>4, <4>2, <5>1
      <4>3. QED BY <4>1, <4>2
    <3>6. QED BY <1>2, <3>3, <3>4, <3>5 DEF LeftAfter
  <2>16. \E j \in Nat : LeftAfter(j)'
    BY <2>14, <2>15
  <2>17. at = "done" => \A n \in 1 .. Len(AllDeps') : \A kd \in {"archive", "entry"} :
                          Staged(copies', kd, AllDeps'[n].key)
    <3>1. SUFFICES ASSUME at = "done"
                   PROVE  \A n \in 1 .. Len(AllDeps') : \A kd \in {"archive", "entry"} :
                             Staged(copies', kd, AllDeps'[n].key)
      OBVIOUS
    <3>2. PICK j \in Nat : LeftAfter(j)'
      BY <2>16
    <3>3. Len(deps') = 0
      BY <2>1, <2>8, <3>1
    <3>4. j = Len(AllDeps')
      BY <1>2, <3>2, <3>3 DEF LeftAfter
    <3>5. QED BY <3>2, <3>4 DEF LeftAfter
  <2>18. QED BY <1>0, <1>1, <2>3, <2>8, <2>11, <2>12, <2>13, <2>16, <2>17 DEF StagingInv
<1>8. QED BY <1>6, <1>7

\* The invariant of the staging, at its start and after every step.
LEMMA StagingHolds == DependenciesSpec => [](StagedIsLocked /\ StagedInPlace /\ ReadsBounded)
<1>1. DependenciesInit => StagingInv
  <2> SUFFICES ASSUME DependenciesInit PROVE StagingInv
    OBVIOUS
  <2>1. lock \in Seq(LockRow) /\ deps \in Seq(LockRow)
    BY DEF DependenciesInit
  <2>2. cacheFiles \in [Leaf -> CacheFile]
    <3>1. PICK found \in FirstFiles, denied \in {{}} \cup {{leaf} : leaf \in Leaf} :
             cacheFiles = [leaf \in Leaf |-> [found EXCEPT !.denied = leaf \in denied]]
      BY DEF DependenciesInit
    <3>2. found \in CacheFile
      BY DependenciesAssumption
    <3>3. ASSUME NEW b \in BOOLEAN PROVE [found EXCEPT !.denied = b] \in CacheFile
      BY <3>2 DEF CacheFile
    <3>4. \A leaf \in Leaf : (leaf \in denied) \in BOOLEAN
      OBVIOUS
    <3>5. \A leaf \in Leaf : [found EXCEPT !.denied = leaf \in denied] \in CacheFile
      BY <3>3, <3>4
    <3>6. QED BY <3>1, <3>5
  <2>3. away \subseteq Place
    BY DEF DependenciesInit, Place
  <2>4. staging \in StagingRow
    <3>1. (CHOOSE d \in Digest : TRUE) \in Digest
      BY DependenciesAssumption
    <3>2. QED BY <3>1 DEF DependenciesInit, Unstaged, StagingRow, StagingStep, Leaf
  <2>5. LEAF_MAX \in Nat
    BY DependenciesAssumption
  <2>6. /\ staging.at = "anchor" /\ staging.read = 0 /\ staging.total = 0
        /\ staging.leaf[1] = "config" /\ copies = {} /\ cancelled = FALSE
    BY DEF DependenciesInit, Unstaged
  <2>7. StagingTypes
    BY <2>1, <2>2, <2>3, <2>4 DEF StagingTypes
  <2>8. staging.read <= LEAF_MAX + 1
    BY <2>5, <2>6
  <2>9. QED BY <2>6, <2>7, <2>8 DEF StagingInv
<1>2. StagingInv /\ [DependenciesNext]_dependencyVars => StagingInv'
  <2> SUFFICES ASSUME StagingInv, [DependenciesNext]_dependencyVars PROVE StagingInv'
    OBVIOUS
  <2>1. CASE UNCHANGED dependencyVars
    <3>1. UNCHANGED <<lock, deps, cacheFiles, away, cancelled, staging, copies, hostSteps>>
      BY <2>1 DEF dependencyVars
    <3>2. AllDeps' = AllDeps
      BY <3>1 DEF AllDeps, lock_registry_dependencies, Registry, FirstRow
    <3>3. StagingTypes' /\ \A copy \in copies' : GoodCopy(copy)'
      BY <3>1 DEF StagingInv, StagingTypes, StagingRow, Leaf, Keys, Place, CacheFile, GoodCopy,
                  Registry
    <3>4. /\ \A k \in Nat : LeftAfter(k) => LeftAfter(k)'
          /\ LeafAtHand => LeafAtHand'
          /\ Walked => Walked'
          /\ \A kd, key : Staged(copies, kd, key) => Staged(copies', kd, key)
      BY <3>1, <3>2 DEF LeftAfter, LeafAtHand, Walked, Staged
    <3>5. QED BY <3>1, <3>2, <3>3, <3>4 DEF StagingInv
  <2>2. CASE DependenciesNext
    BY <2>2, AnchorKeeps, LeafKeeps, StageKeeps, HostKeeps DEF DependenciesNext
  <2>3. QED BY <2>1, <2>2
<1>3. StagingInv => StagedIsLocked /\ StagedInPlace /\ ReadsBounded
  <2> SUFFICES ASSUME StagingInv PROVE StagedIsLocked /\ StagedInPlace /\ ReadsBounded
    OBVIOUS
  <2>1. StagedIsLocked /\ StagedInPlace
    BY DEF StagingInv, GoodCopy, StagedIsLocked, StagedInPlace
  <2>2. ASSUME staging.at = "done", NEW i \in Registry(lock), NEW kind \in {"archive", "entry"}
        PROVE  \E copy \in copies : copy.leaf = <<kind, lock[i].key>>
    <3>1. PICK n \in 1 .. Len(AllDeps) : AllDeps[n].key = lock[i].key
      BY SortedLock DEF StagingInv, StagingTypes
    <3>2. Staged(copies, kind, AllDeps[n].key)
      BY <2>2, <3>1 DEF StagingInv
    <3>3. QED BY <3>1, <3>2 DEF Staged
  <2>3. ReadsBounded
    BY <2>2 DEF StagingInv, GoodCopy, ReadsBounded, At
  <2>4. QED BY <2>1, <2>3
<1>4. QED BY <1>1, <1>2, <1>3, PTL DEF DependenciesSpec

\* A check tests its candidate and nothing else, asks for its rights before each phase and
\* ends in one disposition; its staged archives reproduce the lock, come from the pinned
\* directories within their bounds, and a finished staging has them all (execute_check,
\* stage_dependencies, reconcile_unrecovered_checks).
THEOREM ChecksSafe == ChecksSpec /\ DependenciesSpec => ChecksAreSound
<1>1. [](TestedIsCandidate /\ OneDisposition) /\ [](StagedIsLocked /\ StagedInPlace /\ ReadsBounded)
      => [](TestedIsCandidate /\ OneDisposition /\ StagedIsLocked /\ StagedInPlace /\ ReadsBounded)
  BY PTL
<1>2. QED BY <1>1, CheckHolds, StagingHolds DEF ChecksAreSound
=============================================================================
