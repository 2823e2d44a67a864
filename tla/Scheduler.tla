------------------------------ MODULE Scheduler ------------------------------
(***************************************************************************)
(* The bounded task-tree scheduler of src/src/scheduler.rs.                *)
(*                                                                         *)
(* A node is one run of one task.  Nodes form a forest through their       *)
(* parent pointers; tasks form a forest of their own through the linkage   *)
(* recorded when a task is created.  A node waits in a strict FIFO, holds  *)
(* a slot and its resource units while it runs, gives both up while it     *)
(* waits for its children, and ends Completed, Settled or Cancelled.       *)
(*                                                                         *)
(* The node table and the counters kept beside it are one record, `tree',  *)
(* because submit_answered, cancel_task_tree and the settling operations   *)
(* are sequences of edits of that table made by one call.                  *)
(***************************************************************************)
EXTENDS Integers, Sequences, FiniteSets

CONSTANTS
    Task,           \* the tasks
    NoTask,         \* "no task recorded"
    MaxNodes,       \* bound of the model on the node table, unbounded in the code
    MaxSlots,       \* max_slots
    ResourceCap,    \* resource_cap
    Units,          \* the reservations a caller asks for
    MaxIgnored,     \* bound of the model on ignored_late_deliveries
    DirectSubmit,   \* whether clients also call submit, not only submit_answered
    ReplayParents   \* whether a replayed create may name another parent

ASSUME SchedulerAssumption ==
    /\ NoTask \notin Task
    /\ MaxNodes \in Nat /\ MaxIgnored \in Nat
    /\ MaxSlots \in Nat \ {0} /\ ResourceCap \in Nat
    /\ Units \subseteq Nat
    /\ DirectSubmit \in BOOLEAN /\ ReplayParents \in BOOLEAN

VARIABLES
    tree,       \* nodes, ready, running, held_units
    parents,    \* the task linkage: first record wins
    byTask,     \* the latest node of a task
    cancelled,  \* cancelled_tasks
    ignored,    \* ignored_late_deliveries
    created     \* the tasks the store holds

vars == <<tree, parents, byTask, cancelled, ignored, created>>

NodeId == 1 .. MaxNodes
None == 0
NodeState ==
    {"absent", "Ready", "Running", "Waiting", "Completed", "Settled", "Cancelled"}

Live(s, n) == s.state[n] \in {"Ready", "Running", "Waiting"}

Tree ==
    [ count      : 0 .. MaxNodes,
      task       : [NodeId -> Task \cup {NoTask}],
      parent     : [NodeId -> NodeId \cup {None}],
      units      : [NodeId -> Nat],
      unfinished : [NodeId -> Nat],
      state      : [NodeId -> NodeState],
      ready      : Seq(NodeId),
      running    : Int,
      held       : Int ]

EmptyTree ==
    [ count      |-> 0,
      task       |-> [n \in NodeId |-> NoTask],
      parent     |-> [n \in NodeId |-> None],
      units      |-> [n \in NodeId |-> 0],
      unfinished |-> [n \in NodeId |-> 0],
      state      |-> [n \in NodeId |-> "absent"],
      ready      |-> << >>,
      running    |-> 0,
      held       |-> 0 ]

-----------------------------------------------------------------------------
(***************************************************************************)
(* Walks.  The code walks parent pointers and the linkage list; here each  *)
(* walk is the least set closed under the step it takes.                   *)
(***************************************************************************)

\* The nodes cancel_tree's stack visits from the given roots.
Subtree(s, roots) ==
    { n \in NodeId :
        \A S \in SUBSET NodeId :
            /\ roots \subseteq S
            /\ \A c \in NodeId : s.parent[c] \in S => c \in S
            => n \in S }

\* A task and every task it hangs under.
Ancestry(t) ==
    { a \in Task :
        \A S \in SUBSET Task :
            /\ t \in S
            /\ \A x \in S : parents[x] # NoTask => parents[x] \in S
            => a \in S }

\* A task and every task linked under it.
TaskSubtree(t) == { d \in Task : t \in Ancestry(d) }

\* Mutant: only the task itself is looked up, not the tasks above it.
OwnCancelOnly(t) == t \in cancelled

\* A task is at or below a cancelled one.
InCancelledSubtree(t) == Ancestry(t) \cap cancelled # {}

\* The upward walk reaches a root: it never returns on a cycle of the linkage.
WalkEnds(t) == \E a \in Ancestry(t) : parents[a] = NoTask

\* The nearest proper ancestor that carries a node; its latest node.
RunnableParent(t) ==
    LET above   == IF parents[t] = NoTask THEN {} ELSE Ancestry(parents[t])
        noded   == { a \in above : byTask[a] # None }
        nearest == { a \in noded : noded \subseteq Ancestry(a) }
    IN  IF nearest = {} THEN None ELSE byTask[CHOOSE a \in nearest : TRUE]

-----------------------------------------------------------------------------
(***************************************************************************)
(* Edits of the node table.                                                *)
(***************************************************************************)

\* Mutant: the ended nodes stay queued.
RetainAll(q, K) == q

\* ready.retain: the queued nodes that stay in K, in their order.
Retain(q, K) ==
    LET F[i \in 0 .. Len(q)] ==
            IF i = 0 THEN << >>
            ELSE IF q[i] \in K THEN Append(F[i - 1], q[i]) ELSE F[i - 1]
    IN  F[Len(q)]

\* Total units of the nodes of a set.
UnitsOf(s, N) ==
    LET F[i \in 0 .. MaxNodes] ==
            IF i = 0 THEN 0
            ELSE F[i - 1] + (IF i \in N THEN s.units[i] ELSE 0)
    IN  F[MaxNodes]

\* submit after its checks: the next node, queued last, counted by its parent.
Submitted(s, p, t, u) ==
    LET n == s.count + 1 IN
    [ count      |-> n,
      task       |-> [s.task EXCEPT ![n] = t],
      parent     |-> [s.parent EXCEPT ![n] = p],
      units      |-> [s.units EXCEPT ![n] = u],
      unfinished |-> [m \in NodeId |-> s.unfinished[m] + (IF m = p THEN 1 ELSE 0)],
      state      |-> [s.state EXCEPT ![n] = "Ready"],
      ready      |-> Append(s.ready, n),
      running    |-> s.running,
      held       |-> s.held ]

\* Mutant: units over the cap are queued.
AcceptsAnyUnits(s, p, u) == p # None => Live(s, p)

\* submit's refusals: units over the cap, or a parent that already ended.
SubmitAccepts(s, p, u) ==
    /\ u <= ResourceCap
    /\ p # None => Live(s, p)

\* Mutant: a repeated cancel settles the parent again.
SettlingTwice(s, roots, p) == { r \in roots : s.parent[r] = p }

\* settle_parent for the ended roots: each takes one off its parent's count
\* and a waiting parent left with none is woken.
Settling(s, roots, p) == { r \in roots : Live(s, r) /\ s.parent[r] = p }

\* Mutant: the parent's count is not reduced.
LeftUnchanged(s, roots, p) == s.unfinished[p]

Left(s, roots, p) ==
    LET k == Cardinality(Settling(s, roots, p))
    IN  IF s.unfinished[p] > k THEN s.unfinished[p] - k ELSE 0

\* Mutant: the last child's end wakes nobody.
WokenNever(s, ended, roots) == {}

Woken(s, ended, roots) ==
    { p \in NodeId \ ended :
        /\ s.state[p] = "Waiting"
        /\ Settling(s, roots, p) # {}
        /\ Left(s, roots, p) = 0 }

Orders(S) ==
    { q \in [1 .. Cardinality(S) -> S] :
        /\ \A x \in S : \E i \in 1 .. Cardinality(S) : q[i] = x
        /\ \A i, j \in 1 .. Cardinality(S) : q[i] = q[j] => i = j }

\* Every ended node leaves the queue or gives up its slot and units, takes its
\* terminal state, and the roots settle their parents.  The order is the one
\* in which woken parents are queued.
Ended(s, ended, roots, to, order) ==
    LET freed == { n \in ended : s.state[n] = "Running" }
        woken == Woken(s, ended, roots)
    IN  [ count      |-> s.count,
          task       |-> s.task,
          parent     |-> s.parent,
          units      |-> s.units,
          unfinished |-> [p \in NodeId |-> IF p \in ended THEN s.unfinished[p]
                                           ELSE Left(s, roots, p)],
          state      |-> [n \in NodeId |-> IF n \in ended THEN to
                                           ELSE IF n \in woken THEN "Ready"
                                           ELSE s.state[n]],
          ready      |-> Retain(s.ready, NodeId \ ended) \o order,
          running    |-> s.running - Cardinality(freed),
          held       |-> s.held - UnitsOf(s, freed) ]

\* One node ending: at most one parent is woken, so there is one order.
EndedOne(s, n, to) ==
    LET woken == Woken(s, {n}, {n})
    IN  Ended(s, {n}, {n}, to, IF woken = {} THEN << >> ELSE << s.parent[n] >>)

\* A node moving between the queue, a slot and a wait.
Moved(s, n, to, queue, slots, units) ==
    [ count      |-> s.count,
      task       |-> s.task,
      parent     |-> s.parent,
      units      |-> s.units,
      unfinished |-> s.unfinished,
      state      |-> [s.state EXCEPT ![n] = to],
      ready      |-> queue,
      running    |-> slots,
      held       |-> units ]

\* Mutant: the replaced node is left as it is.
RetiredNever(s, n) == s

\* Mutant: a node that already ended is settled again.
RetiredAlways(s, n) == IF n # None THEN EndedOne(s, n, "Settled") ELSE s

\* retire: a replaced intent's node is settled unless it already ended.
Retired(s, n) ==
    IF n # None /\ Live(s, n) THEN EndedOne(s, n, "Settled") ELSE s

-----------------------------------------------------------------------------
Init ==
    /\ tree = EmptyTree
    /\ parents = [t \in Task |-> NoTask]
    /\ byTask = [t \in Task |-> None]
    /\ cancelled = {}
    /\ ignored = 0
    /\ created = {}

\* adopt: the first recorded parent of a task wins.
Adopted(t, p) ==
    IF p = NoTask \/ parents[t] # NoTask THEN parents
    ELSE [parents EXCEPT ![t] = p]

\* submit_task "create": a fresh task, under an existing parent if one is named.
Create(t, p) ==
    /\ t \notin created
    /\ p \in created \cup {NoTask}
    /\ created' = created \cup {t}
    /\ parents' = Adopted(t, p)
    /\ UNCHANGED <<tree, byTask, cancelled, ignored>>

\* The same command replayed with another parent: the receipt answers with the
\* original task, whose digest does not cover the parent, and adopt runs again.
ReplayCreate(t, p) ==
    /\ ReplayParents
    /\ t \in created /\ p \in created
    /\ parents' = Adopted(t, p)
    /\ UNCHANGED <<tree, byTask, cancelled, ignored, created>>

\* submit with an explicit parent node.
Submit(p, t, u) ==
    /\ DirectSubmit
    /\ t \in created
    /\ tree.count < MaxNodes
    /\ p \in 1 .. tree.count \cup {None}
    /\ SubmitAccepts(tree, p, u)
    /\ tree' = Submitted(tree, p, t, u)
    /\ byTask' = [byTask EXCEPT ![t] = tree.count + 1]
    /\ UNCHANGED <<parents, cancelled, ignored, created>>

\* Mutant: the task is bound to its next node before submit's refusals.
SubmitAnsweredEager(t) ==
    LET p == RunnableParent(t)
        s == Retired(tree, byTask[t])
    IN  /\ t \in created
        /\ tree.count < MaxNodes
        /\ ~ InCancelledSubtree(t) /\ WalkEnds(t)
        /\ tree' = IF SubmitAccepts(s, p, 1) THEN Submitted(s, p, t, 1) ELSE s
        /\ byTask' = [byTask EXCEPT ![t] = tree.count + 1]
        /\ UNCHANGED <<parents, cancelled, ignored, created>>

\* submit_answered: refused in a cancelled subtree before anything moves; else
\* the previous node is retired first, and a settled parent then refuses the
\* fresh one.
SubmitAnswered(t) ==
    LET p == RunnableParent(t)
        s == Retired(tree, byTask[t])
    IN  /\ t \in created
        /\ tree.count < MaxNodes
        /\ ~ InCancelledSubtree(t) /\ WalkEnds(t)
        /\ IF SubmitAccepts(s, p, 1)
           THEN /\ tree' = Submitted(s, p, t, 1)
                /\ byTask' = [byTask EXCEPT ![t] = tree.count + 1]
           ELSE /\ tree' = s
                /\ UNCHANGED byTask
        /\ UNCHANGED <<parents, cancelled, ignored, created>>

\* Mutant: a node that fits overtakes a head that does not.
AdmitFirstFit ==
    /\ tree.running # MaxSlots
    /\ \E i \in DOMAIN tree.ready :
        LET n == tree.ready[i] IN
        /\ tree.held + tree.units[n] <= ResourceCap
        /\ tree' = Moved(tree, n, "Running", Retain(tree.ready, NodeId \ {n}),
                         tree.running + 1, tree.held + tree.units[n])
    /\ UNCHANGED <<parents, byTask, cancelled, ignored, created>>

\* Mutant: one node more than there are slots.
AdmitPastSlots ==
    /\ tree.ready # << >>
    /\ LET n == Head(tree.ready) IN
        /\ tree.running <= MaxSlots
        /\ tree.held + tree.units[n] <= ResourceCap
        /\ tree' = Moved(tree, n, "Running", Tail(tree.ready),
                         tree.running + 1, tree.held + tree.units[n])
    /\ UNCHANGED <<parents, byTask, cancelled, ignored, created>>

\* Mutant: the resource cap is not looked at.
AdmitBySlots ==
    /\ tree.ready # << >>
    /\ tree.running # MaxSlots
    /\ LET n == Head(tree.ready) IN
        tree' = Moved(tree, n, "Running", Tail(tree.ready),
                      tree.running + 1, tree.held + tree.units[n])
    /\ UNCHANGED <<parents, byTask, cancelled, ignored, created>>

\* admit_next / admit_next_bounded: the head only, while both caps hold.  A
\* refused budget reservation leaves everything as it was.
Admit ==
    /\ tree.ready # << >>
    /\ LET n == Head(tree.ready) IN
        /\ tree.running # MaxSlots
        /\ tree.held + tree.units[n] <= ResourceCap
        /\ tree' = Moved(tree, n, "Running", Tail(tree.ready),
                         tree.running + 1, tree.held + tree.units[n])
    /\ UNCHANGED <<parents, byTask, cancelled, ignored, created>>

\* Mutant: the wait keeps its slot.
BeginWaitInSlot(n) ==
    /\ tree.state[n] = "Running"
    /\ tree.unfinished[n] # 0
    /\ tree' = Moved(tree, n, "Waiting", tree.ready,
                     tree.running, tree.held - tree.units[n])
    /\ UNCHANGED <<parents, byTask, cancelled, ignored, created>>

\* Mutant: a node waits although nothing below it is unfinished.
BeginWaitForNothing(n) ==
    /\ tree.state[n] = "Running"
    /\ tree' = Moved(tree, n, "Waiting", tree.ready,
                     tree.running - 1, tree.held - tree.units[n])
    /\ UNCHANGED <<parents, byTask, cancelled, ignored, created>>

\* begin_wait: slot and units go before the wait; nothing to wait for, no wait.
BeginWait(n) ==
    /\ tree.state[n] = "Running"
    /\ tree.unfinished[n] # 0
    /\ tree' = Moved(tree, n, "Waiting", tree.ready,
                     tree.running - 1, tree.held - tree.units[n])
    /\ UNCHANGED <<parents, byTask, cancelled, ignored, created>>

\* complete on a running node.
Complete(n) ==
    /\ tree.state[n] = "Running"
    /\ tree' = EndedOne(tree, n, "Completed")
    /\ UNCHANGED <<parents, byTask, cancelled, ignored, created>>

\* complete called late, for a cancelled node: counted and dropped.
CompleteLate(n) ==
    /\ tree.state[n] = "Cancelled"
    /\ ignored < MaxIgnored
    /\ ignored' = ignored + 1
    /\ UNCHANGED <<tree, parents, byTask, cancelled, created>>

\* settle: a run that ended without completing.
Settle(n) ==
    /\ tree.state[n] = "Running"
    /\ tree' = EndedOne(tree, n, "Settled")
    /\ UNCHANGED <<parents, byTask, cancelled, ignored, created>>

\* cancel_tree over a set of roots: every live node below them ends at once.
\* Only a root that was live settles its own parent; a parent inside the
\* drained set is terminal and its count is never read again.
Drain(roots) ==
    LET ended == { n \in Subtree(tree, roots) : Live(tree, n) }
        woken == Woken(tree, ended, roots)
    IN  \E order \in Orders(woken) :
            tree' = Ended(tree, ended, roots, "Cancelled", order)

\* cancel_tree on one node.
CancelTree(n) ==
    /\ n <= tree.count
    /\ Drain({n})
    /\ UNCHANGED <<parents, byTask, cancelled, ignored, created>>

\* cancel_task_tree: the whole task subtree is recorded cancelled and the
\* latest node of each of its tasks is drained.
CancelTaskTree(t) ==
    LET subtree == TaskSubtree(t)
    IN  /\ t \in created
        /\ cancelled' = cancelled \cup subtree
        /\ Drain({ byTask[d] : d \in subtree } \ {None})
        /\ UNCHANGED <<parents, byTask, ignored, created>>

\* deliver: an event that names a task whose current node was cancelled.
DeliverLate(t) ==
    /\ byTask[t] # None
    /\ tree.state[byTask[t]] = "Cancelled"
    /\ ignored < MaxIgnored
    /\ ignored' = ignored + 1
    /\ UNCHANGED <<tree, parents, byTask, cancelled, created>>

Next ==
    \/ \E t \in Task, p \in Task \cup {NoTask} : Create(t, p)
    \/ \E t \in Task, p \in Task : ReplayCreate(t, p)
    \/ \E p \in NodeId \cup {None}, t \in Task, u \in Units : Submit(p, t, u)
    \/ \E t \in Task : SubmitAnswered(t)
    \/ Admit
    \/ \E n \in NodeId : BeginWait(n)
    \/ \E n \in NodeId : Complete(n)
    \/ \E n \in NodeId : CompleteLate(n)
    \/ \E n \in NodeId : Settle(n)
    \/ \E n \in NodeId : CancelTree(n)
    \/ \E t \in Task : CancelTaskTree(t)
    \/ \E t \in Task : DeliverLate(t)

Spec == Init /\ [][Next]_vars

\* scheduler_step admits whenever it can and ends every node it admitted,
\* whatever the step's outcome, errors included.
EndRun(n) == Complete(n) \/ Settle(n) \/ BeginWait(n)
Fairness == WF_vars(Admit) /\ \A n \in NodeId : WF_vars(EndRun(n))
FairSpec == Spec /\ Fairness

-----------------------------------------------------------------------------
(***************************************************************************)
(* Properties.                                                             *)
(***************************************************************************)
NodesIn(s, S) == { n \in NodeId : s.state[n] \in S }
LiveChildren(s, p) == { c \in NodeId : s.parent[c] = p /\ Live(s, c) }

\* Types, and the shape of the table: nodes are numbered in submission order,
\* so a child is always younger than its parent.
TypeOK ==
    /\ tree \in Tree
    /\ \A n \in NodeId : (n <= tree.count) <=> (tree.state[n] # "absent")
    /\ \A n \in NodeId : tree.parent[n] < n
    /\ \A n \in NodeId : n > tree.count => /\ tree.parent[n] = None
                                           /\ tree.unfinished[n] = 0
    /\ parents \in [Task -> Task \cup {NoTask}]
    /\ byTask \in [Task -> 0 .. tree.count]
    /\ cancelled \in SUBSET Task
    /\ ignored \in 0 .. MaxIgnored
    /\ created \in SUBSET Task

\* Slots: running counts exactly the Running nodes and never passes max_slots,
\* through every interleaving of admission, waiting, retiring and draining.
SlotsExact ==
    /\ tree.running = Cardinality(NodesIn(tree, {"Running"}))
    /\ tree.running <= MaxSlots

\* Units: held_units is exactly what the Running nodes reserved and never
\* passes resource_cap; in particular no subtraction ever underflows.
UnitsExact ==
    /\ tree.held = UnitsOf(tree, NodesIn(tree, {"Running"}))
    /\ tree.held <= ResourceCap

\* "Strict FIFO of NodeState::Ready nodes only": the queue holds every Ready
\* node, holds it once, and holds nothing else.
QueueExact ==
    /\ \A i \in DOMAIN tree.ready : tree.state[tree.ready[i]] = "Ready"
    /\ \A n \in NodeId :
         tree.state[n] = "Ready" => \E i \in DOMAIN tree.ready : tree.ready[i] = n
    /\ \A i, j \in DOMAIN tree.ready : tree.ready[i] = tree.ready[j] => i = j

\* Wait counts: a live node's unfinished count is exactly the number of its
\* live children, whichever way each child ended (completed, settled, retired
\* by a fresh answer, cancelled as a root or inside a drained tree).
WaitsExact ==
    \A p \in NodeId :
        Live(tree, p) => tree.unfinished[p] = Cardinality(LiveChildren(tree, p))

\* No lost wake-up: a node waits only while some child of it is still live.
NoLostWake ==
    \A p \in NodeId : tree.state[p] = "Waiting" => LiveChildren(tree, p) # {}

\* The tree never stalls with everyone waiting on everyone: while any node is
\* live, some node is queued or running.
NeverAllWaiting ==
    NodesIn(tree, {"Waiting"}) # {} => NodesIn(tree, {"Ready", "Running"}) # {}

\* One intent, one dispatch: through submit_answered a task never has two live
\* nodes, so a replaced answer can not run beside the fresh one.
OneLiveNodePerTask ==
    DirectSubmit \/ \A m, n \in NodeId :
        Live(tree, m) /\ Live(tree, n) /\ tree.task[m] = tree.task[n] => m = n

\* AC-012: no task below a cancelled one has a live node, whichever ancestors
\* carried nodes and whenever the task was created.
CancelledTreesStayDead ==
    \A n \in NodeId : Live(tree, n) => Ancestry(tree.task[n]) \cap cancelled = {}

\* Terminal means terminal: no late callback, fresh answer, wake-up or repeated
\* cancel gives a completed, settled or cancelled node another state.
TerminalIsFinal ==
    [][\A n \in NodeId :
         tree.state[n] \in {"Completed", "Settled", "Cancelled"}
            => tree'.state[n] = tree.state[n]]_vars

\* No bypass: of two queued nodes the later one never gets ahead, and the later
\* one never starts to run while the earlier one still waits in the queue.
Before(s, m, n) ==
    \E i, j \in DOMAIN s.ready : i < j /\ s.ready[i] = m /\ s.ready[j] = n
NoBypass ==
    [][\A m, n \in NodeId :
         Before(tree, m, n) /\ tree'.state[m] = "Ready"
            => Before(tree', m, n) \/ tree'.state[n] \notin {"Ready", "Running"}]_vars

\* The scheduler implements the pool: a node starts alone and only into a free
\* slot, a wait gives the slot up, and no call revives a node that ended.
PhaseOf(st) ==
    CASE st = "absent"  -> "absent"
      [] st = "Ready"   -> "queued"
      [] st = "Running" -> "active"
      [] st = "Waiting" -> "parked"
      [] OTHER          -> "over"
phases == [n \in NodeId |-> PhaseOf(tree.state[n])]
Pool == INSTANCE DispatchPool WITH Node <- NodeId, Slots <- MaxSlots, phase <- phases
ImplementsPool == Pool!Spec

\* INV-020: the recorded parent of a task is fixed at creation; "a replayed
\* create that names a different parent can never re-adopt the original task".
LinkageIsImmutable ==
    [][\A t \in created : parents'[t] = parents[t]]_vars

\* Every queued node is eventually admitted or ended: strict FIFO starves nobody.
QueuedIsServed ==
    \A n \in NodeId : tree.state[n] = "Ready" ~> tree.state[n] # "Ready"

\* Every wait ends: a parent that gave up its slot is woken or ended.
WaitEnds ==
    \A n \in NodeId : tree.state[n] = "Waiting" ~> tree.state[n] # "Waiting"

\* The books of the tree as a whole: slots, units, the queue and the wait counts.
AccountsExact == TypeOK /\ SlotsExact /\ UnitsExact /\ QueueExact /\ WaitsExact

\* Whoever waits can be woken: a child of it is live, and somewhere in the tree a node
\* is queued or running.
WaitsCanEnd == NoLostWake /\ NeverAllWaiting

\* What a cancellation, a fresh answer or an end has taken out of the tree stays out.
EndedStaysEnded == [](OneLiveNodePerTask /\ CancelledTreesStayDead) /\ TerminalIsFinal

\* Nobody is left in the queue or in a wait for ever.
NobodyWaitsForever == QueuedIsServed /\ WaitEnds
=============================================================================
