------------------------------ MODULE Clients -------------------------------
(***************************************************************************)
(* The requests of a client: src/src/commands.rs (dispatch_inner,          *)
(* handle_method, submit_task, decisions_control, session_new) over the    *)
(* receipts, the bootstrap rows and the journal of answers of state.rs.    *)
(* Requests are served one at a time; the process may die between two      *)
(* statements of a handler that writes outside a transaction, and a client *)
(* may repeat any request.                                                 *)
(***************************************************************************)
EXTENDS Naturals, Sequences, FiniteSets, FiniteSetsExt, SequencesExt, TLC

CONSTANTS
    Command,    \* command ids
    Bootstrap,  \* connection|bootstrap keys
    MaxIntent,  \* bound on the steers of a task
    MaxAnswers, \* bound on the answers sent
    MaxEdits    \* bound on the configuration edits

ASSUME RequestsAssumption == MaxIntent \in Nat /\ MaxAnswers \in Nat /\ MaxEdits \in Nat

VARIABLES
    task,       \* the row of the one task: who created it, lifecycle, intent, question
    answerLog,  \* answer_attempts, in order
    sent,       \* answers a handler took up, and the denials whose journal write failed
    receipts,   \* command_receipts
    document,   \* the configuration: decisions.mode; edits so far, one without its receipt
    effects,    \* how often each command took effect
    bootstraps  \* sessions, attachments, bootstrap_receipts, and an open in progress
requestVars == <<task, answerLog, sent, receipts, document, effects>>

NoTask == [life |-> "none"]
NoQuestion == [revision |-> 0, intent |-> 0, state |-> "none"]
NoReceipt == [of |-> "none"]
NoBootstrap == [id |-> 0, session |-> 0]
Terminal == {"completed", "cancelled"}
Modes == {"ask", "auto"}

RequestsInit ==
    /\ task = NoTask /\ answerLog = <<>> /\ sent = [taken |-> 0, gaps |-> 0]
    /\ receipts = [c \in Command |-> NoReceipt]
    /\ document = [mode |-> "ask", edits |-> 0, pending |-> NoReceipt]
    /\ effects = [c \in Command |-> 0]

BootInit ==
    bootstraps = [sessions |-> {}, attached |-> {}, receipts |-> [b \in Bootstrap |-> NoBootstrap],
            opening |-> NoReceipt, minted |-> 0]

\* No handler of this process is between two of its statements.
Serving == document.pending = NoReceipt

Ingress == {"human", "machine", "observer"}
\* dispatch_inner: an observer has the methods that only read.
Admitted(ingress) == ingress # "observer"

----------------------------------------------------------------------------
\* session.open, session.attach: autocommitted statements, the receipt last.

BootstrapReceipts(o) == [bootstraps.receipts EXCEPT ![o.key] = [id |-> o.id, session |-> o.session]]

\* Mutant: the receipt is written with the attachment.
StepReceiptFirst(o) ==
    IF o.at = "attach" THEN
         [bootstraps EXCEPT !.attached = @ \cup {o.id}, !.receipts = BootstrapReceipts(o),
                            !.opening = [o EXCEPT !.at = "session"]]
    ELSE IF o.at = "session" THEN
         [bootstraps EXCEPT !.sessions = @ \cup {o.session}, !.opening = [o EXCEPT !.at = "receipt"]]
    ELSE [bootstraps EXCEPT !.opening = NoReceipt]

\* open_session after its checks: attachment, session row, receipt.
OpenSessionStep(o) ==
    IF o.at = "attach" THEN
         [bootstraps EXCEPT !.attached = @ \cup {o.id}, !.opening = [o EXCEPT !.at = "session"]]
    ELSE IF o.at = "session" THEN
         [bootstraps EXCEPT !.sessions = @ \cup {o.session}, !.opening = [o EXCEPT !.at = "receipt"]]
    ELSE [bootstraps EXCEPT !.receipts = BootstrapReceipts(o), !.opening = NoReceipt]

\* A key with a receipt is answered from it; a session to attach to must exist.
OpenSession(ingress, key, attach) ==
    /\ Admitted(ingress) /\ bootstraps.opening = NoReceipt /\ bootstraps.receipts[key] = NoBootstrap /\ bootstraps.minted < Cardinality(Bootstrap) + 1
    /\ attach # 0 => attach \in bootstraps.sessions
    /\ bootstraps' = [bootstraps EXCEPT !.minted = @ + 1,
                  !.opening = [of |-> "open", at |-> "attach", key |-> key, id |-> bootstraps.minted + 1,
                               session |-> IF attach = 0 THEN bootstraps.minted + 1 ELSE attach]]

\* The next statement, or the process dies before it and another takes over.
OpenContinues ==
    /\ bootstraps.opening # NoReceipt
    /\ bootstraps' \in {OpenSessionStep(bootstraps.opening), [bootstraps EXCEPT !.opening = NoReceipt]}

BootNext ==
    \/ \E ingress \in Ingress, key \in Bootstrap, attach \in 0..Cardinality(Bootstrap) :
         OpenSession(ingress, key, attach)
    \/ OpenContinues

----------------------------------------------------------------------------
\* task.submit.

Receipt(kind) == [of |-> kind]

\* Mutant: create does not look for the receipt of its command.
ReceiptedNever(c) == FALSE

\* receipt: the command was answered before; its own parameters get the same
\* answer, others a conflict, and neither takes effect.
Receipted(c) == receipts[c] # NoReceipt

\* create_task: the task, its first event and the receipt in one transaction.  The
\* first task is followed.
Create(ingress, c) ==
    /\ Admitted(ingress) /\ Serving /\ ~ Receipted(c) /\ effects[c] < 2
    /\ task' = IF task # NoTask THEN task
               ELSE [life |-> "running", intent |-> 1, question |-> NoQuestion, asked |-> 0]
    /\ receipts' = [receipts EXCEPT ![c] = Receipt("create")]
    /\ effects' = [effects EXCEPT ![c] = @ + 1]
    /\ UNCHANGED <<answerLog, sent, document>>

\* The controller asks a question, or ends the task; TaskStore has the detail.
Ask ==
    /\ Serving /\ task.life = "running" /\ task.question.state # "pending" /\ task.asked < MaxAnswers
    /\ task' = [task EXCEPT !.life = "waiting", !.asked = @ + 1,
                  !.question = [revision |-> task.asked + 1, intent |-> task.intent, state |-> "pending"]]
    /\ UNCHANGED <<answerLog, sent, receipts, document, effects>>

Superseded(question) ==
    IF question.state = "pending" THEN [question EXCEPT !.state = "superseded"] ELSE question

\* steer_task: the intent moves and a pending question is superseded with it.
Steer(ingress) ==
    /\ Serving /\ ingress = "human" /\ task.life \in {"running", "waiting"} /\ task.intent < MaxIntent
    /\ task' = [task EXCEPT !.intent = @ + 1, !.life = "running", !.question = Superseded(@)]
    /\ UNCHANGED <<answerLog, sent, receipts, document, effects>>

\* cancel_task: of the current intent; the machine may.
Cancel(ingress) ==
    /\ Admitted(ingress) /\ Serving /\ task.life \in {"running", "waiting"}
    /\ task' = [task EXCEPT !.life = "cancelled", !.question = Superseded(@)]
    /\ UNCHANGED <<answerLog, sent, receipts, document, effects>>

\* What an answer names: revisions seen at some time or left out, a selection.
AnswerParams == [intent : 0..MaxIntent, revision : 0..MaxAnswers,
                 selection : {"none", "invalid", "unknown", "option"}]

\* Mutant: a question that was answered or superseded takes an answer.
CommitDenialAnyState(p) ==
    IF task.life \in Terminal THEN "already_terminal"
    ELSE IF task.question.revision # p.revision THEN "conflict"
    ELSE IF task.question.intent # task.intent THEN "stale_intent"
    ELSE IF p.selection = "unknown" THEN "invalid_input" ELSE "none"

\* answer_question_commit: terminal, not this pending question, of an older
\* intent, not one of its options.
CommitDenial(p) ==
    IF task.life \in Terminal THEN "already_terminal"
    ELSE IF task.question.state # "pending" \/ task.question.revision # p.revision THEN "conflict"
    ELSE IF task.question.intent # task.intent THEN "stale_intent"
    ELSE IF p.selection = "unknown" THEN "invalid_input" ELSE "none"

\* submit_task "answer": its refusals, in their order.
Denial(ingress, p) ==
    IF ingress = "machine" THEN "machine_ingress"
    ELSE IF p.intent = 0 \/ p.revision = 0 THEN "missing_revision_fields"
    ELSE IF p.selection = "none" THEN "missing_selection"
    ELSE IF p.selection = "invalid" THEN "invalid_selection"
    ELSE IF task = NoTask THEN "not_found"
    ELSE IF p.intent # task.intent THEN "stale_intent" ELSE CommitDenial(p)

\* A row: its author and the question it was applied to, if it was.
AttemptRow(p, author, denial) ==
    [author |-> author, applied |-> IF denial = "none" THEN p.revision ELSE 0]

\* Mutant: a refusal before the store is asked is not journaled.
JournalStoreOnly(p, author, denial) ==
    IF denial \in {"machine_ingress", "missing_revision_fields"}
    THEN {[rows |-> answerLog, gaps |-> sent.gaps]}
    ELSE {[rows |-> Append(answerLog, AttemptRow(p, author, denial)), gaps |-> sent.gaps]}

\* journal_denied_answer, record_denied_attempt, and the applied row of the
\* commit: one row per answer, or the reply names the gap.
Journal(p, author, denial) ==
    {[rows |-> Append(answerLog, AttemptRow(p, author, denial)), gaps |-> sent.gaps]}
    \cup IF denial = "none" THEN {} ELSE {[rows |-> answerLog, gaps |-> sent.gaps + 1]}

Answer(ingress, p) ==
    /\ Admitted(ingress) /\ Serving /\ sent.taken < MaxAnswers
    /\ LET denial == Denial(ingress, p)
       IN  /\ \E j \in Journal(p, ingress, denial) :
                answerLog' = j.rows /\ sent' = [taken |-> sent.taken + 1, gaps |-> j.gaps]
           /\ task' = IF denial # "none" THEN task
                      ELSE [task EXCEPT !.life = "running", !.question = [@ EXCEPT !.state = "answered"]]
    /\ UNCHANGED <<receipts, document, effects>>

----------------------------------------------------------------------------
\* decisions.control and the edits beside it.

\* The digest of the sources is of their bytes: it returns when they do.
SourcesDigest == document.mode

\* decisions_control: a new command, for the sources the client has seen; the
\* edit is admitted and served, then its receipt is written.
DecisionsControl(ingress, c, op, expected) ==
    /\ Admitted(ingress) /\ Serving /\ ~ Receipted(c)
    /\ expected = SourcesDigest /\ document.edits < MaxEdits
    /\ document' = [document EXCEPT !.mode = op, !.edits = @ + 1,
                      !.pending = [of |-> "decisions", command |-> c]]
    /\ effects' = [effects EXCEPT ![c] = @ + 1]
    /\ UNCHANGED <<task, answerLog, sent, receipts>>

\* record_command_receipt; a failed write is reported and leaves no receipt, and
\* neither does a process that dies before it.
RecordCommandReceipt ==
    /\ document.pending # NoReceipt
    /\ \/ receipts' = [receipts EXCEPT ![document.pending.command] =
                           Receipt("decisions")]
       \/ UNCHANGED receipts
    /\ document' = [document EXCEPT !.pending = NoReceipt]
    /\ UNCHANGED <<task, answerLog, sent, effects>>

\* config.set and config.unset of the mode: no command id.
ConfigSet(mode) ==
    /\ Serving /\ document.edits < MaxEdits
    /\ document' = [document EXCEPT !.mode = mode, !.edits = @ + 1]
    /\ UNCHANGED <<task, answerLog, sent, receipts, effects>>


RequestsNext ==
    \/ \E ingress \in Ingress :
         \/ \E c \in Command : Create(ingress, c)
         \/ Steer(ingress) \/ Cancel(ingress)
         \/ \E p \in AnswerParams : Answer(ingress, p)
         \/ \E c \in Command, op \in Modes, expected \in Modes :
              DecisionsControl(ingress, c, op, expected)
    \/ Ask \/ RecordCommandReceipt
    \/ \E mode \in Modes : ConfigSet(mode)

RequestsSpec == RequestsInit /\ [][RequestsNext]_requestVars
BootSpec == BootInit /\ [][BootNext]_bootstraps

----------------------------------------------------------------------------
\* Every answer a handler took up is in the journal, applied or denied, once; the
\* ones that are not were reported as a failed journal write.
AnswersAreAccounted == Len(answerLog) + sent.gaps = sent.taken

\* A question is answered at most once and by a human, however steers, cancels
\* and repeated answers fall between: no second answer is ever applied to it.
OneAnswerPerQuestion ==
    \A i, j \in DOMAIN answerLog :
        answerLog[i].applied # 0 =>
            /\ answerLog[i].author = "human"
            /\ answerLog[j].applied = answerLog[i].applied => i = j

\* "a replay answers the recorded result without re-running the edit": a command
\* that has a receipt keeps it and never takes effect again, whatever it asks.
ReceiptedOnce ==
    [][\A c \in Command : receipts[c] # NoReceipt =>
          receipts'[c] = receipts[c] /\ effects'[c] = effects[c]]_requestVars

\* A bootstrap receipt answers with a session and an attachment that exist,
\* wherever the process died while it opened the session.
BootstrapStands ==
    \A key \in Bootstrap : bootstraps.receipts[key].session # 0 =>
        /\ bootstraps.receipts[key].session \in bootstraps.sessions
        /\ bootstraps.receipts[key].id \in bootstraps.attached

-----------------------------------------------------------------------------
(***************************************************************************)
(* What a client reads of a session: the pages of its tasks with what each *)
(* waits for, the switch to a new session, and the events after a cursor   *)
(* (src/src/state.rs, commands.rs).  Pages and events are read in several  *)
(* requests while the tasks move in between.                               *)
(***************************************************************************)

CONSTANTS
    Content,      \* what the rows of a task may say: lifecycle, question, obligations, plan
    PAGE,         \* the page size, PAGE_MAX of the scan
    MaxTasks,     \* bound on the tasks of the session
    MaxRevision,  \* bound on the revision of a task
    MaxLog        \* bound on the events

ASSUME PagesAssumption == PAGE \in Nat \ {0} /\ MaxTasks \in Nat

VARIABLES
    listed,       \* the tasks of the session by rowid: revision and content
    walk,         \* a client's walk of the pages
    left,         \* the client has left for a new session
    log,          \* the events table, in the order of its cursors
    follower      \* a client that reads events: task or all, cursor, what it has
pageVars == <<listed, walk, left>>
logVars == <<log, follower>>

NoWalk == [at |-> "idle", generation |-> 0, offset |-> 0, seen |-> <<>>, rows |-> 0]

PagesInit == listed = <<>> /\ walk = NoWalk /\ left = FALSE
LogInit == log = <<>> /\ \E t \in {"all", "t"} : follower = [of |-> t, after |-> 0, has |-> <<>>]

----------------------------------------------------------------------------
\* What a task waits for.

\* Mutant: a fork of the plan is listed whether or not its question is pending.
ExtendPlanBlockersAll(blockers, plan, pending) == blockers \o plan

\* extend_plan_blockers: a question the plan names is listed when it is the
\* pending one, and once.
ExtendPlanBlockers(blockers, plan, pending) ==
    blockers \o SelectSeq(plan, LAMBDA b : b[1] = "decision" =>
                                  pending # 0 /\ b[2] = pending /\ b \notin ToSet(blockers))

DecisionOf(c) == IF c.pending # 0 THEN <<<<"decision", c.pending>>>> ELSE <<>>
Obligations(c) == IF c.unresolved THEN <<<<"dependency", 0>>>> ELSE <<>>
UnknownAttempts(c) == IF c.unknown THEN <<<<"reconciliation", 0>>>> ELSE <<>>
WorkflowOff == <<<<"workflow_off", 0>>>>
NoReadyAction == <<<<"no_ready_action", 0>>>>
Held(c) == c.life \in {"waiting", "blocked", "paused"}

\* blockers_in_tx, of a snapshot.
BlockersInTx(c) ==
    LET own == CASE c.life = "waiting" -> DecisionOf(c)
                 [] c.life = "blocked" -> Obligations(c) \o UnknownAttempts(c)
                 [] c.life = "paused" -> WorkflowOff
                 [] OTHER -> <<>>
        all == IF Held(c) THEN ExtendPlanBlockers(own, c.plan, c.pending) ELSE own
    IN  IF c.life = "blocked" /\ all = <<>> THEN NoReadyAction ELSE all

\* Mutant: the rows of the batch are not matched against the lifecycle.
BatchedBlockersAny(cs) ==
    LET asked(i) == DecisionOf(cs[i]) \o Obligations(cs[i]) \o UnknownAttempts(cs[i])
        planned(i) == IF Held(cs[i]) THEN ExtendPlanBlockers(asked(i), cs[i].plan, cs[i].pending)
                      ELSE asked(i)
    IN  [i \in DOMAIN cs |->
           CASE cs[i].life = "paused" -> planned(i) \o WorkflowOff
             [] cs[i].life = "blocked" /\ planned(i) = <<>> -> NoReadyAction
             [] OTHER -> planned(i)]

\* batched_blockers, of a page: one query per table, matched by lifecycle, then
\* the plan's, then the pause and the block that has no other reason.
BatchedBlockers(cs) ==
    LET asked(i) == IF cs[i].life = "waiting" THEN DecisionOf(cs[i]) ELSE <<>>
        counted(i) == IF cs[i].life = "blocked"
                      THEN asked(i) \o Obligations(cs[i]) \o UnknownAttempts(cs[i]) ELSE asked(i)
        planned(i) == IF Held(cs[i])
                      THEN ExtendPlanBlockers(counted(i), cs[i].plan, cs[i].pending)
                      ELSE counted(i)
    IN  [i \in DOMAIN cs |->
           CASE cs[i].life = "paused" -> planned(i) \o WorkflowOff
             [] cs[i].life = "blocked" /\ planned(i) = <<>> -> NoReadyAction
             [] OTHER -> planned(i)]

----------------------------------------------------------------------------
\* The tasks move.

Insert(c) ==
    /\ Len(listed) < MaxTasks /\ listed' = Append(listed, [revision |-> 1, content |-> c])
    /\ UNCHANGED <<walk, left>>

\* A command moves the revision; the plan and a released pause do not.
Moves(i, c) ==
    /\ c # listed[i].content
    /\ \/ listed[i].revision < MaxRevision
          /\ listed' = [listed EXCEPT ![i] = [revision |-> @.revision + 1, content |-> c]]
       \/ listed' = [listed EXCEPT ![i].content = c]
    /\ UNCHANGED <<walk, left>>

----------------------------------------------------------------------------
\* The pages.

\* SESSION_GENERATION: the largest revision among the session's tasks.
SessionGeneration == Max({0} \cup {listed[i].revision : i \in DOMAIN listed})

\* Mutant: the row that says there is more is skipped.
NextPageOffsetPast(offset) == offset + PAGE + 1

\* next_page_offset.
NextPageOffset(offset) == offset + PAGE

\* task_status_page, todo_items: by rowid, one row more to see whether there is one.
PageAt(offset) == {i \in DOMAIN listed : offset < i /\ i <= offset + PAGE}
HasMore(offset) == Len(listed) > offset + PAGE

\* A request for the next page: status_page_context refuses a cursor of another
\* generation, and the client starts again.
WalkPage ==
    /\ walk.at # "done" /\ ~ left
    /\ LET generation == IF walk.at = "idle" THEN SessionGeneration ELSE walk.generation
           read == walk.seen \o SetToSortSeq(PageAt(walk.offset), LAMBDA i, j : i < j)
       IN  walk' = IF generation # SessionGeneration THEN NoWalk
                   ELSE [at |-> IF HasMore(walk.offset) THEN "walking" ELSE "done",
                         generation |-> generation, offset |-> NextPageOffset(walk.offset),
                         seen |-> read, rows |-> Len(listed)]
    /\ UNCHANGED <<listed, left>>

WalkAgain == walk.at = "done" /\ walk' = NoWalk /\ UNCHANGED <<listed, left>>

Live(i) == listed[i].content.life \notin {"completed", "cancelled"}
Running(i) == listed[i].content.life = "running"

\* Mutant: only the first page is scanned.
RunningTaskFirstPage == {i \in PageAt(0) : Running(i)}

\* running_task: with a live task at all, every page until one has a running task.
RunningTask ==
    IF ~ \E i \in DOMAIN listed : Live(i) THEN {}
    ELSE LET hits == {k \in 0..MaxTasks : \E i \in PageAt(k * PAGE) : Running(i)}
         IN  IF hits = {} THEN {} ELSE {i \in PageAt(Min(hits) * PAGE) : Running(i)}

\* session_new.
SessionNew == ~ left /\ RunningTask = {} /\ left' = TRUE /\ UNCHANGED <<listed, walk>>

PagesNext ==
    \/ \E c \in Content : Insert(c) \/ \E i \in DOMAIN listed : Moves(i, c)
    \/ WalkPage \/ WalkAgain \/ SessionNew

----------------------------------------------------------------------------
\* The events.

\* next_cursor: over all sessions.
NextCursor == Len(log) + 1

\* append_event: under the session that asked, whichever has the task.
AppendEvent(own, of) ==
    /\ Len(log) < MaxLog
    /\ log' = Append(log, [cursor |-> NextCursor, own |-> own, task |-> of])
    /\ UNCHANGED follower

OfTask(f, e) == e.own /\ (f.of = "all" \/ e.task = f.of)

\* Mutant: the newest events are served first.
EventsAfterNewest(f) ==
    LET all == SelectSeq(log, LAMBDA e : OfTask(f, e) /\ e.cursor > f.after)
    IN  SubSeq(all, Max({1, Len(all) - PAGE + 1}), Len(all))

\* events_after: of the session and the task, in the order of the cursor.
EventsAfter(f) ==
    LET all == SelectSeq(log, LAMBDA e : OfTask(f, e) /\ e.cursor > f.after)
    IN  SubSeq(all, 1, Min({PAGE, Len(all)}))

\* events.read with the cursor of the last event received.
Follow ==
    /\ EventsAfter(follower) # <<>>
    /\ follower' = [follower EXCEPT !.has = @ \o EventsAfter(follower),
                                    !.after = Last(EventsAfter(follower)).cursor]
    /\ UNCHANGED log

LogNext == Follow \/ \E own \in BOOLEAN, t \in {"t", "u"} : AppendEvent(own, t)

----------------------------------------------------------------------------
\* A walk that was not refused has seen every task there was at its last page
\* exactly once, in order, however many were created and moved in between.
WalkIsComplete == walk.at = "done" => walk.seen = [i \in 1..walk.rows |-> i]

\* A task waits for the same things on a page as in its own snapshot.
PagesTellTheSame ==
    LET contents == [i \in DOMAIN listed |-> listed[i].content]
    IN  \A i \in DOMAIN listed : ToSet(BatchedBlockers(contents)[i]) = ToSet(BlockersInTx(contents[i]))

\* A page names a question only while it is pending, and names it once; a task
\* that is blocked or paused always says why.
BlockersAreLive ==
    \A i \in DOMAIN listed :
        LET c == listed[i].content
            asked == SelectSeq(BlockersInTx(c), LAMBDA b : b[1] = "decision")
        IN  /\ Len(asked) <= 1 /\ \A b \in ToSet(asked) : b[2] = c.pending
            /\ c.life \in {"blocked", "paused"} => BlockersInTx(c) # <<>>

\* A session is left only when none of its tasks is running, on whatever page.
SwitchOrphansNothing == [][left' # left => \A i \in DOMAIN listed : ~ Running(i)]_pageVars

\* A follower has, in order, every event of its session and task up to its
\* cursor: what it has read before is never inserted behind it.
FollowerMissesNothing ==
    follower.has = SelectSeq(log, LAMBDA e : OfTask(follower, e) /\ e.cursor <= follower.after)

\* Requests as a whole: every answer taken up is journaled or a counted gap, a question has
\* one answer, a bootstrap stands as it was recorded, and a command acts once.
RequestsCountOnce ==
    [](AnswersAreAccounted /\ OneAnswerPerQuestion /\ BootstrapStands) /\ ReceiptedOnce

\* What a client reads, as a whole: pages and snapshots name the same live blockers, a
\* walk and a follower miss nothing, and a switch leaves no running task behind.
ReadsAreWhole ==
    /\ [](BlockersAreLive /\ PagesTellTheSame /\ WalkIsComplete /\ FollowerMissesNothing)
    /\ SwitchOrphansNothing
=============================================================================
