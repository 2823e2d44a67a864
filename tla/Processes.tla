----------------------------- MODULE Processes ------------------------------
(***************************************************************************)
(* One owned launch on Linux.  The executor (run_owned of                  *)
(* src/src/executor.rs) spawns a waiter; the waiter enters its namespaces  *)
(* and forks the init of a pid namespace; init forks the child that fences *)
(* itself and executes the payload (main.rs of the sandbox helper).        *)
(* Init reports over a control socket, the child to init over a private    *)
(* pair.  Everyone reads one monotonic clock.  Any process may be killed;  *)
(* the kernel kills init with its waiter, and a pid namespace with its     *)
(* init.  The executor may delete the launch's artifacts only when the     *)
(* transcript proves that nothing of the launch is left.                   *)
(***************************************************************************)
EXTENDS Integers, Sequences

VARIABLES
    clock,      \* 0 before the deadline, 1 past it, 2 past +500 ms, 3 past +1 s
    up,         \* frames init has written to the control socket, unread
    down,       \* the stop frame the executor has written, unread
    private,    \* records the child has written to the private pair, unread
    parent, waiter, init, child,
    artifacts   \* the launch directory: "kept" or "removed"
ownedVars == <<clock, up, down, private, parent, waiter, init, child, artifacts>>

OwnedInit ==
    /\ clock = 0 /\ up = << >> /\ down = << >> /\ private = << >> /\ artifacts = "kept"
    /\ \E pidfd \in BOOLEAN :
         parent = [at |-> "read", pidfd |-> pidfd, primary |-> ~ pidfd, fault |-> FALSE,
                   requested |-> "none", stopSent |-> FALSE, emergency |-> FALSE,
                   eof |-> FALSE, reaped |-> "none", lost |-> FALSE,
                   entry |-> FALSE, terminal |-> "none", result |-> "none"]
    /\ waiter = "boot"
    /\ init = [at |-> "none", ready |-> FALSE, eof |-> FALSE, open |-> TRUE, fault |-> FALSE,
               entered |-> FALSE, stop |-> "none", status |-> "none"]
    /\ child = "none"

ChildAlive == child \in {"prep", "ready", "payload", "hang"}
InitAlive == init.at \in {"setup", "read", "reap"}
WaiterAlive == waiter \in {"boot", "waiting"}

----------------------------------------------------------------------------
\* The waiter.

\* run: a bootstrap that fails reports a fault and exits.
WaiterFails ==
    /\ waiter = "boot" /\ waiter' = "failed"
    /\ up' \in {up, Append(up, "fault")}
    /\ UNCHANGED <<clock, down, private, parent, init, child, artifacts>>

\* bootstrap, then fork: init starts its own setup.
WaiterForks ==
    /\ waiter = "boot" /\ clock = 0 /\ waiter' = "waiting"
    /\ init' = [init EXCEPT !.at = "setup"]
    /\ UNCHANGED <<clock, up, down, private, parent, child, artifacts>>

\* run, its waitpid: init can be reaped once its namespace is empty.
WaiterReaps ==
    /\ waiter = "waiting" /\ init.at \in {"exit0", "exited"} /\ ~ ChildAlive
    /\ waiter' = IF init.at = "exit0" THEN "success" ELSE "failed"
    /\ UNCHANGED <<clock, up, down, private, parent, init, child, artifacts>>

----------------------------------------------------------------------------
\* Init.

\* fatal: one fault frame, if it can be written, and the exit status of a failure.
InitFatal == up' \in {up, Append(up, "fault")} /\ init' = [init EXCEPT !.at = "exited"]

InitSetupFails ==
    /\ init.at = "setup" /\ InitFatal
    /\ UNCHANGED <<clock, down, private, parent, waiter, child, artifacts>>

\* setup: proc, limits, descriptors and the environment; then fork.
InitForks ==
    /\ init.at = "setup" /\ clock = 0
    /\ init' = [init EXCEPT !.at = "read"] /\ child' = "prep"
    /\ UNCHANGED <<clock, up, down, private, parent, waiter, artifacts>>

\* parent_stop: the frame, the deadline, or the end of the control socket.
StopSeen ==
    IF init.stop # "none" THEN init.stop
    ELSE IF down # << >> THEN Head(down)
    ELSE IF parent.at \in {"done", "dead"} THEN "control_lost"
    ELSE IF clock > 0 THEN "deadline" ELSE "none"

\* The private pair is at its end: the child executed the payload or is gone.
PrivateEof == private = << >> /\ child \notin {"prep", "ready", "hang"}

\* Mutant: the entry is published as soon as the child is ready to execute.
EntryBeforeExec(i, settled) == ~ i.entered /\ ~ i.fault /\ i.ready

\* entry_ready_to_publish: the child executed, or there is nothing to wait for.
EntryReadyToPublish(i, settled) ==
    ~ i.entered /\ ~ i.fault /\ i.ready /\ (i.eof \/ (i.stop # "none" /\ settled))

\* The private record that is read, admitted or turned into a fault.
PrivateRead(i) ==
    LET record == IF i.eof \/ ~ i.open \/ private = << >> THEN "none" ELSE Head(private)
        ended == record = "none" /\ i.open /\ ~ i.eof /\ PrivateEof
    IN  CASE record = "entry" /\ ~ i.ready /\ ~ i.fault -> [i EXCEPT !.ready = TRUE]
          [] record = "fault" /\ ~ i.fault -> [i EXCEPT !.fault = TRUE]
          [] record \in {"entry", "fault"} /\ (i.fault \/ (record = "entry" /\ i.ready)) ->
               [i EXCEPT !.fault = TRUE, !.stop = "observation"]
          [] ended -> [i EXCEPT !.eof = TRUE, !.fault = i.fault \/ (~ i.entered /\ ~ i.ready),
                         !.stop = IF i.fault \/ i.entered \/ i.ready THEN i.stop ELSE "observation"]
          [] record = "none" /\ ~ ended -> i

\* init's loop, its reads: the stop, the private record, the publication.
InitRead ==
    /\ init.at = "read"
    /\ LET stopped == [init EXCEPT !.stop = StopSeen]
           settled == stopped.stop # "none" /\ (private = << >> \/ stopped.fault)
           seen == IF stopped.stop # "none" /\ stopped.fault /\ ~ stopped.ready THEN stopped
                   ELSE PrivateRead(stopped)
           publishes == EntryReadyToPublish(seen, settled)
           closes == seen.open /\ (seen.eof \/ settled \/ seen.stop = "observation")
       IN  /\ down' = IF init.stop = "none" THEN << >> ELSE down
           /\ private' = IF private # << >> /\ init.open /\ seen # stopped THEN Tail(private)
                         ELSE private
           /\ \/ /\ up' = IF publishes THEN Append(up, "entry") ELSE up
                 /\ init' = [seen EXCEPT !.entered = seen.entered \/ publishes, !.at = "reap",
                                         !.open = seen.open /\ ~ closes /\ ~ publishes]
              \/ publishes /\ InitFatal
    /\ UNCHANGED <<clock, parent, waiter, child, artifacts>>

\* Mutant: init waits for a child it never kills.
ReapWithoutKill ==
    /\ init.at = "reap"
    /\ LET status == IF ~ init.open /\ ~ ChildAlive THEN child ELSE "none"
           ends == status # "none" /\ (init.eof \/ init.stop # "none")
       IN  init' = [init EXCEPT !.status = status, !.at = IF ends THEN "report" ELSE "read"]
    /\ UNCHANGED <<clock, up, down, private, parent, waiter, child, artifacts>>

\* init's loop, its second half: kill once it has stopped, wait for the child.
InitReap ==
    /\ init.at = "reap"
    /\ LET kills == init.stop # "none" /\ ~ init.open /\ init.status = "none" /\ ChildAlive
           status == IF ~ init.open /\ ~ ChildAlive THEN child ELSE "none"
           ends == \/ status # "none" /\ (init.eof \/ init.stop # "none")
                   \/ init.stop # "none" /\ clock = 3
       IN  /\ child' = IF kills \/ (ends /\ ChildAlive) THEN "killed" ELSE child
           /\ init' = [init EXCEPT !.status = status, !.at = IF ends THEN "report" ELSE "read"]
    /\ UNCHANGED <<clock, up, down, private, parent, waiter, artifacts>>

\* Mutant: a stop that init carried out is not reported as one.
InitVerdictExit(i) == IF i.fault THEN "fault" ELSE IF i.status # "none" THEN "exit" ELSE "none"

\* What init reports last.
InitVerdict(i) ==
    IF i.fault THEN "fault" ELSE IF i.stop # "none" THEN "stop"
    ELSE IF i.status # "none" THEN "exit" ELSE "none"

\* init's end: its last frame, and success only with an entry and a terminal.
InitReport ==
    /\ init.at = "report"
    /\ LET last == InitVerdict(init)
           proves == last \in {"stop", "exit"} /\ init.entered
       IN  \/ /\ proves /\ up' = Append(up, last) /\ init' = [init EXCEPT !.at = "exit0"]
           \/ /\ up' \in {up} \cup IF last = "fault" THEN {Append(up, last)} ELSE {}
              /\ init' = [init EXCEPT !.at = "exited"]
    /\ UNCHANGED <<clock, down, private, parent, waiter, child, artifacts>>

----------------------------------------------------------------------------
\* The child.

\* capabilities and fence, then the record that it is ready.
ChildReady ==
    /\ child = "prep" /\ child' = "ready" /\ private' = Append(private, "entry")
    /\ UNCHANGED <<clock, up, down, parent, waiter, init, artifacts>>

\* fatal in the child: a fault record and its end, or a fail stop.
ChildFails ==
    /\ child \in {"prep", "ready"}
    /\ \/ private' = Append(private, "fault") /\ child' = "gone"
       \/ private' = private /\ child' = "hang"
    /\ UNCHANGED <<clock, up, down, parent, waiter, init, artifacts>>

ChildExecs ==
    /\ child = "ready" /\ clock = 0 /\ child' = "payload"
    /\ UNCHANGED <<clock, up, down, private, parent, waiter, init, artifacts>>

PayloadEnds ==
    /\ child = "payload" /\ child' = "ended"
    /\ UNCHANGED <<clock, up, down, private, parent, waiter, init, artifacts>>

----------------------------------------------------------------------------
\* The executor: run_owned, its loop.

\* OwnedSequence::push.
Push(p, frame) ==
    LET enters == frame = "entry" /\ ~ p.entry /\ ~ p.fault /\ p.terminal = "none"
        faults == frame = "fault" /\ ~ p.entry /\ ~ p.fault
        breaks == frame = "fault" /\ p.entry /\ p.terminal = "none"
        ends == frame \in {"exit", "stop"} /\ p.entry /\ p.terminal = "none"
    IN  IF p.lost THEN p
        ELSE CASE enters -> [p EXCEPT !.entry = TRUE]
               [] faults -> [p EXCEPT !.primary = TRUE, !.fault = TRUE]
               [] breaks -> [p EXCEPT !.primary = TRUE, !.fault = TRUE, !.terminal = frame]
               [] ends -> [p EXCEPT !.terminal = frame]
               [] ~ (enters \/ faults \/ breaks \/ ends) -> [p EXCEPT !.lost = TRUE, !.primary = TRUE]

\* Every process that holds the control socket is gone.
ControlEof == ~ WaiterAlive /\ ~ InitAlive /\ init.at # "report" /\ child # "prep"

\* The stop predicate or the deadline, then one frame or the end of the socket.
ParentRead ==
    /\ parent.at = "read"
    /\ \E cancel \in {"none", "cancelled"} :
         LET requested == IF parent.primary \/ parent.requested # "none" THEN parent.requested
                          ELSE IF cancel # "none" THEN cancel
                          ELSE IF clock > 0 THEN "deadline" ELSE "none"
             asked == [parent EXCEPT !.requested = requested, !.at = "act"]
         IN  parent' = IF up # << >> /\ ~ parent.eof THEN Push(asked, Head(up))
                       ELSE [asked EXCEPT !.eof = asked.eof \/ ControlEof]
    /\ up' = IF up # << >> /\ ~ parent.eof THEN Tail(up) ELSE up
    /\ UNCHANGED <<clock, down, private, waiter, init, child, artifacts>>

\* A read, a poll or the pidfd that fails: the observation is lost.
ParentObservationFails ==
    /\ parent.at = "read" /\ ~ parent.primary
    /\ parent' = [parent EXCEPT !.primary = TRUE, !.lost = TRUE]
    /\ UNCHANGED <<clock, up, down, private, waiter, init, child, artifacts>>

\* OwnedSequence::released.
Released(p) ==
    /\ ~ p.lost /\ p.eof /\ p.reaped = "success"
    /\ p.entry /\ p.terminal \in {"exit", "stop"}

\* grace_keeps_transcript.
GraceKeeps(p) == p.entry /\ p.terminal # "none" /\ p.reaped = "success"

\* The end of run_owned: unproven keeps the artifacts, released removes them.
Concluded(p) ==
    [p EXCEPT !.at = "done",
       !.result = IF ~ Released(p) THEN IF p.requested = "deadline" THEN "timeout" ELSE "unproven"
                  ELSE IF p.primary THEN "error"
                  ELSE IF p.requested = "cancelled" THEN "stopped"
                  ELSE IF p.terminal = "exit" THEN "exited" ELSE "timeout"]

\* Mutant: the loop waits for a waiter that succeeded.
LoopEndProven(p) ==
    IF p.reaped = "success" /\ p.eof /\ ~ ChildAlive THEN "drained" ELSE "none"

\* How the loop ends: drained, or at the end of the cleanup grace.
LoopEnd(p) ==
    IF p.reaped # "none" /\ p.eof /\ ~ ChildAlive THEN "drained"
    ELSE IF clock = 3 THEN "grace" ELSE "none"

\* The stop frame once there is an entry, the emergency kill of the waiter
\* otherwise; try_wait; the end of the loop.
ParentAct ==
    /\ parent.at = "act"
    /\ LET ending == (parent.primary \/ parent.requested # "none") /\ parent.reaped = "none"
           sends == ending /\ parent.entry /\ parent.terminal = "none" /\ ~ parent.stopSent
           known == parent.fault /\ parent.requested = "none"
           kills == /\ ending /\ ~ parent.emergency
                    /\ \/ ~ known /\ ~ (parent.stopSent \/ sends) /\ parent.terminal = "none"
                       \/ clock >= 2
           acted == [parent EXCEPT !.stopSent = parent.stopSent \/ sends,
                       !.emergency = parent.emergency \/ kills, !.lost = parent.lost \/ kills,
                       !.reaped = IF WaiterAlive THEN parent.reaped ELSE waiter]
           end == LoopEnd(acted)
           kept == [acted EXCEPT !.eof = acted.eof \/ GraceKeeps(acted),
                                 !.lost = acted.lost \/ ~ GraceKeeps(acted)]
       IN  /\ down' = IF sends THEN Append(down, "stop") ELSE down
           /\ waiter' = IF kills /\ parent.pidfd /\ WaiterAlive THEN "killed" ELSE waiter
           /\ parent' = CASE end = "drained" -> Concluded(acted)
                          [] end = "grace" -> Concluded(kept)
                          [] end = "none" -> [acted EXCEPT !.at = "read"]
           /\ artifacts' = IF end # "none" /\ Released(IF end = "drained" THEN acted ELSE kept)
                           THEN "removed" ELSE artifacts
    /\ UNCHANGED <<clock, up, private, init, child>>

----------------------------------------------------------------------------
\* The kernel and the clock.

Tick == clock < 3 /\ clock' = clock + 1
        /\ UNCHANGED <<up, down, private, parent, waiter, init, child, artifacts>>

ParentDies ==
    /\ parent.at \in {"read", "act"} /\ parent' = [parent EXCEPT !.at = "dead"]
    /\ UNCHANGED <<clock, up, down, private, waiter, init, child, artifacts>>

WaiterKilled ==
    /\ WaiterAlive /\ waiter' = "killed"
    /\ UNCHANGED <<clock, up, down, private, parent, init, child, artifacts>>

\* arm_owned_parent: the waiter dies with the executor, init with the waiter.
DeathSignal ==
    /\ \/ parent.at = "dead" /\ WaiterAlive /\ waiter' = "killed" /\ init' = init
       \/ /\ ~ WaiterAlive /\ (InitAlive \/ init.at = "report")
          /\ init' = [init EXCEPT !.at = "exited"] /\ waiter' = waiter
    /\ UNCHANGED <<clock, up, down, private, parent, child, artifacts>>

\* A pid namespace dies with its init.
NamespaceDies ==
    /\ init.at \in {"exit0", "exited"} /\ ChildAlive /\ child' = "killed"
    /\ UNCHANGED <<clock, up, down, private, parent, waiter, init, artifacts>>

InitNext == InitSetupFails \/ InitForks \/ InitRead \/ InitReap \/ InitReport
OwnedNext ==
    \/ WaiterFails \/ WaiterForks \/ WaiterReaps \/ InitNext
    \/ ChildReady \/ ChildFails \/ ChildExecs \/ PayloadEnds
    \/ ParentRead \/ ParentObservationFails \/ ParentAct
    \/ Tick \/ ParentDies \/ WaiterKilled \/ DeathSignal \/ NamespaceDies

\* The scheduler runs every process, the kernel delivers its signals, and time
\* passes; nothing makes a payload end.
OwnedFairness ==
    /\ WF_ownedVars(WaiterFails) /\ WF_ownedVars(WaiterReaps) /\ WF_ownedVars(InitNext)
    /\ WF_ownedVars(ParentRead) /\ WF_ownedVars(ParentAct) /\ WF_ownedVars(Tick)
    /\ WF_ownedVars(DeathSignal) /\ WF_ownedVars(NamespaceDies)
OwnedSpec == OwnedInit /\ [][OwnedNext]_ownedVars /\ OwnedFairness

----------------------------------------------------------------------------
\* The launch directory is removed only when no process of the launch is left:
\* every kill, lost frame or deadline in between leaves it unproven and kept.
ArtifactsOutliveLaunch ==
    artifacts = "removed" => ~ WaiterAlive /\ ~ InitAlive /\ ~ ChildAlive

\* An exit status the executor returns is the payload's own: neither init nor the
\* kernel killed it.
StatusIsPayloads == parent.result = "exited" => child = "ended"

\* An entry means that the child has fenced itself and that its exec is decided.
EntryIsFenced ==
    parent.entry => child \notin {"none", "prep"} /\ (init.stop = "none" => child # "ready")

\* The executor is never held: every launch comes to a result.
LaunchEnds == <>(parent.at \in {"done", "dead"})

\* No payload survives its launch: a result or the executor's own death is
\* followed by the end of every process of the launch.
NothingSurvives ==
    parent.at \in {"done", "dead"} ~> (~ WaiterAlive /\ ~ InitAlive /\ ~ ChildAlive)

-----------------------------------------------------------------------------
(***************************************************************************)
(* The runtime watches a subject it spawned through pipes it must neither    *)
(* block on nor cut short: the bounded observer of the index worker and of *)
(* a confined run, the phases of a check and the hooks (executor.rs), and  *)
(* what context.rs makes of a worker's exit.  The subject, a descendant that *)
(* may leave the process group, and the elapsed move between any two calls   *)
(* of the observer.  Output is counted in pieces, of which the first       *)
(* Answer are a complete answer and no other number is.                    *)
(***************************************************************************)

CONSTANTS
    AnswerCap,      \* pieces an answer may have
    Answer,         \* pieces of a complete answer
    MaxOutput,      \* bound: pieces the subject's family writes
    Deadline,       \* bound: when the observation must end
    Grace,          \* CONFINED_DEADLINE, the extra time of a phase's last drain
    HOOK_MAX_DEPTH

ASSUME ObservationAssumption ==
    {AnswerCap, Answer, MaxOutput, Deadline, Grace, HOOK_MAX_DEPTH} \subseteq Nat

VARIABLES
    kind,       \* who observes: "worker", "confined", "hook" or "phase"
    subject,      \* "running", or how it ended: "ok", "failed", "signal"
    kin,        \* a descendant holding stdout: "none", "member", "escaped", "gone"
    stdin,      \* [left, unread, ours, theirs]: the payload and the ends of its pipe
    wrote,      \* pieces written to stdout by the family
    reader,     \* [at, taken, retained, open, exited, runs]: the observer
    elapsed,
    cancelled,
    outcome     \* what the observer returned
observeVars == <<kind, subject, kin, stdin, wrote, reader, elapsed, cancelled, outcome>>

Holders == subject = "running" \/ kin \in {"member", "escaped"}
Lesser(a, b) == IF a < b THEN a ELSE b

\* Mutant: the observer retains exactly what an answer may have.
CapExact == IF kind = "phase" THEN MaxOutput ELSE AnswerCap

\* stdout_cap and READ_MAX_CAP keep one piece more than an answer may have; the
\* BoundedCapture of a phase counts everything it reads.
RetainCap == IF kind = "phase" THEN MaxOutput ELSE AnswerCap + 1

At(step) == outcome = "none" /\ reader.at = step
Family == <<subject, kin>>
Watch == <<kind, elapsed, cancelled>>

----------------------------------------------------------------------------
(* The subject and its family *)

ReadStdin == /\ subject = "running" /\ stdin.theirs /\ stdin.unread > 0
             /\ stdin' = [stdin EXCEPT !.unread = @ - 1]
             /\ UNCHANGED <<Watch, Family, wrote, reader, outcome>>
CloseStdin == /\ subject = "running" /\ stdin.theirs
              /\ stdin' = [stdin EXCEPT !.theirs = FALSE]
              /\ UNCHANGED <<Watch, Family, wrote, reader, outcome>>

\* A pipe takes one piece, then its writer blocks until it is read.
WriteOut == /\ Holders /\ reader.open /\ wrote < MaxOutput /\ wrote = reader.taken
            /\ wrote' = wrote + 1
            /\ UNCHANGED <<Watch, Family, stdin, reader, outcome>>
Fork == /\ subject = "running" /\ kin = "none" /\ kin' = "member"
        /\ UNCHANGED <<Watch, subject, stdin, wrote, reader, outcome>>
Escape == /\ kin = "member" /\ kin' = "escaped"
          /\ UNCHANGED <<Watch, subject, stdin, wrote, reader, outcome>>
KinEnds == /\ kin \in {"member", "escaped"} /\ kin' = "gone"
           /\ UNCHANGED <<Watch, subject, stdin, wrote, reader, outcome>>
ChildEnds == /\ subject = "running"
             /\ subject' \in {"ok", "failed", "signal"}
             /\ stdin' = [stdin EXCEPT !.theirs = FALSE]
             /\ UNCHANGED <<Watch, kin, wrote, reader, outcome>>

----------------------------------------------------------------------------
(* Ending the family *)

\* Mutant: only the child itself is killed.
KillsChild == /\ subject' = (IF subject = "running" THEN "signal" ELSE subject)
              /\ kin' = kin
              /\ stdin' = [stdin EXCEPT !.theirs = FALSE]

\* kill_process_group, child.kill and child.wait: terminate_confined_child and
\* end_hook.  A descendant that left the group is out of reach.
Terminate == /\ subject' = (IF subject = "running" THEN "signal" ELSE subject)
             /\ kin' = (IF kin = "member" THEN "gone" ELSE kin)
             /\ stdin' = [stdin EXCEPT !.theirs = FALSE]

Observed(out) == outcome' = out /\ Terminate /\ UNCHANGED <<Watch, wrote, reader>>
Goes(step) == reader' = [reader EXCEPT !.at = step]
Stays(step) == Goes(step) /\ UNCHANGED <<Watch, Family, stdin, wrote, outcome>>

----------------------------------------------------------------------------
(* The observers *)

First == CASE kind = "phase" -> "drain" [] OTHER -> "write"

\* effective_deadline refuses a cancelled worker, or one whose deadline has passed,
\* before it spawns; the others are spawned at once.
Start == /\ At("start")
         /\ IF kind = "worker" /\ (cancelled \/ elapsed >= Deadline)
            THEN outcome' = "refused" /\ Terminate /\ UNCHANGED <<Watch, wrote, reader>>
            ELSE Stays(First)

\* write_stdin_nonblocking: an empty payload closes our end, a full pipe writes
\* nothing; a closed reader ends the payload of a worker and fails a confined run.
WriteStdin ==
    /\ At("write") /\ kind \in {"worker", "confined"}
    /\ \/ ~stdin.ours /\ Stays("drain")
       \/ /\ stdin.ours /\ stdin.left = 0
          /\ stdin' = [stdin EXCEPT !.ours = FALSE]
          /\ Goes("drain") /\ UNCHANGED <<Watch, Family, wrote, outcome>>
       \/ /\ stdin.ours /\ stdin.left > 0 /\ stdin.theirs
          /\ stdin' = IF stdin.unread = 0 THEN [stdin EXCEPT !.left = @ - 1, !.unread = 1] ELSE stdin
          /\ Goes("drain") /\ UNCHANGED <<Watch, Family, wrote, outcome>>
       \/ /\ stdin.ours /\ stdin.left > 0 /\ ~stdin.theirs /\ kind = "worker"
          /\ stdin' = [stdin EXCEPT !.ours = FALSE]
          /\ Goes("drain") /\ UNCHANGED <<Watch, Family, wrote, outcome>>
       \/ stdin.ours /\ stdin.left > 0 /\ ~stdin.theirs /\ kind = "confined" /\ Observed("killed")

\* exchange_with_hook: the payload fits the pipe, so write_all does not wait; a
\* hook that has already closed its stdin could not be observed.
WritePayload ==
    /\ At("write") /\ kind = "hook"
    /\ IF stdin.theirs
       THEN /\ stdin' = [stdin EXCEPT !.unread = @ + stdin.left, !.left = 0, !.ours = FALSE]
            /\ Goes("drain") /\ UNCHANGED <<Watch, Family, wrote, outcome>>
       ELSE Observed("lost")

\* One read of drain_nonblocking_pipe, drain_phase or the hook's: what there is, the
\* end of the stream once nobody holds it, or nothing yet.
Read ==
    IF ~reader.open THEN reader
    ELSE IF wrote > reader.taken
    THEN [reader EXCEPT !.taken = wrote, !.retained = Lesser(RetainCap, @ + wrote - reader.taken)]
    ELSE IF ~Holders THEN [reader EXCEPT !.open = FALSE] ELSE reader

Drain == /\ At("drain") /\ reader' = [Read EXCEPT !.at = "stop"]
         /\ UNCHANGED <<Watch, Family, stdin, wrote, outcome>>

\* The stop closure of a worker, the checks of a phase's step and of a hook's loop.
StopCause ==
    CASE kind = "worker" /\ cancelled -> "cancelled"
      [] kind \in {"worker", "hook"} /\ ~(kind = "worker" /\ cancelled)
         /\ reader.retained > AnswerCap -> "too_large"
      [] kind = "phase" /\ cancelled -> "cancelled"
      [] kind = "phase" /\ ~cancelled /\ elapsed >= Deadline -> "timed_out"
      [] OTHER -> "none"
CheckStop == /\ At("stop")
             /\ IF StopCause = "none" THEN Stays("wait") ELSE Observed(StopCause)

\* decode_envelope and parse_hook_answer: a complete answer and nothing after it.
Decodes == reader.retained = Answer

\* classify_exit for a worker, the helper's verdict for a confined run; a hook's
\* exit status is not looked at.
Verdict ==
    CASE kind = "worker" /\ reader.retained > AnswerCap -> "too_large"
      [] kind = "worker" /\ reader.retained <= AnswerCap ->
            IF subject = "ok" /\ Decodes THEN "answer" ELSE "failed"
      [] kind = "confined" -> IF subject = "signal" THEN "killed" ELSE "exited"
      [] kind = "phase" -> "exited"
      [] kind = "hook" -> IF Decodes THEN "answer" ELSE "failed"

\* Mutant: the exit is reported with what has been read so far.
ExitReported == Observed(Verdict)

\* The exit was seen: the group is killed, and the rest of the output is still to
\* be read.
ExitSeen == /\ Terminate /\ Goes("finish") /\ UNCHANGED <<Watch, wrote, outcome>>

\* try_wait, then the deadline.  A phase looked at its deadline before.
AwaitExit ==
    /\ At("wait") /\ kind # "hook"
    /\ \/ subject # "running" /\ ExitSeen
       \/ subject = "running" /\ kind # "phase" /\ elapsed >= Deadline /\ Observed("timed_out")
       \/ subject = "running" /\ (kind = "phase" \/ elapsed < Deadline) /\ Stays(First)

\* hook_transform: an allowed rewrite of the path is put to the hook again,
\* HOOK_MAX_DEPTH times in all, each under a deadline of its own.
AskAgain ==
    /\ Decodes /\ reader.runs < HOOK_MAX_DEPTH
    /\ subject' = "running" /\ kin' = (IF kin = "escaped" THEN kin ELSE "none")
    /\ stdin' = [left |-> 1, unread |-> 0, ours |-> TRUE, theirs |-> TRUE]
    /\ wrote' = 0
    /\ reader' = [at |-> "write", taken |-> 0, retained |-> 0, open |-> TRUE,
                  exited |-> FALSE, runs |-> reader.runs + 1]
    /\ elapsed' = 0 /\ UNCHANGED <<kind, cancelled, outcome>>

\* A hook is done when it has exited and its stdout has ended.
HookDone == (reader.exited \/ subject # "running") /\ ~reader.open
AwaitHook ==
    /\ At("wait") /\ kind = "hook"
    /\ \/ HookDone /\ (AskAgain \/ Observed(Verdict))
       \/ ~HookDone /\ elapsed >= Deadline /\ Observed("timed_out")
       \/ /\ ~HookDone /\ elapsed < Deadline
          /\ reader' = [reader EXCEPT !.at = "drain", !.exited = @ \/ subject # "running"]
          /\ UNCHANGED <<Watch, Family, stdin, wrote, outcome>>

\* Mutant: the last drain waits for the end of the stream.
DrainDeadlineNever == Deadline + Grace + 1

\* drain_pipe_to_eof keeps the deadline; PhasePipes::finish gives its own.
DrainDeadline == IF kind = "phase" THEN Deadline + Grace ELSE Deadline

Finish ==
    /\ At("finish")
    /\ \/ ~reader.open /\ Observed(Verdict)
       \/ reader.open /\ elapsed >= DrainDeadline /\ Observed("timed_out")
       \/ /\ reader.open /\ elapsed < DrainDeadline
          /\ reader' = Read /\ UNCHANGED <<Watch, Family, stdin, wrote, outcome>>

\* A read, a wait or a poll fails: every path out ends the family first.
ObserveFails ==
    /\ outcome = "none" /\ reader.at \in {"drain", "wait", "finish"} /\ Observed("lost")

----------------------------------------------------------------------------
Cancel == /\ kind \in {"worker", "phase"} /\ ~cancelled /\ outcome = "none" /\ cancelled' = TRUE
          /\ UNCHANGED <<kind, Family, stdin, wrote, reader, elapsed, outcome>>
DeadlineTick == /\ elapsed < Deadline + Grace /\ elapsed' = elapsed + 1
        /\ UNCHANGED <<kind, Family, stdin, wrote, reader, cancelled, outcome>>

ObserveInit ==
    /\ kind \in {"worker", "confined", "hook", "phase"}
    /\ subject = "running" /\ kin = "none"
    /\ stdin = [left |-> IF kind = "phase" THEN 0 ELSE IF kind = "hook" THEN 1 ELSE 2,
                unread |-> 0, ours |-> kind # "phase", theirs |-> kind # "phase"]
    /\ wrote = 0
    /\ reader = [at |-> "start", taken |-> 0, retained |-> 0, open |-> TRUE, exited |-> FALSE, runs |-> 1]
    /\ elapsed = 0 /\ cancelled = FALSE /\ outcome = "none"

FamilyStep == ReadStdin \/ CloseStdin \/ WriteOut \/ Fork \/ Escape \/ KinEnds \/ ChildEnds
ObserverStep == \/ Start \/ WriteStdin \/ WritePayload \/ Drain \/ CheckStop
                \/ AwaitExit \/ AwaitHook \/ Finish
ObserveNext == FamilyStep \/ ObserverStep \/ ObserveFails \/ Cancel \/ DeadlineTick

\* The observer's loop is a thread of its own, every wait of which is a slice, and
\* time passes.
ObserveSpec == ObserveInit /\ [][ObserveNext]_observeVars
               /\ WF_observeVars(ObserverStep) /\ WF_observeVars(DeadlineTick)

----------------------------------------------------------------------------
(* Properties *)

\* An exit is reported, and an answer taken from it, only when the stream has ended
\* and every piece of it was read; an answer is everything that was written, never
\* the part of a longer output that fits (classify_exit, drain_pipe_to_eof).
AnswerIsWhole ==
    outcome \in {"answer", "exited"} =>
        /\ ~Holders /\ reader.taken = wrote
        /\ outcome = "answer" => reader.retained = wrote

\* However an observation ends, the child is dead and so is what stayed in its
\* process group (observe_bounded, PhasePipes::finish, run_hook).
FamilyIsDead == outcome # "none" => subject # "running" /\ kin # "member"

\* An observation ends, whatever the child, its descendants and its pipes do: one
\* that fills a pipe, never reads, or leaves a stream open in another session.
ObservationEnds == <>(outcome # "none")

\* Owned processes as a whole: artifacts outlive the launch that needs them, a status is the
\* payload's own, entry is fenced, an answer is whole, and an ended observation leaves
\* nothing of the family alive.
ProcessesAreFenced ==
    ArtifactsOutliveLaunch /\ StatusIsPayloads /\ EntryIsFenced /\ AnswerIsWhole /\ FamilyIsDead
=============================================================================
