------------------------------ MODULE McpCalls ------------------------------
(***************************************************************************)
(* mcp.call (src/src/mcp.rs and mcp_call of src/src/commands.rs): one      *)
(* logical operation is the attempt that opened it, its durable facts are  *)
(* a claim, a continuation handle and a terminal record, and a tools/call  *)
(* frame is consumptive.  The process may die between any two steps; what  *)
(* is in run is then lost.  A frame is two chunks long, so that a write    *)
(* can stop half way.                                                      *)
(***************************************************************************)
EXTENDS Naturals

CONSTANT MaxCalls       \* bound: attempts planned

ASSUME McpAssumption == MaxCalls \in Nat

VARIABLES
    mcpTask,        \* lifecycle of the task: "open" or "cancelled"
    granted,        \* whether the policy admits the declared origin
    mcpAttempts,    \* attempt -> state of its row
    opened,         \* operation -> the attempt its claim names, 0 if none
    continuation,   \* operation -> whether a handle is recorded
    terminal,       \* operation -> the recorded outcome
    artifact,       \* operation -> the records of its retained log
    session,        \* the call in progress
    unanswered,     \* ghost: operation -> call frames begun and without an answer
    cut             \* ghost: operations whose resumed send ended with no record
mcpVars == <<mcpTask, granted, mcpAttempts, opened, continuation, terminal, artifact, session,
             unanswered, cut>>

Calls == 1..MaxCalls
Quiet == [at |-> "idle", op |-> 0, attempt |-> 0, bytes |-> 0, out |-> "none"]
Planned == {a \in Calls : mcpAttempts[a] # "none"}
NextAttempt == IF Planned = Calls THEN 0 ELSE CHOOSE a \in Calls \ Planned : \A b \in Calls \ Planned : a <= b

SessionAt(step) == session.at = step
SessionGoes(step) == session' = [session EXCEPT !.at = step]

\* A SeamFailure, or an answer, decides the outcome of the operation.
Decides(out) == session' = [session EXCEPT !.at = "verdict", !.out = out]

Durable == <<mcpTask, granted, mcpAttempts, opened, continuation, terminal, artifact>>
Ghost == <<unanswered, cut>>

\* The call ends without a terminal record: a storage error, or a crash.
Leaves ==
    /\ session' = Quiet
    /\ cut' = IF session.op # 0 /\ unanswered[session.op] > 0 /\ continuation[session.op]
              THEN cut \cup {session.op} ELSE cut

----------------------------------------------------------------------------
(* mcp_call and the head of run *)

\* executor.admit plans an attempt for the send, which opens the operation.
OpenCall ==
    /\ SessionAt("idle") /\ mcpTask = "open" /\ granted /\ NextAttempt # 0
    /\ mcpAttempts' = [mcpAttempts EXCEPT ![NextAttempt] = "planned"]
    /\ session' = [Quiet EXCEPT !.at = "admitted", !.op = NextAttempt, !.attempt = NextAttempt]
    /\ UNCHANGED <<mcpTask, granted, opened, continuation, terminal, artifact, unanswered, cut>>

\* settle_unresolved: an operation that cannot be sent again is unknown, under
\* the attempt its claim names.
Unresolved(o) == session' = [Quiet EXCEPT !.at = "verdict", !.op = o, !.attempt = opened[o], !.out = "unknown"]

\* An operation is named again on a cancelled task or a refused destination.
ResumeRefused(o) ==
    /\ SessionAt("idle") /\ opened[o] # 0 /\ terminal[o] = "none"
    /\ mcpTask = "cancelled" \/ ~granted
    /\ Unresolved(o) /\ UNCHANGED Durable /\ UNCHANGED Ghost

\* Mutant: any opened operation may be sent again.
ResendableOpened(o) == TRUE

\* run: only a recorded continuation is sent again; anything else may already
\* have had an effect.
Resendable(o) == continuation[o]

\* An operation is named again: executor.admit plans an attempt, and the send
\* continues under it or the operation is settled unknown.
ResumeCall(o) ==
    /\ SessionAt("idle") /\ opened[o] # 0 /\ terminal[o] = "none"
    /\ mcpTask = "open" /\ granted /\ NextAttempt # 0
    /\ mcpAttempts' = [mcpAttempts EXCEPT ![NextAttempt] = "planned"]
    /\ IF Resendable(o)
       THEN session' = [Quiet EXCEPT !.at = "admitted", !.op = o, !.attempt = NextAttempt]
       ELSE Unresolved(o)
    /\ UNCHANGED <<mcpTask, granted, opened, continuation, terminal, artifact, unanswered, cut>>

\* run: the task was cancelled meanwhile.
CancelledBeforeClaim ==
    /\ SessionAt("admitted") /\ mcpTask = "cancelled"
    /\ IF opened[session.op] # 0 THEN Unresolved(session.op) ELSE session' = Quiet
    /\ UNCHANGED Durable /\ UNCHANGED Ghost

\* Mutant: the claim is written only when the operation was named.
ClaimNamed == opened' = opened

\* The claim, unless one stands.
WriteClaim ==
    opened' = IF opened[session.op] # 0 THEN opened
              ELSE [opened EXCEPT ![session.op] = session.attempt]

Claim ==
    /\ SessionAt("admitted") /\ mcpTask = "open" /\ WriteClaim /\ SessionGoes("claimed")
    /\ UNCHANGED <<mcpTask, granted, mcpAttempts, continuation, terminal, artifact>>
    /\ UNCHANGED Ghost

\* RetainedLog::open and the send line; without them the call is refused.
RetainSendLine ==
    /\ SessionAt("claimed")
    /\ \/ artifact' = [artifact EXCEPT ![session.op] = @ \cup {"send"}] /\ SessionGoes("logged")
       \/ UNCHANGED artifact /\ Decides("failed")
    /\ UNCHANGED <<mcpTask, granted, mcpAttempts, opened, continuation, terminal>>
    /\ UNCHANGED Ghost

\* stamp: the attempt runs.
Stamp ==
    /\ SessionAt("logged")
    /\ \/ mcpAttempts' = [mcpAttempts EXCEPT ![session.attempt] = "running"] /\ SessionGoes("stamped")
       \/ UNCHANGED mcpAttempts /\ Decides("failed")
    /\ UNCHANGED <<mcpTask, granted, opened, continuation, terminal, artifact>>
    /\ UNCHANGED Ghost

\* credential_material and Session::open: either may refuse.
OpenSession ==
    /\ SessionAt("stamped")
    /\ SessionGoes("spawned") \/ Decides("failed")
    /\ UNCHANGED Durable /\ UNCHANGED Ghost

\* FirstByteGate::reconsult: the admission is asked again before a byte leaves.
Reconsult ==
    /\ SessionAt("spawned")
    /\ IF granted THEN SessionGoes("handshake") ELSE Decides("failed")
    /\ UNCHANGED Durable /\ UNCHANGED Ghost

----------------------------------------------------------------------------
(* the session *)

\* request("initialize") and negotiate: answered, refused, or cut off.
Handshake ==
    /\ SessionAt("handshake")
    /\ SessionGoes("calling") \/ Decides("failed") \/ Decides("unknown")
    /\ UNCHANGED Durable /\ UNCHANGED Ghost

\* write_frame: a chunk of the call frame reaches the peer.
WriteChunk ==
    /\ SessionAt("calling") /\ mcpTask = "open"
    /\ session' = [session EXCEPT !.bytes = @ + 1, !.at = IF session.bytes = 1 THEN "waiting" ELSE @]
    /\ unanswered' = IF session.bytes = 0
                     THEN [unanswered EXCEPT ![session.op] = @ + 1] ELSE unanswered
    /\ UNCHANGED cut /\ UNCHANGED Durable

\* Mutant: the cancellation that cannot be read is always before the send.
UnreadableIsEarly == "failed"

\* CancelWatch::cancelled: what an unreadable cancellation means depends on
\* whether a byte of the call frame has left.
UnreadableMeans == IF session.bytes = 0 THEN "failed" ELSE "unknown"

\* write_frame, wait: cancelled, unreadable, or the pipe, the clock or the
\* reader (read_frames) gives the answer up.
SendFails ==
    /\ session.at \in {"calling", "waiting"}
    /\ Decides("unknown") \/ Decides(UnreadableMeans) \/ (session.bytes = 0 /\ Decides("failed"))
    /\ UNCHANGED Durable /\ UNCHANGED Ghost

Answered == unanswered' = [unanswered EXCEPT ![session.op] = 0] /\ cut' = cut \ {session.op}

\* wait, request: the peer completes the call, or refuses it.
PeerAnswers ==
    /\ SessionAt("waiting") /\ Answered /\ UNCHANGED Durable
    /\ Decides("succeeded") \/ Decides("failed")

\* "input_required": the handle is recorded, the first one standing, and the
\* operation stays open under an attempt that still runs.
PeerAsksInput ==
    /\ SessionAt("waiting") /\ Answered
    /\ continuation' = [continuation EXCEPT ![session.op] = TRUE]
    /\ session' = Quiet
    /\ UNCHANGED <<mcpTask, granted, mcpAttempts, opened, terminal, artifact>>

----------------------------------------------------------------------------
(* finish and settle_unresolved *)

\* settle_attempt, attempt_unknown.
SettleAttempt ==
    /\ SessionAt("verdict") /\ SessionGoes("settled")
    /\ mcpAttempts' = [mcpAttempts EXCEPT ![session.attempt] =
            CASE session.out = "succeeded" -> "confirmed"
              [] session.out = "failed" -> "rejected"
              [] OTHER -> "unknown"]
    /\ UNCHANGED <<mcpTask, granted, opened, continuation, terminal, artifact>>
    /\ UNCHANGED Ghost

\* Mutant: the record is written before the attempt is settled.
BeforeRecordVerdict == SessionAt("verdict") \/ SessionAt("settled")

BeforeRecord == SessionAt("settled")

\* write_record of the terminal boundary.
RecordTerminal ==
    /\ BeforeRecord /\ SessionGoes("recorded")
    /\ terminal' = [terminal EXCEPT ![session.op] = session.out]
    /\ UNCHANGED <<mcpTask, granted, mcpAttempts, opened, continuation, artifact>>
    /\ UNCHANGED Ghost

\* terminal_line.
RetainTerminalLine ==
    /\ SessionAt("recorded") /\ session' = Quiet
    /\ artifact' = [artifact EXCEPT ![session.op] = @ \cup {"terminal"}]
    /\ UNCHANGED <<mcpTask, granted, mcpAttempts, opened, continuation, terminal>>
    /\ UNCHANGED Ghost

\* The process dies, or a write of the store fails: the call ends here.
Dies == ~SessionAt("idle") /\ Leaves /\ UNCHANGED Durable /\ UNCHANGED unanswered

\* The task is cancelled by another connection; the policy moves.
CancelTask ==
    /\ mcpTask = "open" /\ mcpTask' = "cancelled"
    /\ UNCHANGED <<granted, mcpAttempts, opened, continuation, terminal, artifact, session>>
    /\ UNCHANGED Ghost

Regrant ==
    /\ granted' = ~granted
    /\ UNCHANGED <<mcpTask, mcpAttempts, opened, continuation, terminal, artifact, session>>
    /\ UNCHANGED Ghost

McpInit ==
    /\ mcpTask = "open" /\ granted = TRUE /\ session = Quiet /\ cut = {}
    /\ mcpAttempts = [a \in Calls |-> "none"] /\ opened = [o \in Calls |-> 0]
    /\ continuation = [o \in Calls |-> FALSE] /\ terminal = [o \in Calls |-> "none"]
    /\ artifact = [o \in Calls |-> {}] /\ unanswered = [o \in Calls |-> 0]

McpNext ==
    \/ OpenCall \/ \E o \in Calls : ResumeRefused(o) \/ ResumeCall(o)
    \/ CancelledBeforeClaim \/ Claim \/ RetainSendLine \/ Stamp \/ OpenSession \/ Reconsult
    \/ Handshake \/ WriteChunk \/ SendFails \/ PeerAnswers \/ PeerAsksInput
    \/ SettleAttempt \/ RecordTerminal \/ RetainTerminalLine
    \/ Dies \/ CancelTask \/ Regrant

McpSpec == McpInit /\ [][McpNext]_mcpVars

----------------------------------------------------------------------------
\* A pending remote call is never forgotten as a failure: an operation recorded
\* as failed has no frame the peer may still have acted on, unless a resumed
\* send ended with no record of it.
HonestFailure == \A o \in Calls : terminal[o] = "failed" => unanswered[o] = 0 \/ o \in cut

\* Before a byte of the call leaves, the operation's claim and the send line
\* are durable, so that a crash leaves something to settle.
BytesAreClaimed ==
    \A o \in Calls : unanswered[o] > 0 => opened[o] # 0 /\ "send" \in artifact[o]

\* The attempt an operation ended under is settled when the operation is: no
\* crash between the two writes leaves a recorded outcome over a running
\* attempt.  An operation that was never continued ended under its claim's.
RecordedIsSettled ==
    \A o \in Calls : terminal[o] # "none" /\ opened[o] # 0 /\ ~continuation[o] =>
        mcpAttempts[opened[o]] \notin {"planned", "running"}

\* Violated: what may have had an effect is not sent again.  A resumed send
\* that a crash cut off leaves its continuation recorded, and the next resume
\* sends the same handle again.
NeverResent == \A o \in Calls : unanswered[o] <= 1

\* Calls to an MCP server as a whole: a call recorded as failed is not still under way, bytes
\* leave under a durable claim only, and a recorded outcome has settled its attempt.
CallsAreHonest == HonestFailure /\ BytesAreClaimed /\ RecordedIsSettled
=============================================================================
