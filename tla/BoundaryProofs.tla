--------------------------- MODULE BoundaryProofs ---------------------------
(***************************************************************************)
(* Proofs about what crosses the boundary of the runtime: a call to an MCP *)
(* server, the legs of a model send, a key aimed at the card on the screen *)
(* and a frame of a peer that was granted a view, and about the processes  *)
(* the runtime owns: a launch in its namespaces and an observed pipe.      *)
(***************************************************************************)
EXTENDS McpCalls, Broker, DecisionCard, Sharing, Processes, ProofLemmas

-----------------------------------------------------------------------------
(***************************************************************************)
(* A call to an MCP server.  Its invariant says what the claim, the log    *)
(* and the attempt of the operation hold at each step of the session, and  *)
(* that a frame without an answer is either of this session or known cut.  *)
(***************************************************************************)
BeforeFrame == {"admitted", "claimed", "logged", "stamped", "spawned", "handshake", "calling"}
SessionSteps == BeforeFrame \cup {"idle", "waiting", "verdict", "settled", "recorded"}

Outcomes == {"none", "succeeded", "failed", "unknown"}
SessionRecord == [at : SessionSteps, op : Calls \cup {0}, attempt : Calls \cup {0}, bytes : Nat,
                  out : Outcomes]

McpTypeOK ==
    /\ mcpAttempts \in [Calls -> {"none", "planned", "running", "confirmed", "rejected", "unknown"}]
    /\ opened \in [Calls -> Calls \cup {0}]
    /\ continuation \in [Calls -> BOOLEAN]
    /\ terminal \in [Calls -> Outcomes]
    /\ artifact \in [Calls -> SUBSET {"send", "terminal"}]
    /\ unanswered \in [Calls -> Nat] /\ cut \subseteq Calls
    /\ session \in SessionRecord

\* What an operation's claim names, and that only a claimed operation has facts.
ClaimsStand ==
    \A o \in Calls :
        /\ opened[o] \in {0, o}
        /\ opened[o] = 0 => ~continuation[o] /\ terminal[o] = "none"
        /\ opened[o] # 0 => mcpAttempts[o] # "none"

\* What the session in progress stands on: its operation and attempt, its claim, its send
\* line, and that nothing is recorded before the verdict is settled.
SessionStands ==
    /\ session.at = "idle" => session.op = 0
    /\ session.at # "idle" =>
         /\ session.op # 0 /\ session.attempt # 0 /\ mcpAttempts[session.attempt] # "none"
         /\ session.attempt # session.op => opened[session.attempt] = 0 /\ continuation[session.op]
         /\ session.at # "admitted" => opened[session.op] # 0
         /\ session.at \in {"logged", "stamped", "spawned", "handshake", "calling", "waiting"} =>
                "send" \in artifact[session.op]
         /\ session.at \in BeforeFrame \ {"calling"} => session.bytes = 0
         /\ session.at = "waiting" => session.bytes > 0
         /\ session.at = "recorded" <=> terminal[session.op] # "none"
         /\ session.at \in {"verdict", "settled"} => session.out # "none"
         /\ session.at \in {"settled", "recorded"} =>
                mcpAttempts[session.attempt] \notin {"planned", "running"}

\* A frame without an answer: the session began it, or it was cut off and is known so; an
\* operation that is about to fail has none the peer could still act on.
CutIsKnown ==
    \A o \in Calls : terminal[o] = "none" /\ continuation[o] /\ unanswered[o] > 0 =>
        o \in cut \/ (session.op = o /\ session.bytes > 0)
FailureIsKnown ==
    /\ session.at \in BeforeFrame /\ session.bytes = 0 =>
            unanswered[session.op] = 0 \/ session.op \in cut
    /\ session.at \in {"verdict", "settled"} /\ session.out = "failed" =>
            unanswered[session.op] = 0 \/ session.op \in cut

McpInv == McpTypeOK /\ ClaimsStand /\ SessionStands /\ CutIsKnown /\ FailureIsKnown /\ CallsAreHonest

\* NextAttempt is 0 or an attempt that was not planned.
LEMMA NextAttemptIsNew ==
  NextAttempt # 0 => NextAttempt \in Calls /\ mcpAttempts[NextAttempt] = "none"
<1> SUFFICES ASSUME NextAttempt # 0 PROVE NextAttempt \in Calls \ Planned
  BY DEF Planned
<1>1. Planned # Calls /\ Planned \subseteq Calls
  BY DEF NextAttempt, Planned
<1>2. Calls \subseteq Nat
  BY McpAssumption DEF Calls
<1>3. \E a \in Calls \ Planned : \A b \in Calls \ Planned : a <= b
  <2>1. Calls \ Planned # {}
    BY <1>1
  <2>2. Calls \ Planned \subseteq Nat
    BY <1>2
  <2>3. QED
    BY <2>1, <2>2, LeastNat, Zenon
<1>4. QED
  BY <1>1, <1>3 DEF NextAttempt

\* No call is in progress at first.
LEMMA McpInvInit == McpInit => McpInv
BY McpAssumption DEF McpInit, McpInv, McpTypeOK, ClaimsStand, SessionStands, CutIsKnown, FailureIsKnown, Quiet, Calls, SessionRecord, Outcomes,
   CallsAreHonest, HonestFailure, BytesAreClaimed, RecordedIsSettled, SessionSteps, BeforeFrame

\* The session after a step that moves it, and after one that decides its outcome.
LEMMA SessionStepped ==
  ASSUME session \in SessionRecord, NEW step \in SessionSteps, NEW out \in Outcomes
  PROVE  /\ SessionGoes(step) =>
              /\ session' \in SessionRecord /\ session'.at = step /\ session'.op = session.op
              /\ session'.attempt = session.attempt /\ session'.bytes = session.bytes
              /\ session'.out = session.out
         /\ Decides(out) =>
              /\ session' \in SessionRecord /\ session'.at = "verdict" /\ session'.op = session.op
              /\ session'.attempt = session.attempt /\ session'.bytes = session.bytes
              /\ session'.out = out
<1>1. session = [at |-> session.at, op |-> session.op, attempt |-> session.attempt,
                 bytes |-> session.bytes, out |-> session.out]
  BY DEF SessionRecord
<1>2. /\ session.op \in Calls \cup {0} /\ session.attempt \in Calls \cup {0}
      /\ session.bytes \in Nat /\ session.out \in Outcomes
  BY DEF SessionRecord
<1>3. ASSUME SessionGoes(step)
      PROVE session' = [at |-> step, op |-> session.op, attempt |-> session.attempt,
                        bytes |-> session.bytes, out |-> session.out]
  BY <1>1, <1>3 DEF SessionGoes
<1>4. ASSUME Decides(out)
      PROVE session' = [at |-> "verdict", op |-> session.op, attempt |-> session.attempt,
                        bytes |-> session.bytes, out |-> out]
  BY <1>1, <1>4 DEF Decides
<1>5. "verdict" \in SessionSteps
  BY DEF SessionSteps
<1>6. QED
  BY <1>2, <1>3, <1>4, <1>5 DEF SessionRecord

\* Every step of a call keeps the invariant, the death of the process between any two of
\* them and a cancellation or a moved grant included.
LEMMA McpInvNext == McpInv /\ [McpNext]_mcpVars => McpInv'
<1> SUFFICES ASSUME McpInv, [McpNext]_mcpVars PROVE McpInv'
  OBVIOUS
<1>0. 0 \notin Calls /\ Calls \subseteq Nat
  BY McpAssumption DEF Calls
<1>n. NextAttempt # 0 => NextAttempt \in Calls /\ mcpAttempts[NextAttempt] = "none"
  BY NextAttemptIsNew
<1>g. /\ \A step \in SessionSteps : SessionGoes(step) =>
              /\ session' \in SessionRecord /\ session'.at = step /\ session'.op = session.op
              /\ session'.attempt = session.attempt /\ session'.bytes = session.bytes
              /\ session'.out = session.out
      /\ \A out \in Outcomes : Decides(out) =>
              /\ session' \in SessionRecord /\ session'.at = "verdict" /\ session'.op = session.op
              /\ session'.attempt = session.attempt /\ session'.bytes = session.bytes
              /\ session'.out = out
  <2>1. session \in SessionRecord
    BY DEF McpInv, McpTypeOK
  <2>2. QED
    BY <2>1, SessionStepped DEF Outcomes, SessionSteps
<1>t. /\ session.at \in SessionSteps /\ session.op \in Calls \cup {0}
      /\ session.attempt \in Calls \cup {0} /\ session.bytes \in Nat /\ session.out \in Outcomes
  BY DEF McpInv, McpTypeOK, SessionRecord
<1>u. ASSUME NEW o \in Calls, Unresolved(o)
      PROVE /\ session' = [at |-> "verdict", op |-> o, attempt |-> opened[o], bytes |-> 0,
                          out |-> "unknown"]
            /\ session' \in SessionRecord
  BY <1>u DEF Unresolved, Quiet, SessionRecord, SessionSteps, Outcomes, McpInv, McpTypeOK
<1>w. ASSUME WriteChunk
      PROVE /\ session' \in SessionRecord /\ session'.at \in {"calling", "waiting"}
            /\ session'.op = session.op /\ session'.attempt = session.attempt
            /\ session'.bytes = session.bytes + 1 /\ session'.out = session.out
            /\ session.at = "calling"
  <2>1. session = [at |-> session.at, op |-> session.op, attempt |-> session.attempt,
                   bytes |-> session.bytes, out |-> session.out]
    BY DEF McpInv, McpTypeOK, SessionRecord
  <2>2. session.at = "calling"
    BY <1>w DEF WriteChunk, SessionAt
  <2>3. session' = [at |-> IF session.bytes = 1 THEN "waiting" ELSE "calling", op |-> session.op,
                    attempt |-> session.attempt, bytes |-> session.bytes + 1, out |-> session.out]
    BY <1>w, <2>1, <2>2 DEF WriteChunk
  <2>4. QED
    BY <2>2, <2>3, <1>t DEF SessionRecord, SessionSteps, BeforeFrame
<1> USE <1>0 DEF McpInv, McpTypeOK, ClaimsStand, SessionStands, CutIsKnown, FailureIsKnown, Quiet, CallsAreHonest,
        HonestFailure, BytesAreClaimed, RecordedIsSettled, SessionSteps, BeforeFrame, SessionAt,
        Durable, Ghost
<1>1. CASE OpenCall
  <2>1. McpTypeOK' /\ ClaimsStand' /\ SessionStands'
    BY <1>1, <1>t, <1>n DEF OpenCall, SessionRecord, Outcomes
  <2>2. CutIsKnown' /\ FailureIsKnown' /\ HonestFailure' /\ BytesAreClaimed' /\ RecordedIsSettled'
    BY <1>1, <1>t, <1>n DEF OpenCall, SessionRecord, Outcomes
  <2>3. QED
    BY <2>1, <2>2
<1>2. ASSUME NEW o \in Calls, ResumeRefused(o) PROVE McpInv'
  <2>1. McpTypeOK' /\ ClaimsStand' /\ SessionStands'
    BY <1>2, <1>t, <1>u DEF ResumeRefused
  <2>2. CutIsKnown' /\ FailureIsKnown' /\ HonestFailure' /\ BytesAreClaimed' /\ RecordedIsSettled'
    BY <1>2, <1>t, <1>u DEF ResumeRefused
  <2>3. QED
    BY <2>1, <2>2
<1>3. ASSUME NEW o \in Calls, ResumeCall(o) PROVE McpInv'
  <2>1. /\ SessionAt("idle") /\ opened[o] = o /\ terminal[o] = "none" /\ NextAttempt # 0
        /\ mcpAttempts' = [mcpAttempts EXCEPT ![NextAttempt] = "planned"] /\ NextAttempt # o
        /\ opened[NextAttempt] = 0
        /\ UNCHANGED <<mcpTask, granted, opened, continuation, terminal, artifact, unanswered, cut>>
    BY <1>3, <1>n DEF ResumeCall
  <2>2. ASSUME continuation[o], session' = [at |-> "admitted", op |-> o, attempt |-> NextAttempt,
                                            bytes |-> 0, out |-> "none"]
        PROVE  McpInv'
    BY <1>n, <1>t, <2>1, <2>2 DEF SessionRecord, Outcomes
  <2>3. ASSUME Unresolved(o) PROVE McpInv'
    BY <1>n, <1>t, <1>u, <2>1, <2>3 DEF Outcomes
  <2>4. CASE continuation[o]
    <3>1. session' = [at |-> "admitted", op |-> o, attempt |-> NextAttempt, bytes |-> 0,
                      out |-> "none"]
      BY <1>3, <2>4 DEF ResumeCall, Resendable
    <3>2. QED
      BY <3>1, <2>2, <2>4
  <2>5. CASE ~continuation[o]
    BY <1>3, <2>3, <2>5 DEF ResumeCall, Resendable
  <2>6. QED
    BY <2>4, <2>5
<1>4. CASE CancelledBeforeClaim
  <2>1. session.at = "admitted" /\ session.op \in Calls /\ UNCHANGED Durable /\ UNCHANGED Ghost
    BY <1>4, <1>t DEF CancelledBeforeClaim
  <2>2. CASE opened[session.op] # 0 /\ Unresolved(session.op)
    <3>1. /\ session' \in SessionRecord /\ session'.at = "verdict" /\ session'.op = session.op
          /\ session'.attempt = session.op /\ session'.bytes = 0 /\ session'.out = "unknown"
      <4>1. opened[session.op] = session.op
        BY <2>1, <2>2
      <4>2. /\ session' = [at |-> "verdict", op |-> session.op, attempt |-> session.op, bytes |-> 0,
                           out |-> "unknown"]
            /\ session' \in SessionRecord
        BY <1>u, <2>1, <2>2, <4>1, Zenon
      <4>3. QED
        BY <4>2
    <3>2. McpTypeOK' /\ ClaimsStand' /\ SessionStands'
      BY <2>1, <2>2, <3>1
    <3>3. QED
      BY <1>t, <2>1, <2>2, <3>1, <3>2
  <2>3. CASE opened[session.op] = 0 /\ session' = Quiet
    BY <1>t, <2>1, <2>3 DEF SessionRecord, Outcomes
  <2>4. QED
    BY <1>4, <2>2, <2>3 DEF CancelledBeforeClaim
<1>5. CASE Claim
  <2>1. McpTypeOK' /\ ClaimsStand' /\ SessionStands'
    BY <1>5, <1>t, <1>g DEF Claim, WriteClaim
  <2>2. CutIsKnown' /\ FailureIsKnown' /\ HonestFailure' /\ BytesAreClaimed' /\ RecordedIsSettled'
    BY <1>5, <1>t, <1>g DEF Claim, WriteClaim
  <2>3. QED
    BY <2>1, <2>2
<1>6. CASE RetainSendLine
  <2>1. McpTypeOK' /\ ClaimsStand' /\ SessionStands'
    BY <1>6, <1>t, <1>g DEF RetainSendLine, Outcomes
  <2>2. CutIsKnown' /\ FailureIsKnown' /\ HonestFailure' /\ BytesAreClaimed' /\ RecordedIsSettled'
    BY <1>6, <1>t, <1>g DEF RetainSendLine, Outcomes
  <2>3. QED
    BY <2>1, <2>2
<1>7. CASE Stamp
  <2>1. McpTypeOK' /\ ClaimsStand' /\ SessionStands'
    BY <1>7, <1>t, <1>g DEF Stamp, Outcomes
  <2>2. CutIsKnown' /\ FailureIsKnown' /\ HonestFailure' /\ BytesAreClaimed' /\ RecordedIsSettled'
    BY <1>7, <1>t, <1>g DEF Stamp, Outcomes
  <2>3. QED
    BY <2>1, <2>2
<1>8. CASE OpenSession
  <2>1. McpTypeOK' /\ ClaimsStand' /\ SessionStands'
    BY <1>8, <1>t, <1>g DEF OpenSession, Outcomes
  <2>2. CutIsKnown' /\ FailureIsKnown' /\ HonestFailure' /\ BytesAreClaimed' /\ RecordedIsSettled'
    BY <1>8, <1>t, <1>g DEF OpenSession, Outcomes
  <2>3. QED
    BY <2>1, <2>2
<1>9. CASE Reconsult
  <2>1. McpTypeOK' /\ ClaimsStand' /\ SessionStands'
    BY <1>9, <1>t, <1>g DEF Reconsult, Outcomes
  <2>2. CutIsKnown' /\ FailureIsKnown' /\ HonestFailure' /\ BytesAreClaimed' /\ RecordedIsSettled'
    BY <1>9, <1>t, <1>g DEF Reconsult, Outcomes
  <2>3. QED
    BY <2>1, <2>2
<1>10. CASE Handshake
  <2>1. McpTypeOK' /\ ClaimsStand' /\ SessionStands'
    BY <1>10, <1>t, <1>g DEF Handshake, Outcomes
  <2>2. CutIsKnown' /\ FailureIsKnown' /\ HonestFailure' /\ BytesAreClaimed' /\ RecordedIsSettled'
    BY <1>10, <1>t, <1>g DEF Handshake, Outcomes
  <2>3. QED
    BY <2>1, <2>2
<1>11. CASE WriteChunk
  <2>1. McpTypeOK' /\ ClaimsStand' /\ SessionStands'
    BY <1>11, <1>t, <1>w DEF WriteChunk
  <2>2. CutIsKnown' /\ FailureIsKnown' /\ HonestFailure' /\ BytesAreClaimed' /\ RecordedIsSettled'
    BY <1>11, <1>t, <1>w DEF WriteChunk
  <2>3. QED
    BY <2>1, <2>2
<1>12. CASE SendFails
  <2>1. McpTypeOK' /\ ClaimsStand' /\ SessionStands'
    BY <1>12, <1>t, <1>g DEF SendFails, UnreadableMeans, Outcomes
  <2>2. CutIsKnown' /\ FailureIsKnown' /\ HonestFailure' /\ BytesAreClaimed' /\ RecordedIsSettled'
    BY <1>12, <1>t, <1>g DEF SendFails, UnreadableMeans, Outcomes
  <2>3. QED
    BY <2>1, <2>2
<1>13. CASE PeerAnswers
  <2>1. McpTypeOK' /\ ClaimsStand' /\ SessionStands'
    BY <1>13, <1>t, <1>g DEF PeerAnswers, Answered, Outcomes
  <2>2. CutIsKnown' /\ FailureIsKnown' /\ HonestFailure' /\ BytesAreClaimed' /\ RecordedIsSettled'
    BY <1>13, <1>t, <1>g DEF PeerAnswers, Answered, Outcomes
  <2>3. QED
    BY <2>1, <2>2
<1>14. CASE PeerAsksInput
  <2>1. McpTypeOK' /\ ClaimsStand' /\ SessionStands'
    BY <1>14, <1>t DEF PeerAsksInput, Answered, SessionRecord, Outcomes
  <2>2. CutIsKnown' /\ FailureIsKnown' /\ HonestFailure' /\ BytesAreClaimed' /\ RecordedIsSettled'
    BY <1>14, <1>t DEF PeerAsksInput, Answered, SessionRecord, Outcomes
  <2>3. QED
    BY <2>1, <2>2
<1>15. CASE SettleAttempt
  <2>1. McpTypeOK' /\ ClaimsStand' /\ SessionStands'
    BY <1>15, <1>t, <1>g DEF SettleAttempt, Outcomes
  <2>2. CutIsKnown' /\ FailureIsKnown' /\ HonestFailure' /\ BytesAreClaimed' /\ RecordedIsSettled'
    BY <1>15, <1>t, <1>g DEF SettleAttempt, Outcomes
  <2>3. QED
    BY <2>1, <2>2
<1>16. CASE RecordTerminal
  <2>1. McpTypeOK' /\ ClaimsStand' /\ SessionStands'
    BY <1>16, <1>t, <1>g DEF RecordTerminal, BeforeRecord, Outcomes
  <2>2. CutIsKnown' /\ FailureIsKnown' /\ HonestFailure' /\ BytesAreClaimed' /\ RecordedIsSettled'
    BY <1>16, <1>t, <1>g DEF RecordTerminal, BeforeRecord, Outcomes
  <2>3. QED
    BY <2>1, <2>2
<1>17. CASE RetainTerminalLine
  <2>1. McpTypeOK' /\ ClaimsStand' /\ SessionStands'
    BY <1>17, <1>t DEF RetainTerminalLine, SessionRecord, Outcomes
  <2>2. CutIsKnown' /\ FailureIsKnown' /\ HonestFailure' /\ BytesAreClaimed' /\ RecordedIsSettled'
    BY <1>17, <1>t DEF RetainTerminalLine, SessionRecord, Outcomes
  <2>3. QED
    BY <2>1, <2>2
<1>18. CASE Dies
  <2>1. McpTypeOK' /\ ClaimsStand' /\ SessionStands'
    BY <1>18, <1>t DEF Dies, Leaves, SessionRecord, Outcomes
  <2>2. CutIsKnown' /\ FailureIsKnown' /\ HonestFailure' /\ BytesAreClaimed' /\ RecordedIsSettled'
    BY <1>18, <1>t DEF Dies, Leaves, SessionRecord, Outcomes
  <2>3. QED
    BY <2>1, <2>2
<1>19. CASE CancelTask
  BY <1>19 DEF CancelTask
<1>20. CASE Regrant
  BY <1>20 DEF Regrant
<1>21. CASE UNCHANGED mcpVars
  BY <1>21 DEF mcpVars
<1>22. QED
  BY <1>1, <1>2, <1>3, <1>4, <1>5, <1>6, <1>7, <1>8, <1>9, <1>10, <1>11, <1>12, <1>13, <1>14,
     <1>15, <1>16, <1>17, <1>18, <1>19, <1>20, <1>21 DEF McpNext

\* For every number of attempts, and wherever the process dies: a call recorded as failed has
\* no frame the peer may still act on unless it is known to be cut, no byte leaves without a
\* durable claim and send line, and a recorded outcome has settled its attempt.
THEOREM CallsSafe == McpSpec => []CallsAreHonest
<1>1. McpInv => CallsAreHonest
  BY DEF McpInv
<1>2. QED
  BY McpInvInit, McpInvNext, <1>1, PTL DEF McpSpec

-----------------------------------------------------------------------------
(***************************************************************************)
(* The broker.  Its invariant says which legs a call may have sent at each *)
(* step, and that an admission is of a minted attempt nobody accounted.    *)
(***************************************************************************)
\* The fields of a call and of the recorded pause, and the attempts they may name.
BrokerShape ==
    /\ minted \in 0 .. MaxAttempts
    /\ call = [at |-> call.at, who |-> call.who, attempt |-> call.attempt, entry |-> call.entry,
               tried |-> call.tried, out |-> call.out]
    /\ call.at \in {"idle", "dispatch", "chain", "return", "picked"}
    /\ call.attempt \in 0 .. minted
    /\ call.attempt = 0 <=> call.at \in {"idle", "picked"}
    /\ heldPause.attempt \in 0 .. minted
    /\ admissions = [a \in Attempt |-> admissions[a]]
    /\ legs \in Seq({legs[i] : i \in 1 .. Len(legs)})

\* Nothing was sent before the primary leg; what the walk has behind it was denied.
LegsStand ==
    /\ call.at \in {"idle", "dispatch"} => legs = <<>>
    /\ call.at = "chain" => \A i \in 1 .. Len(legs) : legs[i].out \in {"definitive", "denied"}

\* An attempt that is admitted was minted and never accounted, and a call that answered has
\* given its own admission back.
AdmissionsStand ==
    /\ accounting \subseteq 1 .. minted
    /\ \A a \in Attempt : admissions[a] # NoAdmission => a <= minted /\ a \notin accounting
    /\ call.at = "return" /\ call.out = "ok" => admissions[call.attempt] = NoAdmission

BrokerInv == BrokerShape /\ LegsStand /\ AdmissionsStand /\ BrokerIsSound

\* A leg joins the sequence of legs at its end.
LEMMA LegJoins ==
  ASSUME NEW S, NEW s \in Seq(S), NEW e
  PROVE  /\ Len(Append(s, e)) = Len(s) + 1 /\ Append(s, e)[Len(s) + 1] = e
         /\ \A i \in 1 .. Len(s) : Append(s, e)[i] = s[i]
         /\ Append(s, e) \in Seq({Append(s, e)[i] : i \in 1 .. Len(Append(s, e))})
<1>1. s \in Seq(S \cup {e}) /\ e \in S \cup {e}
  OBVIOUS
<1> DEFINE t == Append(s, e)
<1>2. /\ t \in Seq(S \cup {e}) /\ Len(t) = Len(s) + 1 /\ t[Len(s) + 1] = e
      /\ \A i \in 1 .. Len(s) : t[i] = s[i]
  BY <1>1
<1> HIDE DEF t
<1>3. t \in Seq({t[i] : i \in 1 .. Len(t)})
  BY <1>2
<1>4. QED
  BY <1>2, <1>3 DEF t

\* The broker has sent nothing at first.
LEMMA BrokerInvInit == BrokerInit => BrokerInv
BY BrokerAssumption DEF BrokerInit, BrokerInv, BrokerShape, LegsStand, AdmissionsStand, BrokerIsSound,
   OnlyDenialsWalk, SentIsEligible, NoPhantomEpoch, AdmissionsHeld, Resting, NoPause, Attempt

DenialsOnly == \A i \in 1 .. Len(legs) : legs[i].out \in {"definitive", "denied"}

\* A leg of an entitled connection joins legs that were all denied: the walk stays sound, and
\* goes on only when this leg was denied as well.
LEMMA LegSent ==
  ASSUME BrokerInv, DenialsOnly, NEW c, NEW a, NEW r, NEW eligible \in BOOLEAN, eligible,
         Sent(c, a, r, eligible)
  PROVE  /\ legs' \in Seq({legs'[i] : i \in 1 .. Len(legs')})
         /\ OnlyDenialsWalk' /\ SentIsEligible'
         /\ r \in {"definitive", "denied"} => DenialsOnly'
<1> DEFINE e == [conn |-> c, out |-> r, eligible |-> TRUE]
<1>1. legs' = Append(legs, e)
  BY DEF Sent
<1>2. e.out = r /\ e.eligible
  OBVIOUS
<1>3. legs \in Seq({legs[i] : i \in 1 .. Len(legs)})
  BY DEF BrokerInv, BrokerShape
<1> HIDE DEF e
<1>4. /\ Len(Append(legs, e)) = Len(legs) + 1 /\ Append(legs, e)[Len(legs) + 1] = e
      /\ \A i \in 1 .. Len(legs) : Append(legs, e)[i] = legs[i]
      /\ Append(legs, e) \in Seq({Append(legs, e)[i] : i \in 1 .. Len(Append(legs, e))})
  BY <1>3, LegJoins
<1>5. /\ Len(legs') = Len(legs) + 1 /\ legs'[Len(legs) + 1] = e
      /\ \A i \in 1 .. Len(legs) : legs'[i] = legs[i]
      /\ legs' \in Seq({legs'[i] : i \in 1 .. Len(legs')})
  BY <1>1, <1>4
<1>6. Len(legs) \in Nat
  BY <1>3
<1>7. \A i \in 1 .. Len(legs') : i \in 1 .. Len(legs) \/ i = Len(legs) + 1
  BY <1>5, <1>6
<1>8. OnlyDenialsWalk'
  BY <1>5, <1>6 DEF OnlyDenialsWalk, DenialsOnly
<1>9. SentIsEligible'
  BY <1>2, <1>5, <1>6, <1>7 DEF SentIsEligible, BrokerInv, BrokerIsSound
<1>10. ASSUME r \in {"definitive", "denied"} PROVE DenialsOnly'
  BY <1>2, <1>5, <1>6, <1>7, <1>10 DEF DenialsOnly
<1>11. QED
  BY <1>5, <1>8, <1>9, <1>10

\* What a caller cancels is admitted no more, and nothing else is touched: an admission that
\* stands was never accounted.
LEMMA CancelsWhatStands ==
  ASSUME BrokerInv, NEW A, Cancels(A)
  PROVE  /\ admissions' = [a \in Attempt |-> admissions'[a]]
         /\ \A a \in Attempt : admissions'[a] # NoAdmission =>
                a \notin A /\ admissions[a] # NoAdmission
<1> DEFINE dead == {a \in A : a # 0 /\ a \notin accounting /\ admissions[a] # NoAdmission}
<1>1. admissions' = [a \in Attempt |-> IF a \in dead THEN NoAdmission ELSE admissions[a]]
  BY DEF Cancels, Cleared
<1>2. \A a \in Attempt : a # 0
  BY BrokerAssumption DEF Attempt
<1>3. \A a \in Attempt : admissions[a] # NoAdmission /\ a \in A => a \in dead
  BY <1>2 DEF BrokerInv, AdmissionsStand
<1> HIDE DEF dead
<1>4. QED
  BY <1>1, <1>3

\* A call that has returned and is closed: every caller's way out leaves the invariant, as
\* long as an admission that stands is of the task's pause or a pause that leaked.
LEMMA CallCloses ==
  ASSUME BrokerInv, Ended, CallerUnchanged, heldPause'.attempt \in 0 .. minted,
         admissions' = [a \in Attempt |-> admissions'[a]],
         \A a \in Attempt : admissions'[a] # NoAdmission =>
            admissions[a] # NoAdmission /\ a \in {heldPause'.attempt} \cup leaked'
  PROVE  BrokerInv'
<1>1. BrokerShape'
  BY DEF BrokerInv, BrokerShape, Ended, CallerUnchanged, Resting
<1>2. LegsStand' /\ OnlyDenialsWalk' /\ SentIsEligible'
  BY DEF Ended, LegsStand, OnlyDenialsWalk, SentIsEligible, Resting
<1>3. AdmissionsStand'
  BY DEF BrokerInv, AdmissionsStand, Ended, CallerUnchanged, Resting
<1>4. NoPhantomEpoch' /\ AdmissionsHeld'
  BY DEF BrokerInv, BrokerIsSound, NoPhantomEpoch, AdmissionsHeld, CallerUnchanged, Ended, Resting
<1>5. QED
  BY <1>1, <1>2, <1>3, <1>4 DEF BrokerInv, BrokerIsSound

\* A manifest is prepared: its attempt is new, and the call holds its admission.
LEMMA AdmitStep ==
  ASSUME BrokerInv, call.at = "idle", NEW who, NEW fallback, NEW choice, Admit(who, fallback, choice)
  PROVE  BrokerInv'
<1>1. /\ minted + 1 \in Attempt /\ minted' = minted + 1 /\ minted \in Nat
      /\ UNCHANGED <<accounting, legs, heldPause, leaked>> /\ epoch' = standing'
      /\ call' = [at |-> "dispatch", who |-> who, attempt |-> minted + 1, entry |-> 0,
                  tried |-> {}, out |-> "none"]
  <2>1. minted \in 0 .. MaxAttempts /\ minted < MaxAttempts
    BY DEF Admit, BrokerInv, BrokerShape
  <2>2. minted \in Nat /\ minted + 1 \in Attempt
    BY <2>1, BrokerAssumption DEF Attempt
  <2>3. UNCHANGED <<accounting, legs, heldPause, leaked>> /\ epoch' = standing' /\ minted' = minted + 1
    BY DEF Admit
  <2>4. call' = [at |-> "dispatch", who |-> who, attempt |-> minted + 1, entry |-> 0,
                 tried |-> {}, out |-> "none"]
    BY DEF Admit, Resting
  <2>5. QED
    BY <2>2, <2>3, <2>4
<1>2. /\ admissions' = [a \in Attempt |-> admissions'[a]]
      /\ \A a \in Attempt : a # minted + 1 => admissions'[a] = admissions[a]
  BY <1>1 DEF Admit, BrokerInv, BrokerShape
<1>3. BrokerShape'
  BY <1>1, <1>2, BrokerAssumption DEF BrokerInv, BrokerShape, Attempt
<1>4. LegsStand' /\ OnlyDenialsWalk' /\ SentIsEligible' /\ NoPhantomEpoch'
  BY <1>1 DEF BrokerInv, LegsStand, BrokerIsSound, OnlyDenialsWalk, SentIsEligible, NoPhantomEpoch
<1>5. AdmissionsStand'
  BY <1>1, <1>2 DEF BrokerInv, BrokerShape, AdmissionsStand, Attempt
<1>6. AdmissionsHeld'
  BY <1>1, <1>2 DEF BrokerInv, BrokerShape, BrokerIsSound, AdmissionsHeld, Attempt
<1>7. QED
  BY <1>3, <1>4, <1>5, <1>6 DEF BrokerInv, BrokerIsSound

\* The primary leg: a reply gives the admission back, and only a denial goes on to the chain.
LEMMA DispatchStep ==
  ASSUME BrokerInv, NEW r, Dispatch(r)
  PROVE  BrokerInv'
<1> DEFINE a == call.attempt
<1>1. /\ call.at = "dispatch" /\ a \in 1 .. minted /\ a \in Attempt /\ DenialsOnly
      /\ minted \in Nat
  BY BrokerAssumption DEF Dispatch, BrokerInv, BrokerShape, LegsStand, DenialsOnly, Attempt
<1>2. /\ legs' \in Seq({legs'[i] : i \in 1 .. Len(legs')})
      /\ OnlyDenialsWalk' /\ SentIsEligible'
      /\ r \in {"definitive", "denied"} => DenialsOnly'
  <2>1. Primary.conn \in rights /\ Sent(Primary.conn, a, r, Primary.conn \in rights)
    BY DEF Dispatch, Fresh
  <2>2. QED
    BY <1>1, <2>1, LegSent
<1>3. /\ UNCHANGED <<minted, epoch, standing, heldPause, leaked>>
      /\ accounting' = IF r = "reply" THEN accounting \cup {a} ELSE accounting
  BY DEF Dispatch, Sent
<1>4. CASE r = "reply"
  <2>1. /\ call' = [call EXCEPT !.at = "return", !.out = "ok"]
        /\ admissions' = [x \in Attempt |-> IF x \in {a} THEN NoAdmission ELSE admissions[x]]
    BY <1>4 DEF Dispatch, Cleared, Returns, LedgerFailed
  <2>2. call' = [at |-> "return", who |-> call.who, attempt |-> a, entry |-> call.entry,
                 tried |-> call.tried, out |-> "ok"]
    BY <2>1 DEF BrokerInv, BrokerShape
  <2>3. BrokerShape'
    BY <1>1, <1>2, <1>3, <2>1, <2>2 DEF BrokerInv, BrokerShape
  <2>4. LegsStand' /\ AdmissionsStand'
    BY <1>1, <1>3, <1>4, <2>1, <2>2 DEF BrokerInv, LegsStand, AdmissionsStand
  <2>5. NoPhantomEpoch' /\ AdmissionsHeld'
    BY <1>1, <1>3, <2>1, <2>2 DEF BrokerInv, BrokerIsSound, NoPhantomEpoch, AdmissionsHeld
  <2>6. QED
    BY <1>2, <2>3, <2>4, <2>5 DEF BrokerInv, BrokerIsSound
<1>5. CASE r # "reply"
  <2>1. /\ admissions' = admissions
        /\ \/ call' = [call EXCEPT !.at = "return", !.out = call'.out]
           \/ r \in {"definitive", "denied"} /\ call' = [call EXCEPT !.at = "chain", !.entry = 1]
        /\ call'.at # "chain" => call'.out # "ok"
    <3>1. r \in {"denied", "budget", "refused", "lost", "definitive", "unknown", "unclosed"}
      BY <1>5 DEF Dispatch, LegOutcomes
    <3>2. CASE LedgerFailed(r)
      BY <1>5, <3>2 DEF Dispatch, Returns, BrokerInv, BrokerShape
    <3>3. CASE ~LedgerFailed(r)
      <4>1. FallbackOrFail(r) /\ UNCHANGED admissions
        BY <1>5, <3>3 DEF Dispatch
      <4>2. r \in {"denied", "definitive", "unknown"}
        BY <3>1, <3>3 DEF LedgerFailed
      <4>3. QED
        BY <4>1, <4>2 DEF FallbackOrFail, OutcomeUnknown, Returns, BrokerInv, BrokerShape
    <3>4. QED
      BY <3>2, <3>3
  <2>2. /\ call' = [at |-> call'.at, who |-> call'.who, attempt |-> a, entry |-> call'.entry,
                    tried |-> call'.tried, out |-> call'.out]
        /\ call'.at \in {"return", "chain"}
        /\ call'.at = "chain" => r \in {"definitive", "denied"}
    BY <2>1 DEF BrokerInv, BrokerShape
  <2>3. BrokerShape'
    BY <1>1, <1>2, <1>3, <2>1, <2>2 DEF BrokerInv, BrokerShape
  <2>4. LegsStand'
    BY <1>2, <2>2 DEF LegsStand, DenialsOnly
  <2>5. AdmissionsStand'
    BY <1>1, <1>3, <1>5, <2>1, <2>2 DEF BrokerInv, AdmissionsStand
  <2>6. NoPhantomEpoch' /\ AdmissionsHeld'
    BY <1>1, <1>3, <2>1, <2>2 DEF BrokerInv, BrokerIsSound, NoPhantomEpoch, AdmissionsHeld
  <2>7. QED
    BY <1>2, <2>3, <2>4, <2>5, <2>6 DEF BrokerInv, BrokerIsSound
<1>6. QED
  BY <1>4, <1>5

\* A substitute takes its own attempt id, and answered or not leaves no admission and no
\* phantom epoch behind.
LEMMA SubstituteSent ==
  ASSUME BrokerInv, DenialsOnly, NEW c, NEW model, NEW r, Eligible(c), Substitute(c, model, r)
  PROVE  /\ legs' \in Seq({legs'[i] : i \in 1 .. Len(legs')})
         /\ OnlyDenialsWalk' /\ SentIsEligible' /\ NoPhantomEpoch'
         /\ r \in {"definitive", "denied"} => DenialsOnly'
         /\ minted' = minted + 1 /\ minted' \in 0 .. MaxAttempts /\ minted \in Nat
         /\ accounting' \subseteq 1 .. minted'
         /\ \A a \in Attempt : admissions[a] # NoAdmission => a \notin accounting'
         /\ r \in {"denied", "budget", "refused", "reply", "lost", "definitive", "unknown", "unclosed"}
<1>1. Sent(c, minted + 1, r, Eligible(c)) /\ Eligible(c) \in BOOLEAN
  BY DEF Substitute, Eligible
<1>2. /\ legs' \in Seq({legs'[i] : i \in 1 .. Len(legs')}) /\ OnlyDenialsWalk' /\ SentIsEligible'
      /\ r \in {"definitive", "denied"} => DenialsOnly'
  BY <1>1, LegSent
<1>3. /\ minted \in 0 .. MaxAttempts /\ minted < MaxAttempts /\ minted' = minted + 1
  BY DEF Substitute, BrokerInv, BrokerShape
<1>4. minted \in Nat /\ minted' \in 0 .. MaxAttempts
  BY <1>3, BrokerAssumption
<1>5. accounting' \subseteq accounting \cup {minted + 1}
  BY <1>1 DEF Sent
<1>6. /\ accounting' \subseteq 1 .. minted'
      /\ \A a \in Attempt : admissions[a] # NoAdmission => a \notin accounting'
  BY <1>3, <1>4, <1>5, BrokerAssumption DEF BrokerInv, AdmissionsStand, Attempt
<1>7. NoPhantomEpoch'
  BY DEF Substitute, AbandonSubstitute, NoPhantomEpoch, BrokerInv, BrokerIsSound
<1>8. r \in {"denied", "budget", "refused", "reply", "lost", "definitive", "unknown", "unclosed"}
  BY DEF Substitute, LegOutcomes
<1>9. QED
  BY <1>2, <1>3, <1>4, <1>6, <1>7, <1>8

\* An entry of the chain is sent to: a reply gives the primary's admission back, and only a
\* definitive failure walks on.
LEMMA ChainSendsStep ==
  ASSUME BrokerInv, NEW r, ChainSends(r)
  PROVE  BrokerInv'
<1> DEFINE c == Chain[call.entry]
           a == call.attempt
<1>1. /\ call.at = "chain" /\ a \in 1 .. minted /\ a \in Attempt /\ DenialsOnly
      /\ Eligible(c) /\ Substitute(c, Fixed(c, 1), r)
  BY BrokerAssumption
     DEF ChainSends, BrokerInv, BrokerShape, LegsStand, DenialsOnly, Attempt
<1>2. /\ legs' \in Seq({legs'[i] : i \in 1 .. Len(legs')})
      /\ OnlyDenialsWalk' /\ SentIsEligible' /\ NoPhantomEpoch'
      /\ r \in {"definitive", "denied"} => DenialsOnly'
      /\ minted' = minted + 1 /\ minted' \in 0 .. MaxAttempts /\ minted \in Nat
      /\ accounting' \subseteq 1 .. minted'
      /\ \A x \in Attempt : admissions[x] # NoAdmission => x \notin accounting'
      /\ r \in {"denied", "budget", "refused", "reply", "lost", "definitive", "unknown", "unclosed"}
  <2> HIDE DEF c
  <2>1. QED
    BY <1>1, SubstituteSent
<1>3. UNCHANGED <<heldPause, leaked>>
  BY DEF ChainSends
<1>4. /\ call' = [at |-> call'.at, who |-> call'.who, attempt |-> a, entry |-> call'.entry,
                  tried |-> call'.tried, out |-> call'.out]
      /\ call'.at \in {"return", "chain"}
      /\ call'.at = "chain" => r \in {"definitive", "denied"}
      /\ IF r = "reply" THEN admissions' = [admissions EXCEPT ![a] = NoAdmission]
         ELSE admissions' = admissions /\ (call'.at = "return" => call'.out # "ok")
  <2>1. CASE r = "reply"
    BY <2>1 DEF ChainSends, Returns, BrokerInv, BrokerShape, LedgerFailed, OutcomeUnknown
  <2>2. CASE LedgerFailed(r)
    BY <2>2 DEF ChainSends, Returns, BrokerInv, BrokerShape, LedgerFailed, OutcomeUnknown
  <2>3. CASE OutcomeUnknown(r)
    BY <2>3 DEF ChainSends, Returns, BrokerInv, BrokerShape, LedgerFailed, OutcomeUnknown
  <2>4. CASE r \in {"definitive", "denied"}
    <3>1. /\ call' = [call EXCEPT !.entry = @ + 1, !.tried = @ \cup {c}]
          /\ UNCHANGED admissions
      BY <2>4 DEF ChainSends, LedgerFailed, OutcomeUnknown
    <3>2. QED
      BY <1>1, <2>4, <3>1 DEF BrokerInv, BrokerShape
  <2>5. QED
    BY <1>2, <2>1, <2>2, <2>3, <2>4 DEF LedgerFailed, OutcomeUnknown
<1>5. BrokerShape'
  BY <1>1, <1>2, <1>3, <1>4 DEF BrokerInv, BrokerShape
<1>6. LegsStand'
  BY <1>2, <1>4 DEF LegsStand, DenialsOnly
<1>7. AdmissionsStand'
  <2>1. \A x \in Attempt : admissions'[x] # NoAdmission =>
            admissions[x] # NoAdmission /\ x <= minted /\ x \notin accounting'
    BY <1>1, <1>2, <1>4 DEF BrokerInv, BrokerShape, AdmissionsStand
  <2>2. \A x \in Attempt : x <= minted => x <= minted'
    BY <1>2, BrokerAssumption DEF Attempt
  <2>3. call'.at = "return" /\ call'.out = "ok" => admissions'[call'.attempt] = NoAdmission
    BY <1>1, <1>4 DEF BrokerInv, BrokerShape
  <2>4. QED
    BY <1>2, <2>1, <2>2, <2>3 DEF AdmissionsStand
<1>8. AdmissionsHeld'
  BY <1>1, <1>3, <1>4 DEF BrokerInv, BrokerShape, BrokerIsSound, AdmissionsHeld
<1>9. QED
  BY <1>2, <1>5, <1>6, <1>7, <1>8 DEF BrokerInv, BrokerIsSound

\* The operator's pick: a reply spends the pause and its admission.
LEMMA PickStep ==
  ASSUME BrokerInv, NEW c, NEW r, Pick(c, r)
  PROVE  BrokerInv'
<1>1. /\ call.at = "idle" /\ legs = <<>> /\ DenialsOnly /\ Eligible(c)
      /\ \E model : Substitute(c, model, r)
  BY DEF Pick, Pickable, BrokerInv, LegsStand, DenialsOnly
<1>2. /\ legs' \in Seq({legs'[i] : i \in 1 .. Len(legs')})
      /\ OnlyDenialsWalk' /\ SentIsEligible' /\ NoPhantomEpoch'
      /\ minted' = minted + 1 /\ minted' \in 0 .. MaxAttempts /\ minted \in Nat
      /\ accounting' \subseteq 1 .. minted'
      /\ \A x \in Attempt : admissions[x] # NoAdmission => x \notin accounting'
  BY <1>1, SubstituteSent
<1>3. /\ leaked' = leaked
      /\ call' = [at |-> "picked", who |-> "none", attempt |-> 0, entry |-> 0, tried |-> {},
                  out |-> "none"]
      /\ heldPause' = NoPause \/ heldPause' = heldPause
      /\ admissions' = [a \in Attempt |-> admissions'[a]]
      /\ \A a \in Attempt : admissions'[a] # NoAdmission =>
            admissions[a] # NoAdmission /\ (a = heldPause.attempt => heldPause' = heldPause)
  BY DEF Pick, Cleared, Resting, BrokerInv, BrokerShape
<1>4. BrokerShape'
  BY <1>1, <1>2, <1>3 DEF BrokerInv, BrokerShape, NoPause
<1>5. LegsStand'
  BY <1>3 DEF LegsStand
<1>6. AdmissionsStand'
  <2>1. \A a \in Attempt : admissions'[a] # NoAdmission => a <= minted /\ a \notin accounting'
    BY <1>2, <1>3 DEF BrokerInv, AdmissionsStand
  <2>2. \A a \in Attempt : a <= minted => a <= minted'
    BY <1>2, BrokerAssumption DEF Attempt
  <2>3. call'.at # "return"
    BY <1>3
  <2>4. QED
    BY <1>2, <2>1, <2>2, <2>3 DEF AdmissionsStand
<1>7. AdmissionsHeld'
  BY <1>1, <1>3, BrokerAssumption
     DEF BrokerInv, BrokerShape, BrokerIsSound, AdmissionsHeld, Attempt, NoPause
<1>8. QED
  BY <1>2, <1>4, <1>5, <1>6, <1>7 DEF BrokerInv, BrokerIsSound

\* What a caller does with the result of a call, and a pause that is put down between calls.
LEMMA CallerStep ==
  ASSUME BrokerInv,
         \/ StageReturns \/ TurnAnswered \/ TurnRefused \/ TurnFailed \/ TurnPauses
         \/ TurnCannotAsk \/ PickReturns \/ TombstonePaused
  PROVE  BrokerInv'
<1> DEFINE Closes ==
      /\ heldPause'.attempt \in 0 .. minted /\ admissions' = [a \in Attempt |-> admissions'[a]]
      /\ \A a \in Attempt : admissions'[a] # NoAdmission =>
            admissions[a] # NoAdmission /\ a \in {heldPause'.attempt} \cup leaked'
<1>0. /\ call.attempt \in 0 .. minted /\ heldPause.attempt \in 0 .. minted /\ minted \in Nat
      /\ 0 \notin Attempt /\ admissions = [a \in Attempt |-> admissions[a]]
      /\ \A a \in Attempt : admissions[a] # NoAdmission =>
            a \in {call.attempt, heldPause.attempt} \cup leaked
      /\ call.at = "return" /\ call.out = "ok" => admissions[call.attempt] = NoAdmission
      /\ call.at \in {"idle", "picked"} => call.attempt = 0
      /\ 0 \in 0 .. minted
  BY BrokerAssumption
     DEF BrokerInv, BrokerShape, AdmissionsStand, BrokerIsSound, AdmissionsHeld, Attempt
<1>c. ASSUME NEW A, Cancels(A)
      PROVE  /\ admissions' = [a \in Attempt |-> admissions'[a]]
             /\ \A a \in Attempt : admissions'[a] # NoAdmission =>
                    a \notin A /\ admissions[a] # NoAdmission
  BY <1>c, CancelsWhatStands
<1>e. ASSUME Ended, CallerUnchanged, Closes PROVE BrokerInv'
  BY <1>e, CallCloses
<1> HIDE DEF Closes
<1>1. CASE StageReturns
  <2>1. Ended /\ CallerUnchanged /\ UNCHANGED <<heldPause, leaked>>
        /\ Cancels(IF call.out = "ok" THEN {} ELSE {call.attempt}) /\ call.at = "return"
    BY <1>1 DEF StageReturns
  <2>2. \A a \in Attempt : admissions'[a] # NoAdmission =>
            a \notin (IF call.out = "ok" THEN {} ELSE {call.attempt}) /\ admissions[a] # NoAdmission
    BY <1>c, <2>1
  <2>3. admissions' = [a \in Attempt |-> admissions'[a]]
    BY <1>c, <2>1
  <2>4. Closes
    BY <1>0, <2>1, <2>2, <2>3 DEF Closes
  <2>5. QED
    BY <1>e, <2>1, <2>4
<1>2. CASE TurnAnswered
  <2>1. Ended /\ CallerUnchanged /\ heldPause' = NoPause /\ leaked' = leaked
        /\ Cancels({heldPause.attempt}) /\ call.at = "return" /\ call.out = "ok"
    BY <1>2 DEF TurnAnswered
  <2>2. Closes
    BY <1>0, <1>c, <2>1 DEF Closes, NoPause
  <2>3. QED
    BY <1>e, <2>1, <2>2
<1>3. CASE TurnRefused
  <2>1. Ended /\ CallerUnchanged /\ UNCHANGED <<heldPause, leaked>> /\ Cancels({call.attempt})
    BY <1>3 DEF TurnRefused
  <2>2. Closes
    BY <1>0, <1>c, <2>1 DEF Closes
  <2>3. QED
    BY <1>e, <2>1, <2>2
<1>4. CASE TurnFailed
  <2>1. Ended /\ CallerUnchanged /\ leaked' = leaked /\ heldPause'.attempt = call.attempt
        /\ Cancels({heldPause.attempt} \ {call.attempt})
    BY <1>4 DEF TurnFailed, RecordPause
  <2>2. Closes
    BY <1>0, <1>c, <2>1 DEF Closes
  <2>3. QED
    BY <1>e, <2>1, <2>2
<1>5. CASE TurnPauses
  <2>1. Ended /\ CallerUnchanged /\ leaked' = leaked /\ heldPause'.attempt = call.attempt
        /\ admissions' = [a \in Attempt |-> IF a \in {heldPause.attempt} \ {0, call.attempt}
                                            THEN NoAdmission ELSE admissions[a]]
    BY <1>5 DEF TurnPauses
  <2>2. Closes
    BY <1>0, <2>1 DEF Closes
  <2>3. QED
    BY <1>e, <2>1, <2>2
<1>6. CASE TurnCannotAsk
  <2>1. Ended /\ CallerUnchanged /\ UNCHANGED <<admissions, heldPause>>
        /\ leaked' = leaked \cup {call.attempt}
    BY <1>6 DEF TurnCannotAsk
  <2>2. Closes
    BY <1>0, <2>1 DEF Closes
  <2>3. QED
    BY <1>e, <2>1, <2>2
<1>7. CASE PickReturns
  <2>1. Ended /\ CallerUnchanged /\ UNCHANGED <<admissions, heldPause, leaked>> /\ call.at = "picked"
    BY <1>7 DEF PickReturns
  <2>2. Closes
    BY <1>0, <2>1 DEF Closes
  <2>3. QED
    BY <1>e, <2>1, <2>2
<1>8. CASE TombstonePaused
  <2>1. Cancels({heldPause.attempt}) /\ heldPause' = NoPause /\ UNCHANGED <<call, legs, leaked>>
        /\ CallerUnchanged /\ call.at = "idle"
    BY <1>8 DEF TombstonePaused
  <2>2. Closes
    BY <1>0, <1>c, <2>1 DEF Closes, NoPause
  <2>3. BrokerShape'
    BY <2>1, <2>2 DEF Closes, BrokerInv, BrokerShape, CallerUnchanged
  <2>4. LegsStand' /\ OnlyDenialsWalk' /\ SentIsEligible' /\ NoPhantomEpoch'
    BY <2>1 DEF BrokerInv, BrokerIsSound, LegsStand, OnlyDenialsWalk, SentIsEligible, NoPhantomEpoch,
       CallerUnchanged
  <2>5. AdmissionsStand' /\ AdmissionsHeld'
    BY <2>1, <2>2 DEF Closes, BrokerInv, AdmissionsStand, AdmissionsHeld, CallerUnchanged
  <2>6. QED
    BY <2>3, <2>4, <2>5 DEF BrokerInv, BrokerIsSound
<1>9. QED
  BY <1>1, <1>2, <1>3, <1>4, <1>5, <1>6, <1>7, <1>8

\* Every step of the broker, of its callers and of the configuration under it keeps the invariant.
LEMMA BrokerInvNext == BrokerInv /\ [BrokerNext]_brokerVars => BrokerInv'
<1> SUFFICES ASSUME BrokerInv, [BrokerNext]_brokerVars PROVE BrokerInv'
  OBVIOUS
<1>1. ASSUME NEW who, NEW fallback, NEW facts, PrepareAuto(who, fallback, facts) PROVE BrokerInv'
  BY <1>1, AdmitStep DEF PrepareAuto
<1>2. ASSUME NEW who, NEW fallback, NEW c, PrepareFixed(who, fallback, c) PROVE BrokerInv'
  BY <1>2, AdmitStep DEF PrepareFixed
<1>3. ASSUME NEW r, Dispatch(r) PROVE BrokerInv'
  BY <1>3, DispatchStep
<1>4. ASSUME NEW r, ChainSends(r) PROVE BrokerInv'
  BY <1>4, ChainSendsStep
<1>5. ASSUME NEW c, NEW r, Pick(c, r) PROVE BrokerInv'
  BY <1>5, PickStep
<1>6. CASE \/ StageReturns \/ TurnAnswered \/ TurnRefused \/ TurnFailed \/ TurnPauses
           \/ TurnCannotAsk \/ PickReturns \/ TombstonePaused
  BY <1>6, CallerStep
<1> USE DEF BrokerInv, BrokerShape, LegsStand, AdmissionsStand, BrokerIsSound, OnlyDenialsWalk,
        SentIsEligible, NoPhantomEpoch, AdmissionsHeld
<1>7. CASE DispatchStale \/ ChainEnds
  <2>1. /\ call' = [call EXCEPT !.at = "return", !.out = "error"] /\ call.at \in {"dispatch", "chain"}
        /\ UNCHANGED <<epoch, admissions, accounting, legs, heldPause, minted, leaked, standing>>
    BY <1>7 DEF DispatchStale, ChainEnds, Returns
  <2>2. QED
    BY <2>1
<1>8. CASE ChainSkips
  <2>1. /\ call' = [call EXCEPT !.entry = @ + 1] /\ call.at = "chain"
        /\ UNCHANGED <<epoch, admissions, accounting, legs, heldPause, minted, leaked, standing>>
    BY <1>8 DEF ChainSkips
  <2>2. QED
    BY <2>1
<1>9. ASSUME NEW c, NEW s, SetConfig(c, s) PROVE BrokerInv'
  BY <1>9 DEF SetConfig
<1>10. ASSUME NEW next, SetAccountRights(next) PROVE BrokerInv'
  BY <1>10 DEF SetAccountRights
<1>11. CASE UNCHANGED brokerVars
  BY <1>11 DEF brokerVars
<1> HIDE DEF BrokerInv
<1>12. CASE BrokerNext
  BY <1>12, <1>1, <1>2, <1>3, <1>4, <1>5, <1>6, <1>7, <1>8, <1>9, <1>10, Zenon DEF BrokerNext
<1>13. QED
  BY <1>11, <1>12

\* For every set of connections, chain, contract and assignment, and however long a call walks:
\* only a denial is followed by another leg, what is sent is entitled and eligible when it is
\* sent, a failed substitute leaves the epoch as it was, and an admission is held by the call,
\* by the task's pause, or by a pause whose question could not be published.
THEOREM BrokerSafe == BrokerSpec => []BrokerIsSound
<1>1. BrokerInv => BrokerIsSound
  BY DEF BrokerInv
<1>2. QED
  BY BrokerInvInit, BrokerInvNext, <1>1, PTL DEF BrokerSpec

-----------------------------------------------------------------------------
(***************************************************************************)
(* The decision card.  Its invariant says that a card which can be acted   *)
(* on is the one on the screen, that every key in the queue was pressed    *)
(* over it, and that a send in flight keeps both its card and the runtime. *)
(***************************************************************************)
KeyPress == [key : Keystroke, aim : Nat]

CardTypeOK ==
    /\ cardPhase \in {"top", "drain", "input", "window", "closing", "over"}
    /\ asking \in Nat /\ asked \in Nat /\ screen \in Nat
    /\ keys \in Seq(KeyPress)
    /\ card = [q |-> card.q, row |-> card.row, editing |-> card.editing, draft |-> card.draft,
               shown |-> card.shown]
    /\ card.q \in Nat
    /\ send \in {"none", "committing", "answered", "dead"}

\* A send in flight holds the runtime, and its card stays up until the window closes.
SendHolds ==
    /\ send # "none" => ~inLoop /\ cardPhase # "over"
    /\ send # "none" /\ cardPhase # "closing" => card.q # 0

CardIsShown == cardPhase \in {"top", "input", "window"} /\ card.q # 0

\* A card that takes keys is the one on the screen, and the keys were pressed over it.
KeysAreAimed ==
    /\ cardPhase = "drain" \/ CardIsShown => screen = card.q
    /\ CardIsShown => \A i \in 1 .. Len(keys) : keys[i].aim = card.q
    /\ send = "committing" => sending.aim = sending.q
    /\ ConsentWasAimed

CardInv == CardTypeOK /\ SendHolds
CardAimInv == CardInv /\ KeysAreAimed

\* The terminal never holds back more keys than one drain drops.
QueueFits == Len(keys) <= PRE_PAINT_DRAIN_CAP

\* The loop has neither a card nor a send at first.
LEMMA CardInvInit == CardInit => CardAimInv
BY DEF CardInit, CardAimInv, CardInv, CardTypeOK, SendHolds, KeysAreAimed, CardIsShown, NoCard,
   ConsentWasAimed

\* A drain of n keys leaves what lies behind them, and nothing of a queue that fits.
LEMMA DrainDrops ==
  ASSUME NEW S, NEW s \in Seq(S), NEW n \in Nat
  PROVE  /\ SubSeq(s, n + 1, Len(s)) \in Seq(S)
         /\ Len(s) <= n => Len(SubSeq(s, n + 1, Len(s))) = 0
<1>1. Len(s) \in Nat /\ \A i \in 1 .. Len(s) : s[i] \in S
  OBVIOUS
<1>2. \A i \in (n + 1) .. Len(s) : s[i] \in S
  BY <1>1
<1>3. QED
  BY <1>1, <1>2

\* Every step of the loop, of the send thread and of what surrounds them keeps the first half
\* of the invariant, and the second while the queue fits one drain.
LEMMA CardInvNext == CardInv /\ [CardNext]_cardVars =>
                        CardInv' /\ (QueueFits /\ KeysAreAimed => KeysAreAimed')
<1> SUFFICES ASSUME CardInv, [CardNext]_cardVars
             PROVE  CardInv' /\ (QueueFits /\ KeysAreAimed => KeysAreAimed')
  OBVIOUS
<1>k. keys # <<>> =>
        /\ Tail(keys) \in Seq(KeyPress) /\ Head(keys) = keys[1] /\ Len(keys) \in Nat \ {0}
        /\ \A i \in 1 .. Len(Tail(keys)) : i + 1 \in 1 .. Len(keys) /\ Tail(keys)[i] = keys[i + 1]
  BY DEF CardInv, CardTypeOK
<1>r. keys # <<>> /\ KeysAreAimed /\ cardPhase = "input" /\ card.q # 0 =>
        /\ Head(keys).aim = card.q /\ screen = card.q
        /\ \A i \in 1 .. Len(Tail(keys)) : Tail(keys)[i].aim = card.q
  BY <1>k DEF KeysAreAimed, CardIsShown
<1>q. ASSUME NEW q \in NextQuestion PROVE q \in Nat
  BY <1>q, DecisionCardAssumption DEF NextQuestion, CardInv, CardTypeOK
<1> USE DEF CardInv, CardTypeOK, SendHolds, KeysAreAimed, CardIsShown, ConsentWasAimed, Still,
        Continue, SendInFlight, ConsentAdmitted, Leave, LeaveAtOnce, Reads
<1>1. CASE Paint
  BY <1>1 DEF Paint, PollQuestion, QuestionMoved, CardOpened, NoteFirstPaint, NewPanel, NoCard
<1>2. CASE DrainKeys
  <2>1. /\ cardPhase = "drain" /\ cardPhase' = "input"
        /\ UNCHANGED <<asking, asked, inLoop, card, screen, send, sending, consents>>
        /\ keys' = SubSeq(keys, PRE_PAINT_DRAIN_CAP + 1, Len(keys))
    BY <1>2 DEF DrainKeys, Drained
  <2>2. keys' \in Seq(KeyPress) /\ (QueueFits => Len(keys') = 0)
    BY <2>1, DrainDrops, DecisionCardAssumption DEF QueueFits
  <2>3. QED
    BY <2>1, <2>2
<1>3. CASE CancelKey
  BY <1>3, <1>k, <1>r DEF CancelKey
<1>4. CASE UnaimedConsent
  BY <1>4, <1>k, <1>r DEF UnaimedConsent, CardTakes
<1>5. CASE CardNavigation
  BY <1>5, <1>k, <1>r DEF CardNavigation, CardTakes, ShiftFocus
<1>6. CASE StartSend
  BY <1>6, <1>k, <1>r DEF StartSend, CardTakes, Aim
<1>7. CASE HandleDecisionEnter
  <2>1. card' = card \/ card' = [card EXCEPT !.editing = TRUE]
    BY <1>7 DEF HandleDecisionEnter
  <2>2. card'.q = card.q /\ card' = [q |-> card'.q, row |-> card'.row, editing |-> card'.editing,
                                     draft |-> card'.draft, shown |-> card'.shown]
    BY <2>1
  <2>3. QED
    <3>1. /\ cardPhase = "input" /\ keys # <<>> /\ keys' = Tail(keys) /\ cardPhase' = "top"
          /\ card.q # 0 /\ send = "none"
          /\ UNCHANGED <<asking, asked, hasTask, pressed, screen, sending, inLoop, send, consents>>
      BY <1>7 DEF HandleDecisionEnter, CardTakes
    <3>2. QED
      BY <1>k, <1>r, <2>2, <3>1
<1>8. CASE HandleDecisionEsc
  <2>1. /\ cardPhase = "input" /\ keys # <<>> /\ keys' = Tail(keys) /\ cardPhase' = "top"
        /\ card.q # 0 /\ send = "none"
        /\ UNCHANGED <<asking, asked, hasTask, pressed, screen, sending, inLoop, send>>
    BY <1>8 DEF HandleDecisionEsc, CardTakes
  <2>2. CASE card' = [card EXCEPT !.editing = FALSE] /\ UNCHANGED consents
    <3>1. card'.q = card.q /\ card' = [q |-> card'.q, row |-> card'.row, editing |-> card'.editing,
                                       draft |-> card'.draft, shown |-> card'.shown]
      BY <2>2
    <3>2. QED
      BY <1>k, <1>r, <2>1, <2>2, <3>1
  <2>3. CASE card' = NoCard /\ consents' = consents \cup {[q |-> card.q, aim |-> Head(keys).aim]}
    BY <1>k, <1>r, <2>1, <2>3 DEF NoCard
  <2>4. QED
    BY <1>8, <2>2, <2>3 DEF HandleDecisionEsc, Aim
<1>9. CASE HandleDecisionText
  <2>1. card' = card \/ card' = [card EXCEPT !.draft = TRUE]
    BY <1>9 DEF HandleDecisionText
  <2>2. card'.q = card.q /\ card' = [q |-> card'.q, row |-> card'.row, editing |-> card'.editing,
                                     draft |-> card'.draft, shown |-> card'.shown]
    BY <2>1
  <2>3. QED
    <3>1. /\ cardPhase = "input" /\ keys # <<>> /\ keys' = Tail(keys) /\ cardPhase' = "top"
          /\ card.q # 0 /\ send = "none"
          /\ UNCHANGED <<asking, asked, hasTask, pressed, screen, sending, inLoop, send, consents>>
      BY <1>9 DEF HandleDecisionText, CardTakes
    <3>2. QED
      BY <1>k, <1>r, <2>2, <3>1
<1>10. CASE EndKey
  BY <1>10, <1>k, <1>r DEF EndKey
<1>11. CASE ComposerText
  BY <1>11, <1>k, <1>r DEF ComposerText
<1>12. CASE RunComposerCommand
  BY <1>12, <1>k, <1>q DEF RunComposerCommand, Asks
<1>13. CASE NoKey
  BY <1>13 DEF NoKey
<1>14. CASE PollWindow
  BY <1>14 DEF PollWindow, WindowPoll, NoCard
<1>15. CASE CloseWindow
  BY <1>15 DEF CloseWindow
<1>16. CASE CommitAnswer
  BY <1>16, <1>q DEF CommitAnswer, Asks
<1>17. CASE SendThreadDies
  BY <1>17 DEF SendThreadDies
<1>18. CASE DelayPasses
  BY <1>18 DEF DelayPasses
<1>19. CASE QuestionMoves
  BY <1>19, <1>q DEF QuestionMoves, Asks
<1>20. ASSUME NEW k \in Keystroke, Press(k)
       PROVE  CardInv' /\ (QueueFits /\ KeysAreAimed => KeysAreAimed')
  <2>1. /\ keys' = Append(keys, [key |-> k, aim |-> screen]) /\ [key |-> k, aim |-> screen] \in KeyPress
        /\ UNCHANGED <<cardPhase, asking, asked, inLoop, card, screen, send, sending, consents>>
    BY <1>20 DEF Press, KeyPress
  <2>2. /\ keys' \in Seq(KeyPress) /\ Len(keys') = Len(keys) + 1 /\ Len(keys) \in Nat
        /\ keys'[Len(keys) + 1].aim = screen
        /\ \A i \in 1 .. Len(keys) : keys'[i] = keys[i]
    BY <2>1
  <2>3. \A i \in 1 .. Len(keys') : i \in 1 .. Len(keys) \/ i = Len(keys) + 1
    BY <2>2
  <2>4. QED
    BY <2>1, <2>2, <2>3
<1>21. CASE CardOver \/ UNCHANGED cardVars
  BY <1>21 DEF CardOver, cardVars
<1>22. QED
  BY <1>1, <1>2, <1>3, <1>4, <1>5, <1>6, <1>7, <1>8, <1>9, <1>10, <1>11, <1>12, <1>13, <1>14, <1>15,
     <1>16, <1>17, <1>18, <1>19, <1>20, <1>21, Zenon DEF CardNext, LoopStep, SendThreadStep

\* Whatever keys arrive and however the send ends: the runtime has one holder, and the loop is
\* never over with a send left running.
THEOREM RuntimeSafe == CardSpec => []OneRuntime
<1>1. CardAimInv => CardInv
  BY DEF CardAimInv
<1>2. CardInv => OneRuntime
  BY DEF CardInv, SendHolds, OneRuntime
<1>3. QED
  BY CardInvInit, CardInvNext, <1>1, <1>2, PTL DEF CardSpec

\* As long as the terminal never queues more keys than one drain drops, a question is answered
\* or dismissed only by a key pressed over that question, for any number of keys and questions.
THEOREM ConsentSafe == CardSpec /\ []QueueFits => []ConsentIsReal
<1>1. CardAimInv => ConsentIsReal
  BY DEF CardAimInv, CardInv, KeysAreAimed, SendHolds, OneRuntime, ConsentIsReal
<1>2. CardAimInv /\ QueueFits /\ [CardNext]_cardVars => CardAimInv'
  BY CardInvNext DEF CardAimInv
<1>3. QED
  BY CardInvInit, <1>1, <1>2, PTL DEF CardSpec

-----------------------------------------------------------------------------
(***************************************************************************)
(* The sharing server.  Its invariant ties the ids minted to the           *)
(* connections that hold them: no two connections hold one id, only an     *)
(* accepted one holds any, and only accepted ones are pumped.              *)
(***************************************************************************)
PeerRecord == [to : Grant \cup {"none"}, at : {"away", "backlog", "accepted"},
               frame : Frames \cup {"none", "closed"}, id : Nat]

SharingTypeOK ==
    /\ row = [g \in Grant |-> row[g]] /\ surface = [g \in Grant |-> surface[g]]
    /\ attachments = [g \in Grant |-> attachments[g]]
    /\ peer \in [Peer -> PeerRecord]
    /\ turn = [on |-> turn.on, left |-> turn.left, late |-> turn.late, request |-> turn.request,
               todo |-> turn.todo, accepts |-> turn.accepts, pumps |-> turn.pumps]
    /\ turn.todo \subseteq Grant /\ turn.accepts \subseteq Grant

\* Who holds an id, and who is pumped.
PeersStand ==
    /\ \A p \in Peer : peer[p].at # "away" => peer[p].to \in Grant
    /\ \A p \in Peer : peer[p].at # "accepted" => peer[p].id = 0
    /\ \A p, q \in Peer : peer[p].id = peer[q].id /\ p # q => peer[p].id = 0
    /\ turn.pumps \subseteq {p \in Peer : peer[p].at = "accepted"}

\* The clock and the expiries are seconds.
ClockOK == now \in Nat /\ expiresAt \in [Grant -> Nat]

SharingInv == SharingTypeOK /\ PeersStand /\ SharingIsGranted

\* No grant was opened and no peer connected at first.
LEMMA SharingInvInit == SharingInit => SharingInv
<1> SUFFICES ASSUME SharingInit PROVE SharingInv
  OBVIOUS
<1>1. \A g \in Grant : Connected(g) = {}
  BY DEF SharingInit, Connected, NoPeer
<1>2. SharingTypeOK /\ PeersStand
  BY DEF SharingInit, SharingTypeOK, PeersStand, NoPeer, Asleep, PeerRecord
<1>3. Cardinality({}) = 0
  BY FS_EmptySet
<1>4. SharingIsGranted
  BY <1>1, <1>3, SharingAssumption
     DEF SharingInit, SharingIsGranted, NothingAfterTheGrant, SurfaceStandsOnRow, AttachmentsHeld
<1>5. QED
  BY <1>2, <1>4 DEF SharingInv

\* The peers of Q hold after the step the connections and ids they held before.
Kept(Q) ==
    \A q \in Q : /\ peer'[q].at = "accepted" <=> peer[q].at = "accepted"
                 /\ peer[q].at = "accepted" => peer'[q].to = peer[q].to /\ peer'[q].id = peer[q].id

\* The connections of a finite set of peers.
LEMMA ConnectedFinite ==
  ASSUME NEW g
  PROVE  IsFiniteSet(Connected(g)) /\ Cardinality(Connected(g)) \in Nat
<1>1. Connected(g) \subseteq Peer
  BY DEF Connected
<1>2. IsFiniteSet(Connected(g))
  BY <1>1, SharingAssumption, FS_Subset
<1>3. QED
  BY <1>2, FS_CardinalityType

\* A step that leaves the connections alone leaves the attachments to them.
LEMMA ConnectionsKept ==
  ASSUME AttachmentsHeld, Kept(Peer), attachments' = attachments
  PROVE  AttachmentsHeld'
<1>1. \A g : Connected(g)' = Connected(g)
  BY DEF Connected, Kept
<1>2. \A g : {peer'[p].id : p \in Connected(g)} = {peer[p].id : p \in Connected(g)}
  BY DEF Connected, Kept
<1>3. QED
  BY <1>1, <1>2 DEF AttachmentsHeld

\* A peer that was accepted holds no id yet, and the grant has room for it.
LEMMA ConnectionJoins ==
  ASSUME AttachmentsHeld, NEW p \in Peer, Kept(Peer \ {p}), attachments' = attachments,
         peer[p].at # "accepted", peer'[p].at = "accepted", peer'[p].id = 0,
         Cardinality(Connected(peer'[p].to)) < MAX_CONNECTIONS
  PROVE  AttachmentsHeld'
<1> SUFFICES ASSUME NEW g \in Grant
             PROVE  /\ attachments[g] = {peer'[q].id : q \in Connected(g)'} \ {0}
                    /\ Cardinality(Connected(g)') <= MAX_CONNECTIONS
  BY DEF AttachmentsHeld
<1>1. Connected(g)' = IF peer'[p].to = g THEN Connected(g) \cup {p} ELSE Connected(g)
  BY DEF Connected, Kept
<1>2. p \notin Connected(g)
  BY DEF Connected
<1>3. \A q \in Connected(g) : peer'[q].id = peer[q].id
  BY <1>2 DEF Connected, Kept
<1>4. {peer'[q].id : q \in Connected(g)'} \ {0} = {peer[q].id : q \in Connected(g)} \ {0}
  BY <1>1, <1>3
<1>5. Cardinality(Connected(g) \cup {p}) = Cardinality(Connected(g)) + 1
  BY <1>2, ConnectedFinite, FS_AddElement
<1>6. Cardinality(Connected(g)) \in Nat /\ MAX_CONNECTIONS \in Nat
  BY ConnectedFinite, SharingAssumption
<1>7. /\ attachments[g] = {peer[q].id : q \in Connected(g)} \ {0}
      /\ Cardinality(Connected(g)) <= MAX_CONNECTIONS
  BY DEF AttachmentsHeld
<1>8. Cardinality(Connected(g)') <= MAX_CONNECTIONS
  <2>1. CASE peer'[p].to = g
    <3>1. Cardinality(Connected(g)) < MAX_CONNECTIONS
      BY <2>1
    <3>2. QED
      BY <1>1, <1>5, <1>6, <2>1, <3>1
  <2>2. CASE peer'[p].to # g
    BY <1>1, <1>7, <2>2
  <2>3. QED
    BY <2>1, <2>2
<1>9. QED
  BY <1>4, <1>7, <1>8

\* A connection that goes takes its id along: no other connection holds it.
LEMMA ConnectionLeaves ==
  ASSUME SharingInv, NEW p \in Peer, Kept(Peer \ {p}), peer[p].at = "accepted",
         peer'[p].at # "accepted", attachments' = [attachments EXCEPT ![peer[p].to] = Dropped(p)]
  PROVE  AttachmentsHeld'
<1> SUFFICES ASSUME NEW g \in Grant
             PROVE  /\ attachments'[g] = {peer'[q].id : q \in Connected(g)'} \ {0}
                    /\ Cardinality(Connected(g)') <= MAX_CONNECTIONS
  BY DEF AttachmentsHeld
<1>0. /\ attachments[g] = {peer[q].id : q \in Connected(g)} \ {0}
      /\ Cardinality(Connected(g)) <= MAX_CONNECTIONS
      /\ peer[p].to \in Grant
  BY DEF SharingInv, PeersStand, SharingIsGranted, AttachmentsHeld
<1>1. Connected(g)' = Connected(g) \ {p}
  BY DEF Connected, Kept
<1>2. \A q \in Connected(g) \ {p} : peer'[q].id = peer[q].id
  BY DEF Connected, Kept
<1>3. \A q \in Connected(g) \ {p} : peer[q].id = peer[p].id => peer[q].id = 0
  BY DEF SharingInv, PeersStand, Connected
<1>4. attachments'[g] = IF peer[p].to = g THEN attachments[g] \ {peer[p].id} ELSE attachments[g]
  BY <1>0 DEF SharingInv, SharingTypeOK, Dropped
<1>5. p \in Connected(g) <=> peer[p].to = g
  BY DEF Connected
<1>6. attachments'[g] = {peer'[q].id : q \in Connected(g)'} \ {0}
  <2>1. {peer'[q].id : q \in Connected(g)'} = {peer[q].id : q \in Connected(g) \ {p}}
    BY <1>1, <1>2
  <2>2. CASE peer[p].to = g
    <3>1. attachments'[g] = ({peer[q].id : q \in Connected(g)} \ {0}) \ {peer[p].id}
      BY <1>0, <1>4, <2>2
    <3>2. {peer[q].id : q \in Connected(g)} = {peer[q].id : q \in Connected(g) \ {p}} \cup {peer[p].id}
      BY <1>5, <2>2
    <3>3. {peer[q].id : q \in Connected(g) \ {p}} \cap {peer[p].id} \subseteq {0}
      BY <1>3
    <3>4. QED
      BY <2>1, <3>1, <3>2, <3>3
  <2>3. CASE peer[p].to # g
    BY <1>0, <1>4, <1>5, <2>1, <2>3
  <2>4. QED
    BY <2>2, <2>3
<1>7. Cardinality(Connected(g)') <= Cardinality(Connected(g))
  <2>1. Connected(g)' \subseteq Connected(g)
    BY <1>1
  <2>2. QED
    BY <2>1, ConnectedFinite, FS_Subset
<1>8. Cardinality(Connected(g)) \in Nat /\ Cardinality(Connected(g)') \in Nat /\ MAX_CONNECTIONS \in Nat
  <2>1. IsFiniteSet(Connected(g)')
    BY <1>1, ConnectedFinite, FS_Subset
  <2>2. QED
    BY <2>1, ConnectedFinite, FS_CardinalityType, SharingAssumption
<1>9. QED
  BY <1>0, <1>6, <1>7, <1>8

\* A connection that is attached gives its id back and holds one that nobody holds.
LEMMA ConnectionAttaches ==
  ASSUME SharingInv, NEW p \in Peer, Kept(Peer \ {p}), peer[p].at = "accepted", NEW fresh \in Nat \ {0},
         peer'[p].at = "accepted", peer'[p].to = peer[p].to, peer'[p].id = fresh,
         \A q \in Peer : peer[q].id # fresh,
         attachments' = [attachments EXCEPT ![peer[p].to] = Dropped(p) \cup {fresh}]
  PROVE  AttachmentsHeld'
<1> SUFFICES ASSUME NEW g \in Grant
             PROVE  /\ attachments'[g] = {peer'[q].id : q \in Connected(g)'} \ {0}
                    /\ Cardinality(Connected(g)') <= MAX_CONNECTIONS
  BY DEF AttachmentsHeld
<1>0. /\ attachments[g] = {peer[q].id : q \in Connected(g)} \ {0}
      /\ Cardinality(Connected(g)) <= MAX_CONNECTIONS
      /\ peer[p].to \in Grant
  BY DEF SharingInv, PeersStand, SharingIsGranted, AttachmentsHeld
<1>1. Connected(g)' = Connected(g)
  BY DEF Connected, Kept
<1>2. \A q \in Connected(g) \ {p} : peer'[q].id = peer[q].id
  BY DEF Connected, Kept
<1>3. \A q \in Connected(g) \ {p} : peer[q].id = peer[p].id => peer[q].id = 0
  BY DEF SharingInv, PeersStand, Connected
<1>4. attachments'[g] = IF peer[p].to = g THEN (attachments[g] \ {peer[p].id}) \cup {fresh}
                        ELSE attachments[g]
  BY <1>0 DEF SharingInv, SharingTypeOK, Dropped
<1>5. p \in Connected(g) <=> peer[p].to = g
  BY DEF Connected
<1>6. CASE peer[p].to = g
  <2>1. {peer'[q].id : q \in Connected(g)} = {peer[q].id : q \in Connected(g) \ {p}} \cup {fresh}
    BY <1>2, <1>5, <1>6
  <2>2. attachments'[g] = ({peer[q].id : q \in Connected(g) \ {p}} \ {0}) \cup {fresh}
    BY <1>0, <1>3, <1>4, <1>5, <1>6
  <2>3. QED
    BY <1>0, <1>1, <2>1, <2>2
<1>7. CASE peer[p].to # g
  <2>1. {peer'[q].id : q \in Connected(g)} = {peer[q].id : q \in Connected(g)}
    BY <1>2, <1>5, <1>7
  <2>2. QED
    BY <1>0, <1>1, <1>4, <1>7, <2>1
<1>8. QED
  BY <1>6, <1>7

\* There are more candidate ids than peers, so one is free.
LEMMA FreeIdExists ==
  ASSUME SharingTypeOK
  PROVE  LET fresh == CHOOSE i \in 1 .. Cardinality(Peer) + 1 : i \notin {peer[q].id : q \in Peer}
         IN  fresh \in Nat \ {0} /\ \A q \in Peer : peer[q].id # fresh
<1> DEFINE n == Cardinality(Peer)
           Ids == {peer[q].id : q \in Peer}
<1>1. IsFiniteSet(Peer) /\ n \in Nat
  BY SharingAssumption, FS_CardinalityType
<1>2. IsFiniteSet(Ids) /\ Cardinality(Ids) <= n
  <2> DEFINE f == [q \in Peer |-> peer[q].id]
  <2>1. f \in Surjection(Peer, Ids)
    BY DEF Surjection
  <2>2. QED
    BY <1>1, <2>1, FS_Surjection, Zenon
<1>3. IsFiniteSet(1 .. n + 1) /\ Cardinality(1 .. n + 1) = n + 1
  <2>1. n + 1 \in Int /\ 1 \in Int /\ 1 <= n + 1
    BY <1>1
  <2>2. Cardinality(1 .. n + 1) = (n + 1) - 1 + 1
    BY <2>1, FS_Interval
  <2>3. IsFiniteSet(1 .. n + 1)
    BY <2>1, FS_Interval
  <2>4. QED
    BY <1>1, <2>2, <2>3
<1>4. ~(1 .. n + 1 \subseteq Ids)
  <2>1. SUFFICES ASSUME 1 .. n + 1 \subseteq Ids PROVE FALSE
    OBVIOUS
  <2>2. Cardinality(1 .. n + 1) <= Cardinality(Ids)
    BY <1>2, <2>1, FS_Subset
  <2>3. Cardinality(Ids) \in Nat
    BY <1>2, FS_CardinalityType
  <2>4. QED
    BY <1>1, <1>2, <1>3, <2>2, <2>3
<1>5. \E i \in 1 .. n + 1 : i \notin Ids
  BY <1>4
<1> DEFINE fresh == CHOOSE i \in 1 .. n + 1 : i \notin Ids
<1>6. fresh \in 1 .. n + 1 /\ fresh \notin Ids
  BY <1>5
<1>7. QED
  BY <1>1, <1>6

\* A grant whose liveness was asked stands on its row still.
LEMMA LivenessAsked ==
  ASSUME SharingInv, NEW g \in Grant, EnsureLive(g)
  PROVE  /\ row' = [h \in Grant |-> row'[h]] /\ surface' = [h \in Grant |-> surface'[h]]
         /\ SurfaceStandsOnRow'
BY DEF SharingInv, SharingTypeOK, SharingIsGranted, SurfaceStandsOnRow, EnsureLive, RowMoved

\* The peers after one was refused and its socket, perhaps, closed.
LEMMA PeerRefused ==
  ASSUME SharingInv, NEW p \in Peer, NEW g \in Grant, Refused(p, g)
  PROVE  /\ peer' \in [Peer -> PeerRecord] /\ peer'[p] = NoPeer
         /\ Kept(Peer \ {p})
         /\ \A q \in Peer : peer'[q] = peer[q] \/ peer'[q] = NoPeer
<1>1. NoPeer \in PeerRecord
  BY DEF NoPeer, PeerRecord
<1>2. peer \in [Peer -> PeerRecord] /\ \A q \in Peer : peer[q].at = "backlog" => peer[q].id = 0
  BY DEF SharingInv, SharingTypeOK, PeersStand
<1>3. \/ peer' = [peer EXCEPT ![p] = NoPeer]
      \/ peer' = [Unaccepted(g) EXCEPT ![p] = NoPeer]
  BY DEF Refused
<1>4. CASE peer' = [peer EXCEPT ![p] = NoPeer]
  BY <1>1, <1>2, <1>4 DEF Kept
<1>5. CASE peer' = [Unaccepted(g) EXCEPT ![p] = NoPeer]
  <2>1. /\ peer' = [q \in Peer |-> peer'[q]] /\ peer'[p] = NoPeer
        /\ \A q \in Peer \ {p} : peer'[q] = IF peer[q].to = g /\ peer[q].at = "backlog" THEN NoPeer
                                            ELSE peer[q]
    BY <1>5 DEF Unaccepted
  <2>2. NoPeer.at = "away"
    BY DEF NoPeer
  <2>3. \A q \in Peer : peer'[q] \in PeerRecord
    BY <1>1, <1>2, <2>1
  <2>4. Kept(Peer \ {p})
    BY <2>1, <2>2 DEF Kept
  <2>5. QED
    BY <2>1, <2>3, <2>4
<1>6. QED
  BY <1>3, <1>4, <1>5

\* Peers that stay as they are, or are gone, stand as before.
LEMMA PeersGoing ==
  ASSUME SharingInv, \A q \in Peer : peer'[q] = peer[q] \/ peer'[q] = NoPeer,
         turn'.pumps \subseteq {q \in Peer : peer'[q].at = "accepted"}
  PROVE  PeersStand'
BY DEF SharingInv, PeersStand, NoPeer

\* The pumps after a frame was spent on p.
LEMMA FrameSpent ==
  ASSUME SharingInv, NEW p \in Peer, TurnSpent(p), Kept(Peer \ {p}),
         peer'[p] = NoPeer \/ peer'[p].at = "accepted"
  PROVE  /\ turn' = [on |-> turn'.on, left |-> turn'.left, late |-> turn'.late,
                     request |-> turn'.request, todo |-> turn'.todo, accepts |-> turn'.accepts,
                     pumps |-> turn'.pumps]
         /\ turn'.todo = turn.todo /\ turn'.accepts = turn.accepts
         /\ turn'.pumps \subseteq {q \in Peer : peer'[q].at = "accepted"}
<1>1. turn' = [turn EXCEPT !.left = turn.left - 1,
                           !.pumps = IF peer'[p] = NoPeer THEN turn.pumps \ {p} ELSE turn.pumps]
  BY DEF TurnSpent
<1>2. turn' = [on |-> turn.on, left |-> turn.left - 1, late |-> turn.late,
               request |-> turn.request, todo |-> turn.todo, accepts |-> turn.accepts,
               pumps |-> IF peer'[p] = NoPeer THEN turn.pumps \ {p} ELSE turn.pumps]
  BY <1>1 DEF SharingInv, SharingTypeOK
<1>3. turn.pumps \subseteq {q \in Peer : peer[q].at = "accepted"}
  BY DEF SharingInv, PeersStand
<1>4. QED
  BY <1>2, <1>3 DEF Kept

\* A socket that closes refuses what it had not accepted, and no one else.
LEMMA SocketCloses ==
  ASSUME SharingInv, NEW g \in Grant, peer' = Unaccepted(g)
  PROVE  /\ peer' \in [Peer -> PeerRecord] /\ Kept(Peer)
         /\ \A q \in Peer : peer'[q] = peer[q] \/ peer'[q] = NoPeer
<1>1. /\ peer' = [q \in Peer |-> peer'[q]]
      /\ \A q \in Peer : peer'[q] = IF peer[q].to = g /\ peer[q].at = "backlog" THEN NoPeer
                                    ELSE peer[q]
  BY DEF Unaccepted
<1>2. NoPeer \in PeerRecord /\ NoPeer.at = "away"
  BY DEF NoPeer, PeerRecord
<1>3. peer \in [Peer -> PeerRecord]
  BY DEF SharingInv, SharingTypeOK
<1>4. \A q \in Peer : peer'[q] \in PeerRecord
  BY <1>1, <1>2, <1>3
<1>5. Kept(Peer)
  BY <1>1, <1>2 DEF Kept
<1>6. QED
  BY <1>1, <1>4, <1>5

\* A step that leaves the rows, the surfaces and the connections alone.
LEMMA PeersOnlyStep ==
  ASSUME SharingInv, UNCHANGED <<row, surface, attachments>>, leak' => leak, SharingTypeOK',
         PeersStand', Kept(Peer)
  PROVE  SharingInv'
<1>1. NothingAfterTheGrant' /\ SurfaceStandsOnRow'
  BY DEF SharingInv, SharingIsGranted, NothingAfterTheGrant, SurfaceStandsOnRow
<1>2. AttachmentsHeld'
  BY ConnectionsKept DEF SharingInv, SharingIsGranted
<1>3. QED
  BY <1>1, <1>2 DEF SharingInv, SharingIsGranted

\* A connection whose frame closed it.
LEMMA PeerClosedStep ==
  ASSUME SharingInv, NEW p \in Peer, CloseConnection(p), peer[p].at = "accepted", TurnSpent(p) \/
         turn' = [turn EXCEPT !.pumps = turn.pumps \ {p}],
         UNCHANGED <<row, surface, leak>>
  PROVE  SharingInv'
<1>1. /\ peer' = [peer EXCEPT ![p] = NoPeer]
      /\ attachments' = [attachments EXCEPT ![peer[p].to] = Dropped(p)]
  BY DEF CloseConnection
<1>2. /\ peer' \in [Peer -> PeerRecord] /\ peer'[p] = NoPeer /\ Kept(Peer \ {p})
      /\ \A q \in Peer : peer'[q] = peer[q] \/ peer'[q] = NoPeer
  BY <1>1 DEF SharingInv, SharingTypeOK, NoPeer, PeerRecord, Kept
<1>3. /\ turn' = [on |-> turn'.on, left |-> turn'.left, late |-> turn'.late,
                  request |-> turn'.request, todo |-> turn'.todo, accepts |-> turn'.accepts,
                  pumps |-> turn'.pumps]
      /\ turn'.todo = turn.todo /\ turn'.accepts = turn.accepts
      /\ turn'.pumps \subseteq {q \in Peer : peer'[q].at = "accepted"}
  <2>1. CASE TurnSpent(p)
    BY <1>2, <2>1, FrameSpent
  <2>2. CASE turn' = [turn EXCEPT !.pumps = turn.pumps \ {p}]
    BY <1>2, <2>2 DEF SharingInv, SharingTypeOK, PeersStand, Kept
  <2>3. QED
    BY <2>1, <2>2
<1>4. SharingTypeOK'
  BY <1>1, <1>2, <1>3 DEF SharingInv, SharingTypeOK
<1>5. PeersStand'
  BY <1>2, <1>3, PeersGoing
<1>6. NothingAfterTheGrant' /\ SurfaceStandsOnRow'
  BY DEF SharingInv, SharingIsGranted, NothingAfterTheGrant, SurfaceStandsOnRow
<1>7. peer'[p].at # "accepted"
  BY <1>2 DEF NoPeer
<1>8. AttachmentsHeld'
  BY <1>1, <1>2, <1>7, ConnectionLeaves
<1>9. QED
  BY <1>4, <1>5, <1>6, <1>8 DEF SharingInv, SharingIsGranted

\* A connection that was refused: its grant may have been found expired.
LEMMA PeerRefusedStep ==
  ASSUME SharingInv, NEW p \in Peer, peer[p].at = "accepted", Refused(p, peer[p].to), TurnSpent(p)
  PROVE  SharingInv'
<1> DEFINE g == peer[p].to
<1>0. g \in Grant
  BY DEF SharingInv, PeersStand
<1>1. EnsureLive(g) /\ leak' = leak /\ attachments' = [attachments EXCEPT ![g] = Dropped(p)]
  BY DEF Refused
<1>2. /\ row' = [h \in Grant |-> row'[h]] /\ surface' = [h \in Grant |-> surface'[h]]
      /\ SurfaceStandsOnRow'
  BY <1>0, <1>1, LivenessAsked
<1>3. /\ peer' \in [Peer -> PeerRecord] /\ peer'[p] = NoPeer /\ Kept(Peer \ {p})
      /\ \A q \in Peer : peer'[q] = peer[q] \/ peer'[q] = NoPeer
  BY <1>0, PeerRefused
<1>4. /\ turn' = [on |-> turn'.on, left |-> turn'.left, late |-> turn'.late,
                  request |-> turn'.request, todo |-> turn'.todo, accepts |-> turn'.accepts,
                  pumps |-> turn'.pumps]
      /\ turn'.todo = turn.todo /\ turn'.accepts = turn.accepts
      /\ turn'.pumps \subseteq {q \in Peer : peer'[q].at = "accepted"}
  BY <1>3, FrameSpent
<1>5. SharingTypeOK'
  BY <1>1, <1>2, <1>3, <1>4 DEF SharingInv, SharingTypeOK
<1>6. PeersStand'
  BY <1>3, <1>4, PeersGoing
<1>7. peer'[p].at # "accepted"
  BY <1>3 DEF NoPeer
<1>8. AttachmentsHeld'
  BY <1>1, <1>3, <1>7, ConnectionLeaves
<1>9. QED
  BY <1>1, <1>2, <1>5, <1>6, <1>8 DEF SharingInv, SharingIsGranted, NothingAfterTheGrant

\* An attachment is minted on a connection.
LEMMA AttachStep ==
  ASSUME SharingInv, NEW p \in Peer, Attach(p)
  PROVE  SharingInv'
<1> DEFINE g == peer[p].to
           fresh == CHOOSE i \in 1 .. Cardinality(Peer) + 1 : i \notin {peer[q].id : q \in Peer}
<1>1. /\ peer' = [peer EXCEPT ![p].frame = "none", ![p].id = fresh] /\ TurnSpent(p)
      /\ attachments' = [attachments EXCEPT ![g] = Dropped(p) \cup {fresh}]
      /\ UNCHANGED <<row, surface, leak>>
  BY DEF Attach
<1>2. fresh \in Nat \ {0} /\ \A q \in Peer : peer[q].id # fresh
  BY FreeIdExists DEF SharingInv
<1> HIDE DEF fresh
<1>3. peer[p].at = "accepted" /\ peer \in [Peer -> PeerRecord] /\ g \in Grant
  BY DEF Attach, Due, SharingInv, SharingTypeOK, PeersStand
<1>4. /\ peer'[p].at = "accepted" /\ peer'[p].to = g /\ peer'[p].id = fresh
      /\ peer' \in [Peer -> PeerRecord] /\ \A q \in Peer \ {p} : peer'[q] = peer[q]
  BY <1>1, <1>2, <1>3 DEF PeerRecord
<1>5. Kept(Peer \ {p})
  BY <1>4 DEF Kept
<1>6. /\ turn' = [on |-> turn'.on, left |-> turn'.left, late |-> turn'.late,
                  request |-> turn'.request, todo |-> turn'.todo, accepts |-> turn'.accepts,
                  pumps |-> turn'.pumps]
      /\ turn'.todo = turn.todo /\ turn'.accepts = turn.accepts
      /\ turn'.pumps \subseteq {q \in Peer : peer'[q].at = "accepted"}
  BY <1>1, <1>4, <1>5, FrameSpent
<1>7. SharingTypeOK'
  BY <1>1, <1>4, <1>6 DEF SharingInv, SharingTypeOK
<1>8. PeersStand'
  BY <1>2, <1>3, <1>4, <1>6 DEF SharingInv, PeersStand
<1>9. AttachmentsHeld'
  BY <1>1, <1>2, <1>3, <1>4, <1>5, ConnectionAttaches
<1>10. QED
  BY <1>1, <1>7, <1>8, <1>9
     DEF SharingInv, SharingIsGranted, NothingAfterTheGrant, SurfaceStandsOnRow

\* A method frame: what is served is in the scope of a grant whose row is open.
LEMMA ServeStep ==
  ASSUME SharingInv, ClockOK, NEW p \in Peer, Serve(p)
  PROVE  SharingInv'
<1> DEFINE g == peer[p].to
<1>1. peer[p].at = "accepted" /\ peer \in [Peer -> PeerRecord] /\ g \in Grant /\ TurnSpent(p)
  BY DEF Serve, Due, SharingInv, SharingTypeOK, PeersStand
<1>2. CASE CloseConnection(p) /\ UNCHANGED <<row, surface, leak>>
  BY <1>1, <1>2, PeerClosedStep
<1>3. CASE Refused(p, g)
  BY <1>1, <1>3, PeerRefusedStep
<1>4. CASE /\ Live(g) /\ peer' = [peer EXCEPT ![p].frame = "none"]
           /\ leak' = (leak \/ (InScope(peer[p].frame)
                                /\ (row[g] # "open" \/ now >= expiresAt[g] \/ peer[p].frame # "own")))
           /\ UNCHANGED <<row, surface, attachments>>
  <2>1. row[g] = "open" /\ ~leak
    BY <1>1, <1>4 DEF Live, SharingInv, SharingIsGranted, SurfaceStandsOnRow, NothingAfterTheGrant
  <2>2. ~(now >= expiresAt[g])
    BY <1>1, <1>4 DEF Live, ClockOK
  <2>3. leak' => leak
    BY <1>4, <2>1, <2>2 DEF InScope
  <2>4. /\ peer' \in [Peer -> PeerRecord] /\ \A q \in Peer : peer'[q].at = peer[q].at
        /\ \A q \in Peer : peer'[q].to = peer[q].to /\ peer'[q].id = peer[q].id
    BY <1>1, <1>4 DEF PeerRecord
  <2>5. Kept(Peer) /\ Kept(Peer \ {p})
    BY <2>4 DEF Kept
  <2>6. /\ turn' = [on |-> turn'.on, left |-> turn'.left, late |-> turn'.late,
                    request |-> turn'.request, todo |-> turn'.todo, accepts |-> turn'.accepts,
                    pumps |-> turn'.pumps]
        /\ turn'.todo = turn.todo /\ turn'.accepts = turn.accepts
        /\ turn'.pumps \subseteq {q \in Peer : peer'[q].at = "accepted"}
    BY <1>1, <2>4, <2>5, FrameSpent
  <2>7. SharingTypeOK' /\ PeersStand'
    BY <1>4, <2>4, <2>6 DEF SharingInv, SharingTypeOK, PeersStand
  <2>8. QED
    BY <1>4, <2>3, <2>5, <2>7, PeersOnlyStep
<1>5. QED
  BY <1>2, <1>3, <1>4 DEF Serve

\* The clock only moves forward, and an expiry is the clock and a grant's time.
LEMMA ClockStep ==
  ASSUME ClockOK, [SharingNext]_sharingVars
  PROVE  ClockOK'
<1>1. CASE UNCHANGED <<now, expiresAt>>
  BY <1>1 DEF ClockOK
<1>2. CASE Pass
  BY <1>2 DEF ClockOK, Pass
<1>3. CASE \E g \in Grant : OpenGrant(g)
  BY <1>3, SharingAssumption DEF ClockOK, OpenGrant
<1>4. QED
  BY <1>1, <1>2, <1>3
     DEF SharingNext, sharingVars, TurnStep, RequestStep, Accept, Attach, AttachRefused, Serve, Closed,
         PassOver, TakeGrant, AcceptedAll, TurnEnds, RevokeGrant, OtherRequest, Connect, SendFrame,
         HangUp, TurnIsLate, Restart, Ask, ListenerFails

\* Only the turn moves: what it pumps stays among the accepted.
LEMMA TurnOnlyStep ==
  ASSUME SharingInv, UNCHANGED <<row, surface, leak, attachments, peer>>,
         turn' = [on |-> turn'.on, left |-> turn'.left, late |-> turn'.late, request |-> turn'.request,
                  todo |-> turn'.todo, accepts |-> turn'.accepts, pumps |-> turn'.pumps],
         turn'.todo \subseteq Grant, turn'.accepts \subseteq Grant,
         turn'.pumps \subseteq {q \in Peer : peer[q].at = "accepted"}
  PROVE  SharingInv'
<1>1. SharingTypeOK' /\ PeersStand'
  BY DEF SharingInv, SharingTypeOK, PeersStand
<1>2. Kept(Peer)
  BY DEF Kept
<1>3. QED
  BY <1>1, <1>2, PeersOnlyStep

\* The steps of the serving turn that move no peer.
LEMMA TurnSteps ==
  ASSUME SharingInv,
         \/ TurnIsLate \/ TurnEnds \/ OtherRequest
         \/ \E r \in {"open", "revoke"} : Ask(r)
         \/ \E g \in Grant : TakeGrant(g) \/ AcceptedAll(g)
         \/ \E p \in Peer : PassOver(p)
  PROVE  SharingInv'
<1>0. /\ turn = [on |-> turn.on, left |-> turn.left, late |-> turn.late, request |-> turn.request,
                 todo |-> turn.todo, accepts |-> turn.accepts, pumps |-> turn.pumps]
      /\ turn.todo \subseteq Grant /\ turn.accepts \subseteq Grant
      /\ turn.pumps \subseteq {q \in Peer : peer[q].at = "accepted"}
  BY DEF SharingInv, SharingTypeOK, PeersStand
<1>1. CASE TurnIsLate
  BY <1>0, <1>1, TurnOnlyStep DEF TurnIsLate
<1>2. CASE TurnEnds
  BY <1>0, <1>2, TurnOnlyStep DEF TurnEnds, Asleep
<1>3. CASE OtherRequest
  BY <1>0, <1>3, TurnOnlyStep DEF OtherRequest, Asleep
<1>4. ASSUME NEW r \in {"open", "revoke"}, Ask(r) PROVE SharingInv'
  BY <1>0, <1>4, TurnOnlyStep DEF Ask
<1>5. ASSUME NEW g \in Grant, TakeGrant(g) PROVE SharingInv'
  <2>1. turn' = [turn EXCEPT !.todo = turn.todo \ {g},
                     !.accepts = IF surface[g] = "open" /\ g \in listening THEN {g} ELSE {},
                     !.pumps = IF surface[g] = "open" /\ g \in listening THEN {} ELSE Connected(g)]
    BY <1>5 DEF TakeGrant
  <2>2. Connected(g) \subseteq {q \in Peer : peer[q].at = "accepted"}
    BY DEF Connected
  <2>3. /\ turn' = [on |-> turn'.on, left |-> turn'.left, late |-> turn'.late,
                    request |-> turn'.request, todo |-> turn'.todo, accepts |-> turn'.accepts,
                    pumps |-> turn'.pumps]
        /\ turn'.todo \subseteq Grant
    BY <1>0, <2>1
  <2>4. turn'.accepts \subseteq {g} /\ (turn'.pumps = {} \/ turn'.pumps = Connected(g))
    BY <1>0, <2>1
  <2>5. turn'.accepts \subseteq Grant /\ turn'.pumps \subseteq {q \in Peer : peer[q].at = "accepted"}
    BY <2>2, <2>4
  <2>6. UNCHANGED <<row, surface, leak, attachments, peer>>
    BY <1>5 DEF TakeGrant
  <2>7. QED
    BY <2>3, <2>5, <2>6, TurnOnlyStep
<1>6. ASSUME NEW g \in Grant, AcceptedAll(g) PROVE SharingInv'
  <2>1. Connected(g) \subseteq {q \in Peer : peer[q].at = "accepted"}
    BY DEF Connected
  <2>2. QED
    BY <1>0, <1>6, <2>1, TurnOnlyStep DEF AcceptedAll
<1>7. ASSUME NEW p \in Peer, PassOver(p) PROVE SharingInv'
  <2>1. turn' = [turn EXCEPT !.pumps = turn.pumps \ {p}]
    BY <1>7 DEF PassOver
  <2>2. QED
    BY <1>0, <1>7, <2>1, TurnOnlyStep DEF PassOver
<1>8. QED
  BY <1>1, <1>2, <1>3, <1>4, <1>5, <1>6, <1>7

\* A peer connects, sends a frame or hangs up: it holds what it held.
LEMMA PeerSteps ==
  ASSUME SharingInv, NEW p \in Peer,
         \/ \E g \in Grant : Connect(p, g)
         \/ \E f \in Frames : SendFrame(p, f)
         \/ HangUp(p)
  PROVE  SharingInv'
<1>0. /\ UNCHANGED <<row, surface, attachments, turn, leak>>
      /\ peer \in [Peer -> PeerRecord]
  BY DEF Connect, SendFrame, HangUp, SharingInv, SharingTypeOK
<1>1. /\ \A q \in Peer \ {p} : peer'[q] = peer[q]
      /\ peer' \in [Peer -> PeerRecord]
      /\ peer'[p].at = "accepted" <=> peer[p].at = "accepted"
      /\ peer'[p].id = peer[p].id
      /\ peer[p].at = "accepted" => peer'[p].to = peer[p].to
      /\ peer'[p].at # "away" => peer'[p].to \in Grant
  <2>1. CASE \E g \in Grant : Connect(p, g)
    BY <1>0, <2>1 DEF Connect, NoPeer, PeerRecord
  <2>2. CASE \E f \in Frames : SendFrame(p, f)
    BY <1>0, <2>2 DEF SendFrame, PeerRecord, SharingInv, PeersStand
  <2>3. CASE HangUp(p)
    BY <1>0, <2>3 DEF HangUp, PeerRecord, SharingInv, PeersStand
  <2>4. QED
    BY <2>1, <2>2, <2>3
<1>2. Kept(Peer)
  BY <1>1 DEF Kept
<1>3. SharingTypeOK'
  BY <1>0, <1>1 DEF SharingInv, SharingTypeOK
<1>4. PeersStand'
  BY <1>0, <1>1 DEF SharingInv, PeersStand
<1>5. QED
  BY <1>0, <1>2, <1>3, <1>4, PeersOnlyStep

\* A grant is opened or revoked: the surface goes with the row.
LEMMA GrantSteps ==
  ASSUME SharingInv, NEW g \in Grant, OpenGrant(g) \/ RevokeGrant(g)
  PROVE  SharingInv'
<1>0. /\ row = [h \in Grant |-> row[h]] /\ surface = [h \in Grant |-> surface[h]]
      /\ attachments = [h \in Grant |-> attachments[h]] /\ peer \in [Peer -> PeerRecord]
      /\ attachments' = attachments /\ turn' = Asleep /\ leak' = leak
  BY DEF OpenGrant, RevokeGrant, Answering, SharingInv, SharingTypeOK
<1>1. /\ row' = [h \in Grant |-> row'[h]] /\ surface' = [h \in Grant |-> surface'[h]]
      /\ SurfaceStandsOnRow'
  <2>1. CASE OpenGrant(g)
    BY <1>0, <2>1 DEF OpenGrant, SharingInv, SharingIsGranted, SurfaceStandsOnRow
  <2>2. CASE RevokeGrant(g)
    BY <1>0, <2>2 DEF RevokeGrant, RowMoved, SharingInv, SharingIsGranted, SurfaceStandsOnRow
  <2>3. QED
    BY <2>1, <2>2
<1>2. /\ peer' \in [Peer -> PeerRecord] /\ Kept(Peer)
      /\ \A q \in Peer : peer'[q] = peer[q] \/ peer'[q] = NoPeer
  <2>1. CASE peer' = peer
    BY <1>0, <2>1 DEF Kept
  <2>2. CASE peer' = Unaccepted(g)
    BY <2>2, SocketCloses
  <2>3. QED
    BY <2>1, <2>2 DEF OpenGrant, RevokeGrant
<1>3. SharingTypeOK'
  BY <1>0, <1>1, <1>2 DEF SharingTypeOK, Asleep
<1>4. PeersStand'
  BY <1>0, <1>2, PeersGoing DEF Asleep
<1>5. AttachmentsHeld'
  BY <1>0, <1>2, ConnectionsKept DEF SharingInv, SharingIsGranted
<1>6. QED
  BY <1>0, <1>1, <1>3, <1>4, <1>5 DEF SharingInv, SharingIsGranted, NothingAfterTheGrant

\* A peer of the backlog is accepted while the grant has room, or closed.
LEMMA AcceptStep ==
  ASSUME SharingInv, NEW p \in Peer, Accept(p)
  PROVE  SharingInv'
<1> DEFINE g == peer[p].to
<1>0. /\ UNCHANGED <<row, surface, attachments, leak>> /\ peer[p].at = "backlog"
      /\ peer \in [Peer -> PeerRecord] /\ g \in Grant /\ peer[p].id = 0
  BY DEF Accept, SharingInv, SharingTypeOK, PeersStand
<1>1. CASE Cardinality(Connected(g)) >= MAX_CONNECTIONS
  <2>1. /\ peer' = [peer EXCEPT ![p] = NoPeer]
        /\ turn' = [turn EXCEPT !.accepts = {}, !.pumps = Connected(g)]
    BY <1>1 DEF Accept
  <2>2. /\ peer' \in [Peer -> PeerRecord] /\ Kept(Peer)
        /\ \A q \in Peer : peer'[q] = peer[q] \/ peer'[q] = NoPeer
    BY <1>0, <2>1 DEF Kept, NoPeer, PeerRecord
  <2>3. Connected(g) \subseteq {q \in Peer : peer'[q].at = "accepted"}
    BY <2>2 DEF Connected, Kept
  <2>4. SharingTypeOK'
    BY <1>0, <2>1, <2>2 DEF SharingInv, SharingTypeOK
  <2>5. turn'.pumps \subseteq {q \in Peer : peer'[q].at = "accepted"}
    BY <2>1, <2>3 DEF SharingInv, SharingTypeOK
  <2>6. PeersStand'
    BY <2>2, <2>5, PeersGoing
  <2>7. QED
    BY <1>0, <2>2, <2>4, <2>6, PeersOnlyStep
<1>2. CASE ~(Cardinality(Connected(g)) >= MAX_CONNECTIONS)
  <2>1. peer' = [peer EXCEPT ![p].at = "accepted"] /\ turn' = turn
    BY <1>2 DEF Accept
  <2>2. /\ peer' \in [Peer -> PeerRecord] /\ peer'[p].at = "accepted" /\ peer'[p].id = 0
        /\ peer'[p].to = g /\ \A q \in Peer \ {p} : peer'[q] = peer[q]
    BY <1>0, <2>1 DEF PeerRecord
  <2>3. Kept(Peer \ {p})
    BY <2>2 DEF Kept
  <2>4. Cardinality(Connected(g)) < MAX_CONNECTIONS
    BY <1>2, ConnectedFinite, SharingAssumption
  <2>5. AttachmentsHeld'
    BY <1>0, <2>2, <2>3, <2>4, ConnectionJoins DEF SharingInv, SharingIsGranted
  <2>6. SharingTypeOK'
    BY <1>0, <2>1, <2>2 DEF SharingInv, SharingTypeOK
  <2>7. PeersStand'
    BY <1>0, <2>1, <2>2 DEF SharingInv, PeersStand
  <2>8. QED
    BY <1>0, <2>5, <2>6, <2>7
       DEF SharingInv, SharingIsGranted, NothingAfterTheGrant, SurfaceStandsOnRow
<1>3. QED
  BY <1>1, <1>2

\* A listener that fails takes the surface along; the row may stay open.
LEMMA ListenerFailsStep ==
  ASSUME SharingInv, NEW g \in Grant, ListenerFails(g)
  PROVE  SharingInv'
<1>0. /\ row = [h \in Grant |-> row[h]] /\ surface = [h \in Grant |-> surface[h]]
      /\ attachments' = attachments /\ leak' = leak /\ peer' = Unaccepted(g)
      /\ turn' = [turn EXCEPT !.accepts = {}, !.pumps = Connected(g)]
  BY DEF ListenerFails, SharingInv, SharingTypeOK
<1>1. /\ row' = [h \in Grant |-> row'[h]] /\ surface' = [h \in Grant |-> surface'[h]]
      /\ SurfaceStandsOnRow'
  BY <1>0 DEF ListenerFails, RowMoved, SharingInv, SharingIsGranted, SurfaceStandsOnRow
<1>2. /\ peer' \in [Peer -> PeerRecord] /\ Kept(Peer)
      /\ \A q \in Peer : peer'[q] = peer[q] \/ peer'[q] = NoPeer
  BY <1>0, SocketCloses
<1>3. Connected(g) \subseteq {q \in Peer : peer'[q].at = "accepted"}
  BY <1>2 DEF Connected, Kept
<1>4. SharingTypeOK'
  BY <1>0, <1>1, <1>2 DEF SharingInv, SharingTypeOK
<1>5. turn'.pumps \subseteq {q \in Peer : peer'[q].at = "accepted"}
  BY <1>0, <1>3 DEF SharingInv, SharingTypeOK
<1>6. PeersStand'
  BY <1>2, <1>5, PeersGoing
<1>7. AttachmentsHeld'
  BY <1>0, <1>2, ConnectionsKept DEF SharingInv, SharingIsGranted
<1>8. QED
  BY <1>0, <1>1, <1>4, <1>6, <1>7 DEF SharingInv, SharingIsGranted, NothingAfterTheGrant

\* No connection survives the process.
LEMMA RestartStep ==
  ASSUME SharingInv, Restart
  PROVE  SharingInv'
<1>1. \A g \in Grant : Connected(g)' = {}
  BY DEF Restart, Connected, NoPeer
<1>2. SharingTypeOK' /\ PeersStand'
  BY DEF Restart, SharingTypeOK, PeersStand, NoPeer, Asleep, PeerRecord
<1>3. Cardinality({}) = 0
  BY FS_EmptySet
<1>4. AttachmentsHeld'
  BY <1>1, <1>3, SharingAssumption DEF Restart, AttachmentsHeld
<1>5. QED
  BY <1>2, <1>4
     DEF Restart, SharingInv, SharingIsGranted, NothingAfterTheGrant, SurfaceStandsOnRow

\* Every step of peers, clock and runtime keeps the sharing invariant.
LEMMA SharingInvNext ==
  ASSUME SharingInv, ClockOK, [SharingNext]_sharingVars
  PROVE  SharingInv'
<1>1. CASE \E p \in Peer : (\E g \in Grant : Connect(p, g)) \/ (\E f \in Frames : SendFrame(p, f))
                           \/ HangUp(p)
  BY <1>1, PeerSteps
<1>2. CASE TurnIsLate \/ Ask("open") \/ Ask("revoke") \/ OtherRequest \/ TurnEnds
           \/ (\E g \in Grant : TakeGrant(g) \/ AcceptedAll(g)) \/ (\E p \in Peer : PassOver(p))
  BY <1>2, TurnSteps
<1>3. CASE Pass \/ UNCHANGED sharingVars
  <2>1. UNCHANGED <<row, surface, attachments, turn, leak, peer>>
    BY <1>3 DEF Pass, sharingVars
  <2>2. QED
    BY <2>1, TurnOnlyStep DEF SharingInv, SharingTypeOK, PeersStand
<1>4. CASE Restart
  BY <1>4, RestartStep
<1>5. ASSUME NEW g \in Grant, OpenGrant(g) \/ RevokeGrant(g) PROVE SharingInv'
  BY <1>5, GrantSteps
<1>6. ASSUME NEW g \in Grant, ListenerFails(g) PROVE SharingInv'
  BY <1>6, ListenerFailsStep
<1>7. ASSUME NEW p \in Peer, Accept(p) PROVE SharingInv'
  BY <1>7, AcceptStep
<1>8. ASSUME NEW p \in Peer, Attach(p) PROVE SharingInv'
  BY <1>8, AttachStep
<1>9. ASSUME NEW p \in Peer, Serve(p) PROVE SharingInv'
  BY <1>9, ServeStep
<1>10. ASSUME NEW p \in Peer, Closed(p) PROVE SharingInv'
  <2>1. /\ peer[p].at = "accepted" /\ CloseConnection(p) /\ UNCHANGED <<row, surface, leak>>
        /\ turn' = [turn EXCEPT !.pumps = turn.pumps \ {p}]
    BY <1>10 DEF Closed, Due, SharingInv, PeersStand
  <2>2. QED
    BY <2>1, PeerClosedStep
<1>11. ASSUME NEW p \in Peer, AttachRefused(p) PROVE SharingInv'
  <2>1. peer[p].at = "accepted" /\ TurnSpent(p)
    BY <1>11 DEF AttachRefused, Due, SharingInv, PeersStand
  <2>2. CASE Refused(p, peer[p].to)
    BY <2>1, <2>2, PeerRefusedStep
  <2>3. CASE CloseConnection(p) /\ UNCHANGED <<row, surface, leak>>
    BY <2>1, <2>3, PeerClosedStep
  <2>4. QED
    BY <1>11, <2>2, <2>3 DEF AttachRefused
<1>12. QED
  BY <1>1, <1>2, <1>3, <1>4, <1>5, <1>6, <1>7, <1>8, <1>9, <1>10, <1>11
     DEF SharingNext, TurnStep, RequestStep

\* For every number of grants, peers, connections and frames: nothing is served after its
\* grant ended, a surface stands on its row, and attachments are those of live connections
\* (SharingService::serve, ensure_live, revoke_sharing_grant).
THEOREM SharingSafe == SharingSpec => []SharingIsGranted
<1>1. SharingInit => SharingInv /\ ClockOK
  BY SharingInvInit DEF SharingInit, ClockOK
<1>2. SharingInv /\ ClockOK /\ [SharingNext]_sharingVars => (SharingInv /\ ClockOK)'
  BY SharingInvNext, ClockStep
<1>3. SharingInv => SharingIsGranted
  BY DEF SharingInv
<1>4. QED
  BY <1>1, <1>2, <1>3, PTL DEF SharingSpec

-----------------------------------------------------------------------------
(***************************************************************************)
(* Owned processes.  The invariant of a launch says what each process      *)
(* knows of the others: what init learnt from the private pair, what the   *)
(* executor learnt from the transcript, and which of them have ended for   *)
(* good.  The invariant of an observation says what was read of the pipe.  *)
(***************************************************************************)
LaunchFrames == {"entry", "fault", "exit", "stop"}
Stops == {"none", "stop", "control_lost", "deadline", "observation"}
Children == {"none", "prep", "ready", "payload", "hang", "ended", "gone", "killed"}
Waiters == {"boot", "waiting", "success", "failed", "killed"}
InitRecord == [at : {"none", "setup", "read", "reap", "report", "exit0", "exited"}, ready : BOOLEAN,
               eof : BOOLEAN, open : BOOLEAN, fault : BOOLEAN, entered : BOOLEAN, stop : Stops,
               status : Children]
ParentRecord == [at : {"read", "act", "done", "dead"}, pidfd : BOOLEAN, primary : BOOLEAN, fault : BOOLEAN,
                 requested : {"none", "cancelled", "deadline"}, stopSent : BOOLEAN, emergency : BOOLEAN,
                 eof : BOOLEAN, reaped : {"none", "success", "failed", "killed"}, lost : BOOLEAN,
                 entry : BOOLEAN, terminal : {"none", "fault", "exit", "stop"},
                 result : {"none", "timeout", "unproven", "error", "stopped", "exited"}]

OwnedTypeOK ==
    /\ clock \in 0 .. 3
    /\ up \in Seq(LaunchFrames) /\ down \in Seq({"stop"}) /\ private \in Seq({"entry", "fault"})
    /\ parent \in ParentRecord /\ waiter \in Waiters /\ init \in InitRecord
    /\ child \in Children

\* What the child did and init knows of it.
ChildIsKnown ==
    /\ child \in {"none", "prep"} => private = <<>> /\ ~ init.ready /\ ~ init.entered
    /\ waiter = "boot" => init.at = "none"
    /\ init.at \in {"none", "setup"} => child = "none" /\ init.status = "none"
    /\ child = "none" => init.at \in {"none", "setup", "exited"}
    /\ init.eof => child \in {"payload", "ended", "gone", "killed"}
    /\ child = "gone" => init.fault \/ \E i \in DOMAIN private : private[i] = "fault"
    /\ child = "killed" => init.stop # "none" \/ init.at \in {"exit0", "exited"}

\* What init published, and what it concluded.
EntryIsProven ==
    /\ init.entered => init.ready /\ (init.eof \/ init.stop # "none")
    /\ init.eof => private = <<>>
    /\ init.at \in {"read", "reap", "report"} /\ init.entered /\ init.stop = "none" /\ ~ init.fault
          => child \in {"payload", "ended"}
    /\ init.status # "none" => ~ ChildAlive /\ init.status = child
    /\ init.status = "none" /\ init.at = "report" => init.stop # "none"

\* What the executor has read, or is about to.
TranscriptIsTrue ==
    /\ \A i \in DOMAIN up : /\ up[i] = "entry" => init.entered
                            /\ up[i] = "exit" => child = "ended"
    /\ parent.entry => init.entered
    /\ parent.terminal = "exit" => child = "ended"
    /\ parent.result = "exited" => parent.terminal = "exit"

\* Who has ended for good.
DeadStayDead ==
    /\ waiter = "success" => init.at \in {"exit0", "exited"} /\ ~ ChildAlive
    /\ parent.reaped # "none" => waiter = parent.reaped
    /\ artifacts = "removed" => parent.reaped = "success"

OwnedInv == OwnedTypeOK /\ ChildIsKnown /\ EntryIsProven /\ TranscriptIsTrue /\ DeadStayDead

\* The observer and the pipe it reads.
PieceRecord == [at : {"start", "write", "drain", "stop", "wait", "finish"}, taken : Nat, retained : Nat,
                open : BOOLEAN, exited : BOOLEAN, runs : Nat]
ObserveTypeOK ==
    /\ kind \in {"worker", "confined", "hook", "phase"}
    /\ wrote \in Nat /\ reader \in PieceRecord

\* What was read: no more than was written, and retained up to the bound.
ReadIsPart ==
    /\ reader.taken <= wrote
    /\ reader.retained = Lesser(RetainCap, reader.taken)
    /\ ~ reader.open => ~ Holders /\ reader.taken = wrote
    /\ reader.at = "wait" /\ kind \in {"worker", "hook"} => reader.retained <= AnswerCap
    /\ reader.at = "finish" => kind # "hook"

ObserveInv == ObserveTypeOK /\ ReadIsPart /\ AnswerIsWhole /\ FamilyIsDead

\* What is left of a queue, and what it grows by.
LEMMA QueueIs ==
  ASSUME NEW S
  PROVE  /\ <<>> \in Seq(S) /\ DOMAIN <<>> = {}
         /\ \A q \in Seq(S), x \in S :
               /\ Append(q, x) \in Seq(S) /\ Append(q, x) # <<>>
               /\ \A i \in DOMAIN Append(q, x) : Append(q, x)[i] = x \/ \E j \in DOMAIN q : q[j] = Append(q, x)[i]
               /\ \A j \in DOMAIN q : \E i \in DOMAIN Append(q, x) : Append(q, x)[i] = q[j]
               /\ \E i \in DOMAIN Append(q, x) : Append(q, x)[i] = x
         /\ \A q \in Seq(S) : q # <<>> =>
               /\ Head(q) \in S /\ Tail(q) \in Seq(S) /\ \E j \in DOMAIN q : q[j] = Head(q)
               /\ \A i \in DOMAIN Tail(q) : \E j \in DOMAIN q : q[j] = Tail(q)[i]
               /\ \A j \in DOMAIN q : q[j] = Head(q) \/ \E i \in DOMAIN Tail(q) : Tail(q)[i] = q[j]
<1>1. <<>> \in Seq(S) /\ DOMAIN <<>> = {}
  OBVIOUS
<1>2. ASSUME NEW q \in Seq(S), NEW x \in S
      PROVE  /\ Append(q, x) \in Seq(S) /\ Append(q, x) # <<>>
             /\ \A i \in DOMAIN Append(q, x) : Append(q, x)[i] = x \/ \E j \in DOMAIN q : q[j] = Append(q, x)[i]
             /\ \A j \in DOMAIN q : \E i \in DOMAIN Append(q, x) : Append(q, x)[i] = q[j]
             /\ \E i \in DOMAIN Append(q, x) : Append(q, x)[i] = x
  <2>1. /\ Len(q) \in Nat /\ DOMAIN q = 1 .. Len(q) /\ Append(q, x) \in Seq(S)
        /\ DOMAIN Append(q, x) = 1 .. Len(q) + 1
        /\ \A i \in 1 .. Len(q) : Append(q, x)[i] = q[i]
        /\ Append(q, x)[Len(q) + 1] = x
    OBVIOUS
  <2>2. \A i \in 1 .. Len(q) + 1 : i \in 1 .. Len(q) \/ i = Len(q) + 1
    BY <2>1
  <2>3. Len(q) + 1 \in 1 .. Len(q) + 1 /\ \A i \in 1 .. Len(q) : i \in 1 .. Len(q) + 1
    BY <2>1
  <2>4. Append(q, x) # <<>>
    BY <2>1, <2>3
  <2>5. QED BY <2>1, <2>2, <2>3, <2>4
<1>3. ASSUME NEW q \in Seq(S), q # <<>>
      PROVE  /\ Head(q) \in S /\ Tail(q) \in Seq(S) /\ \E j \in DOMAIN q : q[j] = Head(q)
             /\ \A i \in DOMAIN Tail(q) : \E j \in DOMAIN q : q[j] = Tail(q)[i]
             /\ \A j \in DOMAIN q : q[j] = Head(q) \/ \E i \in DOMAIN Tail(q) : Tail(q)[i] = q[j]
  <2>1. /\ Len(q) \in Nat /\ Len(q) # 0 /\ DOMAIN q = 1 .. Len(q) /\ Tail(q) \in Seq(S)
        /\ DOMAIN Tail(q) = 1 .. Len(q) - 1 /\ Head(q) = q[1]
        /\ \A i \in 1 .. Len(q) - 1 : Tail(q)[i] = q[i + 1]
    BY <1>3
  <2>2. 1 \in 1 .. Len(q) /\ \A i \in 1 .. Len(q) - 1 : i + 1 \in 1 .. Len(q)
    BY <2>1
  <2>3. \A j \in 1 .. Len(q) : j = 1 \/ (j - 1 \in 1 .. Len(q) - 1 /\ (j - 1) + 1 = j)
    BY <2>1
  <2>4. q[1] \in S
    BY <2>1, <2>2
  <2>5. \A i \in DOMAIN Tail(q) : \E j \in DOMAIN q : q[j] = Tail(q)[i]
    BY <2>1, <2>2
  <2>6. \A j \in DOMAIN q : q[j] = Head(q) \/ \E i \in DOMAIN Tail(q) : Tail(q)[i] = q[j]
    BY <2>1, <2>3
  <2>7. QED BY <2>1, <2>2, <2>4, <2>5, <2>6
<1>4. QED BY <1>1, <1>2, <1>3

\* A fault that may have been written: what is queued is the queue and one more.
LEMMA FaultIsMore ==
  ASSUME up \in Seq(LaunchFrames), NEW frame \in LaunchFrames, up' = Append(up, frame)
  PROVE  /\ up' \in Seq(LaunchFrames)
         /\ \A i \in DOMAIN up' : up'[i] = frame \/ \E j \in DOMAIN up : up[j] = up'[i]
BY QueueIs

\* A step of init or of the waiter that neither publishes nor learns: at most one
\* frame is written, an exit only of an ended payload, and nobody comes back to life.
LEMMA QuietKeeps ==
  ASSUME OwnedInv, UNCHANGED <<down, private, parent, artifacts>>, clock' \in 0 .. 3,
         \/ up' = up \/ up' = Append(up, "fault") \/ up' = Append(up, "stop")
         \/ up' = Append(up, "exit") /\ child = "ended",
         init' \in InitRecord, waiter' \in Waiters, child' \in Children,
         init'.ready = init.ready, init'.eof = init.eof, init'.entered = init.entered,
         init'.fault = init.fault, init'.stop = init.stop,
         init'.status \in {"none", init.status} \/ (init'.status = child' /\ child' = child /\ ~ ChildAlive),
         init'.status = "none" /\ init'.at = "report" => init'.stop # "none",
         init'.at \in {"read", "reap", "report"} => init.at \in {"read", "reap", "report"} \/ ~ init.entered,
         child' = child \/ (child' = "prep" /\ child = "none" /\ init'.at = "read")
             \/ (ChildAlive /\ child' = "killed" /\ (init'.stop # "none" \/ init'.at \in {"exit0", "exited"}))
             \/ (child = "payload" /\ child' = "ended"),
         child' = "none" => init'.at \in {"none", "setup", "exited"},
         child' = "killed" => init'.stop # "none" \/ init'.at \in {"exit0", "exited"},
         waiter' = waiter \/ (WaiterAlive /\ waiter' # "boot"), waiter' = "boot" => init'.at = "none",
         init'.at \in {"none", "setup"} => child' = "none" /\ init'.status = "none",
         waiter' = "success" => init'.at \in {"exit0", "exited"} /\ ~ ChildAlive'
  PROVE  OwnedInv'
<1> USE DEF OwnedInv
<1>1. up' \in Seq(LaunchFrames)
      /\ \A i \in DOMAIN up' : \/ up'[i] \in {"fault", "stop"} \/ (up'[i] = "exit" /\ child = "ended")
                               \/ \E j \in DOMAIN up : up[j] = up'[i]
  <2>1. up \in Seq(LaunchFrames) /\ {"fault", "stop", "exit"} \subseteq LaunchFrames
    BY DEF OwnedTypeOK, LaunchFrames
  <2>2. CASE up' = up
    BY <2>1, <2>2
  <2>3. CASE up' # up
    <3>1. PICK frame \in {"fault", "stop", "exit"} : up' = Append(up, frame) /\ (frame = "exit" => child = "ended")
      BY <2>3
    <3>2. up' \in Seq(LaunchFrames)
          /\ \A i \in DOMAIN up' : up'[i] = frame \/ \E j \in DOMAIN up : up[j] = up'[i]
      BY <2>1, <3>1, FaultIsMore
    <3>3. QED BY <3>1, <3>2
  <2>4. QED BY <2>2, <2>3
<1>2. OwnedTypeOK'
  BY <1>1 DEF OwnedTypeOK
<1>3. child \in Children /\ child' \in Children
  BY DEF OwnedTypeOK
<1>4. ChildIsKnown'
  BY <1>3 DEF ChildIsKnown, ChildAlive, Children
<1>5. EntryIsProven'
  BY <1>3 DEF EntryIsProven, ChildIsKnown, ChildAlive, Children
<1>6. TranscriptIsTrue'
  <2>1. child = "ended" => child' = "ended"
    BY <1>3 DEF ChildAlive
  <2>2. \A i \in DOMAIN up' : /\ up'[i] = "entry" => init'.entered
                              /\ up'[i] = "exit" => child' = "ended"
    BY <1>1, <2>1 DEF TranscriptIsTrue
  <2>3. QED BY <2>1, <2>2 DEF TranscriptIsTrue
<1>7. DeadStayDead'
  BY DEF DeadStayDead, WaiterAlive, OwnedTypeOK, ParentRecord
<1>8. QED BY <1>2, <1>4, <1>5, <1>6, <1>7

\* Init's wait for the child, and its kill once it has stopped.
LEMMA ReapKeeps == ASSUME OwnedInv, InitReap PROVE OwnedInv'
<1> DEFINE kills == init.stop # "none" /\ ~ init.open /\ init.status = "none" /\ ChildAlive
           status == IF ~ init.open /\ ~ ChildAlive THEN child ELSE "none"
           ends == \/ status # "none" /\ (init.eof \/ init.stop # "none")
                   \/ init.stop # "none" /\ clock = 3
<1>0. /\ clock \in 0 .. 3 /\ init \in InitRecord /\ waiter \in Waiters /\ child \in Children
  BY DEF OwnedInv, OwnedTypeOK
<1>1. /\ init.at = "reap" /\ child' = IF kills \/ (ends /\ ChildAlive) THEN "killed" ELSE child
      /\ init' = [init EXCEPT !.status = status, !.at = IF ends THEN "report" ELSE "read"]
      /\ UNCHANGED <<clock, up, down, private, parent, waiter, artifacts>>
  BY DEF InitReap
<1>2. status \in Children /\ (status # "none" => status = child /\ ~ ChildAlive)
  BY <1>0 DEF Children
<1>3. ends => status # "none" \/ init.stop # "none"
  OBVIOUS
<1>4. kills => ChildAlive /\ init.stop # "none"
  OBVIOUS
<1> HIDE DEF kills, status, ends
<1>5. /\ init' \in InitRecord /\ init'.ready = init.ready /\ init'.eof = init.eof
      /\ init'.entered = init.entered /\ init'.fault = init.fault /\ init'.stop = init.stop
      /\ init'.status = status /\ init'.at = IF ends THEN "report" ELSE "read"
  BY <1>0, <1>1, <1>2 DEF InitRecord
<1>6. /\ child' = child \/ (ChildAlive /\ child' = "killed" /\ init.stop # "none")
      /\ child' \in Children
  BY <1>0, <1>1, <1>2, <1>3, <1>4 DEF Children
<1>7. /\ waiter # "boot" /\ waiter # "success" /\ child # "none"
      /\ child = "killed" => init.stop # "none"
      /\ init.status # "none" => ~ ChildAlive /\ init.status = child
  BY <1>1 DEF OwnedInv, ChildIsKnown, EntryIsProven, DeadStayDead
<1>8. status # "none" => child' = child
  BY <1>2, <1>6
<1>9. init'.status = "none" /\ init'.at = "report" => init'.stop # "none"
  BY <1>3, <1>5
<1>10. init'.status \in {"none", init.status} \/ (init'.status = child' /\ child' = child /\ ~ ChildAlive)
  BY <1>2, <1>5, <1>7, <1>8
<1>11. QED BY <1>0, <1>1, <1>5, <1>6, <1>7, <1>9, <1>10, QuietKeeps

\* The steps of the waiter, of the kernel and of the clock, and init's but for
\* its reads.
LEMMA QuietSteps ==
  ASSUME OwnedInv,
         \/ WaiterFails \/ WaiterForks \/ WaiterReaps \/ InitSetupFails \/ InitForks \/ InitReap \/ InitReport
         \/ PayloadEnds \/ Tick \/ WaiterKilled \/ DeathSignal \/ NamespaceDies
  PROVE  OwnedInv'
<1>0. /\ clock \in 0 .. 3 /\ init \in InitRecord /\ waiter \in Waiters /\ child \in Children
  BY DEF OwnedInv, OwnedTypeOK
<1>01. /\ child = "none" => init.at \in {"none", "setup", "exited"}
       /\ child = "killed" => init.stop # "none" \/ init.at \in {"exit0", "exited"}
       /\ child \in {"none", "prep"} => ~ init.entered
       /\ init.status # "none" => ~ ChildAlive /\ init.status = child
       /\ init.status = "none" /\ init.at = "report" => init.stop # "none"
       /\ waiter = "boot" => init.at = "none"
       /\ init.at \in {"none", "setup"} => child = "none" /\ init.status = "none"
       /\ waiter = "success" => init.at \in {"exit0", "exited"} /\ ~ ChildAlive
  BY DEF OwnedInv, ChildIsKnown, EntryIsProven, DeadStayDead
<1>1. CASE WaiterFails
  <2>1. /\ up' = up \/ up' = Append(up, "fault")
        /\ waiter = "boot" /\ waiter' = "failed" /\ UNCHANGED <<clock, down, private, parent, init, child, artifacts>>
    BY <1>1 DEF WaiterFails
  <2>2. ChildAlive' = ChildAlive /\ WaiterAlive /\ waiter' \in Waiters
    BY <2>1 DEF ChildAlive, WaiterAlive, Waiters
  <2>3. QED BY <1>0, <1>01, <2>1, <2>2, QuietKeeps
<1>2. CASE WaiterForks
  <2>1. /\ waiter = "boot" /\ waiter' = "waiting" /\ init' = [init EXCEPT !.at = "setup"]
        /\ UNCHANGED <<clock, up, down, private, parent, child, artifacts>>
    BY <1>2 DEF WaiterForks
  <2>2. /\ init' \in InitRecord /\ init'.at = "setup" /\ init'.ready = init.ready /\ init'.eof = init.eof
        /\ init'.entered = init.entered /\ init'.fault = init.fault /\ init'.stop = init.stop
        /\ init'.status = init.status /\ ChildAlive' = ChildAlive /\ WaiterAlive /\ waiter' \in Waiters
    BY <1>0, <2>1 DEF ChildAlive, WaiterAlive, Waiters, InitRecord
  <2>3. child = "none" /\ init.status = "none" /\ init.at = "none"
    BY <1>01, <2>1
  <2>4. QED BY <1>0, <1>01, <2>1, <2>2, <2>3, QuietKeeps
<1>3. CASE WaiterReaps
  <2>1. /\ waiter = "waiting" /\ init.at \in {"exit0", "exited"} /\ ~ ChildAlive /\ waiter' \in {"success", "failed"}
        /\ UNCHANGED <<clock, up, down, private, parent, init, child, artifacts>>
    BY <1>3 DEF WaiterReaps
  <2>2. ChildAlive' = ChildAlive /\ WaiterAlive /\ waiter' \in Waiters
    BY <2>1 DEF ChildAlive, WaiterAlive, Waiters
  <2>3. QED BY <1>0, <1>01, <2>1, <2>2, QuietKeeps
<1>4. CASE InitSetupFails \/ (DeathSignal /\ init' # init) \/ InitReport
  <2>1. /\ init.at \in {"setup", "read", "reap", "report"}
        /\ \/ init' = [init EXCEPT !.at = "exited"]
           \/ init.at = "report" /\ init' = [init EXCEPT !.at = "exit0"]
        /\ waiter' = waiter /\ UNCHANGED <<clock, down, private, parent, child, artifacts>>
    <3>1. CASE InitSetupFails
      BY <3>1 DEF InitSetupFails, InitFatal
    <3>2. CASE DeathSignal /\ init' # init
      BY <3>2 DEF DeathSignal, InitAlive
    <3>3. CASE InitReport
      <4>1. /\ init.at = "report" /\ UNCHANGED <<clock, down, private, parent, waiter, child, artifacts>>
            /\ init' = [init EXCEPT !.at = "exited"] \/ init' = [init EXCEPT !.at = "exit0"]
        BY <3>3 DEF InitReport
      <4>2. QED BY <4>1
    <3>4. QED BY <1>4, <3>1, <3>2, <3>3
  <2>2. \/ up' = up \/ up' = Append(up, "fault") \/ up' = Append(up, "stop")
        \/ up' = Append(up, "exit") /\ child = "ended"
    <3>1. CASE InitReport
      <4>1. \/ up' = up \/ up' = Append(up, "fault")
            \/ /\ up' = Append(up, InitVerdict(init)) /\ InitVerdict(init) \in {"stop", "exit"}
               /\ init.entered /\ init.at = "report"
        BY <3>1 DEF InitReport
      <4>2. InitVerdict(init) = "exit" => ~ init.fault /\ init.stop = "none" /\ init.status # "none"
        BY DEF InitVerdict
      <4>3. InitVerdict(init) = "exit" /\ init.entered /\ init.at = "report" => child = "ended"
        BY <4>2 DEF OwnedInv, EntryIsProven, ChildAlive
      <4>4. QED BY <1>0, <4>1, <4>3
    <3>2. CASE InitSetupFails \/ DeathSignal
      BY <3>2 DEF InitSetupFails, InitFatal, DeathSignal
    <3>3. QED BY <1>4, <3>1, <3>2
  <2>4. /\ init' \in InitRecord /\ init'.ready = init.ready /\ init'.eof = init.eof
        /\ init'.entered = init.entered /\ init'.fault = init.fault /\ init'.stop = init.stop
        /\ init'.status = init.status /\ ChildAlive' = ChildAlive /\ waiter' \in Waiters
        /\ init'.at = "exited" \/ (init'.at = "exit0" /\ init.at = "report")
    BY <1>0, <2>1 DEF ChildAlive, Waiters, InitRecord
  <2>5. waiter' # "success" /\ waiter' # "boot" /\ (child # "none" \/ init.at = "setup")
    BY <1>01, <2>1
  <2>6. /\ child' = "none" => init'.at \in {"none", "setup", "exited"}
        /\ child' = "killed" => init'.stop # "none" \/ init'.at \in {"exit0", "exited"}
        /\ init'.status = "none" /\ init'.at = "report" => init'.stop # "none"
        /\ init'.at \in {"read", "reap", "report"} => init.at \in {"read", "reap", "report"}
        /\ init'.at \in {"none", "setup"} => child' = "none" /\ init'.status = "none"
        /\ waiter' = "boot" => init'.at = "none"
        /\ waiter' = "success" => init'.at \in {"exit0", "exited"} /\ ~ ChildAlive'
        /\ child' = child /\ child' \in Children
    BY <1>0, <1>01, <2>1, <2>4, <2>5
  <2>7. UNCHANGED <<down, private, parent, artifacts>> /\ clock' \in 0 .. 3 /\ waiter' = waiter
    BY <1>0, <2>1
  <2>8. QED BY <2>2, <2>4, <2>6, <2>7, QuietKeeps
<1>5. CASE InitForks
  <2>1. /\ init.at = "setup" /\ init' = [init EXCEPT !.at = "read"] /\ child' = "prep"
        /\ UNCHANGED <<clock, up, down, private, parent, waiter, artifacts>>
    BY <1>5 DEF InitForks
  <2>2. child = "none" /\ ~ init.entered /\ init.status = "none"
    BY <1>01, <2>1
  <2>3. /\ init' \in InitRecord /\ init'.at = "read" /\ init'.ready = init.ready /\ init'.eof = init.eof
        /\ init'.entered = init.entered /\ init'.fault = init.fault /\ init'.stop = init.stop
        /\ init'.status = init.status /\ child' \in Children
    BY <1>0, <2>1 DEF Children, InitRecord
  <2>4. QED BY <1>0, <1>01, <2>1, <2>2, <2>3, QuietKeeps
<1>6. CASE InitReap
  BY <1>6, ReapKeeps
<1>7. CASE PayloadEnds \/ NamespaceDies
  <2>1. /\ \/ child = "payload" /\ child' = "ended"
           \/ init.at \in {"exit0", "exited"} /\ ChildAlive /\ child' = "killed"
        /\ UNCHANGED <<clock, up, down, private, parent, waiter, init, artifacts>>
    BY <1>7 DEF PayloadEnds, NamespaceDies
  <2>2. ~ ChildAlive' /\ child' \in Children /\ ChildAlive
    BY <2>1 DEF ChildAlive, Children
  <2>3. init.status = "none"
    BY <1>01, <2>2
  <2>4. QED BY <1>0, <1>01, <2>1, <2>2, <2>3, QuietKeeps
<1>8. CASE Tick \/ WaiterKilled \/ (DeathSignal /\ init' = init)
  <2>1. /\ clock' \in 0 .. 3 /\ (waiter' = waiter \/ (WaiterAlive /\ waiter' = "killed"))
        /\ UNCHANGED <<up, down, private, parent, init, child, artifacts>>
    <3>1. CASE Tick
      BY <1>0, <3>1 DEF Tick
    <3>2. CASE WaiterKilled
      BY <1>0, <3>2 DEF WaiterKilled
    <3>3. CASE DeathSignal /\ init' = init
      <4>1. init.at \in {"setup", "read", "reap", "report"} => init' # [init EXCEPT !.at = "exited"]
        BY <1>0, <3>3 DEF InitRecord
      <4>2. QED BY <1>0, <3>3, <4>1 DEF DeathSignal, InitAlive
    <3>4. QED BY <1>8, <3>1, <3>2, <3>3
  <2>2. ChildAlive' = ChildAlive /\ waiter' \in Waiters
    BY <1>0, <2>1 DEF ChildAlive, Waiters
  <2>3. /\ waiter' = "success" => init'.at \in {"exit0", "exited"} /\ ~ ChildAlive'
        /\ waiter' = "boot" => init'.at = "none"
        /\ waiter' = waiter \/ (WaiterAlive /\ waiter' # "boot")
    BY <1>01, <2>1, <2>2
  <2>4. /\ init' \in InitRecord /\ child' \in Children /\ child' = child
        /\ init'.ready = init.ready /\ init'.eof = init.eof /\ init'.entered = init.entered
        /\ init'.fault = init.fault /\ init'.stop = init.stop /\ init'.status = init.status
        /\ init'.at = init.at
    BY <1>0, <2>1
  <2>5. /\ child' = "none" => init'.at \in {"none", "setup", "exited"}
        /\ child' = "killed" => init'.stop # "none" \/ init'.at \in {"exit0", "exited"}
        /\ init'.status = "none" /\ init'.at = "report" => init'.stop # "none"
        /\ init'.at \in {"read", "reap", "report"} => init.at \in {"read", "reap", "report"}
        /\ init'.at \in {"none", "setup"} => child' = "none" /\ init'.status = "none"
    BY <1>01, <2>1
  <2>6. UNCHANGED <<down, private, parent, artifacts>> /\ up' = up /\ clock' \in 0 .. 3
    BY <2>1
  <2>7. QED BY <1>0, <2>2, <2>3, <2>4, <2>5, <2>6, QuietKeeps
<1>9. QED BY <1>1, <1>2, <1>3, <1>4, <1>5, <1>6, <1>7, <1>8

\* The child on its way to the payload.
LEMMA ChildMoves == ASSUME OwnedInv, ChildReady \/ ChildFails \/ ChildExecs PROVE OwnedInv'
<1> USE DEF OwnedInv
<1>1. /\ child \in {"prep", "ready"} /\ child' \in {"ready", "gone", "hang", "payload"}
      /\ child' = "payload" => child = "ready"
      /\ \/ private' = private /\ child' # "gone"
         \/ private' = Append(private, "entry") /\ child' = "ready"
         \/ private' = Append(private, "fault") /\ child' = "gone"
      /\ UNCHANGED <<clock, up, down, parent, waiter, init, artifacts>>
  <2>1. CASE ChildReady
    BY <2>1 DEF ChildReady
  <2>2. CASE ChildFails
    BY <2>2 DEF ChildFails
  <2>3. CASE ChildExecs
    BY <2>3 DEF ChildExecs
  <2>4. QED BY <2>1, <2>2, <2>3
<1>2. /\ private' \in Seq({"entry", "fault"})
      /\ child' = "gone" => \E i \in DOMAIN private' : private'[i] = "fault"
  <2>1. private \in Seq({"entry", "fault"}) /\ "entry" \in {"entry", "fault"} /\ "fault" \in {"entry", "fault"}
    BY DEF OwnedTypeOK
  <2>2. CASE private' = private /\ child' # "gone"
    BY <2>1, <2>2
  <2>3. CASE private' = Append(private, "entry") /\ child' = "ready"
    BY <2>1, <2>3, QueueIs
  <2>4. CASE private' = Append(private, "fault") /\ child' = "gone"
    BY <2>1, <2>4, QueueIs
  <2>5. QED BY <1>1, <2>2, <2>3, <2>4
<1>3. ChildAlive /\ ~ init.eof /\ init.status = "none" /\ waiter # "success"
  BY <1>1 DEF ChildAlive, ChildIsKnown, EntryIsProven, DeadStayDead
<1>4. OwnedTypeOK'
  BY <1>1, <1>2 DEF OwnedTypeOK, Children
<1>5. ChildIsKnown'
  BY <1>1, <1>2, <1>3 DEF ChildIsKnown
<1>6. EntryIsProven'
  BY <1>1, <1>3 DEF EntryIsProven
<1>7. TranscriptIsTrue'
  BY <1>1 DEF TranscriptIsTrue
<1>8. DeadStayDead'
  BY <1>1, <1>3 DEF DeadStayDead
<1>9. QED BY <1>4, <1>5, <1>6, <1>7, <1>8

\* What a read of the private pair leaves of init.
LEMMA PrivateReadIs ==
  ASSUME NEW i \in InitRecord, private \in Seq({"entry", "fault"})
  PROVE  /\ PrivateRead(i) \in InitRecord /\ PrivateRead(i).status = i.status
         /\ PrivateRead(i).entered = i.entered /\ PrivateRead(i).open = i.open
         /\ i.ready => PrivateRead(i).ready
         /\ i.fault => PrivateRead(i).fault
         /\ i.eof => PrivateRead(i).eof
         /\ i.stop # "none" => PrivateRead(i).stop # "none"
         /\ PrivateRead(i).ready => i.ready \/ private # <<>>
         /\ PrivateRead(i).eof => i.eof \/ PrivateEof
         /\ private # <<>> /\ PrivateRead(i) # i /\ Head(private) = "fault" => PrivateRead(i).fault
<1> DEFINE record == IF i.eof \/ ~ i.open \/ private = <<>> THEN "none" ELSE Head(private)
           ended == record = "none" /\ i.open /\ ~ i.eof /\ PrivateEof
           r == PrivateRead(i)
<1>1. record \in {"none", "entry", "fault"} /\ ended \in BOOLEAN
      /\ (private # <<>> /\ Head(private) = "fault" => record \in {"none", "fault"})
      /\ (record # "none" => private # <<>>)
      /\ (ended => PrivateEof /\ record = "none")
      /\ (private # <<>> => ~ ended)
  BY DEF PrivateEof
<1>2. r = CASE record = "entry" /\ ~ i.ready /\ ~ i.fault -> [i EXCEPT !.ready = TRUE]
          [] record = "fault" /\ ~ i.fault -> [i EXCEPT !.fault = TRUE]
          [] record \in {"entry", "fault"} /\ (i.fault \/ (record = "entry" /\ i.ready)) ->
               [i EXCEPT !.fault = TRUE, !.stop = "observation"]
          [] ended -> [i EXCEPT !.eof = TRUE, !.fault = i.fault \/ (~ i.entered /\ ~ i.ready),
                         !.stop = IF i.fault \/ i.entered \/ i.ready THEN i.stop ELSE "observation"]
          [] record = "none" /\ ~ ended -> i
  BY Zenon DEF PrivateRead
<1> HIDE DEF record, ended, r
<1>3. CASE record = "entry" /\ ~ i.ready /\ ~ i.fault
  <2>1. r = [i EXCEPT !.ready = TRUE]
    BY <1>1, <1>2, <1>3
  <2>2. /\ r \in InitRecord /\ r.status = i.status /\ r.entered = i.entered /\ r.open = i.open
        /\ r.fault = i.fault /\ r.eof = i.eof /\ r.stop = i.stop /\ r.ready
    BY <2>1 DEF InitRecord
  <2>3. QED BY <1>1, <1>3, <2>2 DEF r
<1>4. CASE record = "fault" /\ ~ i.fault
  <2>1. r = [i EXCEPT !.fault = TRUE]
    BY <1>1, <1>2, <1>4
  <2>2. /\ r \in InitRecord /\ r.status = i.status /\ r.entered = i.entered /\ r.open = i.open
        /\ r.fault /\ r.eof = i.eof /\ r.stop = i.stop /\ r.ready = i.ready
    BY <2>1 DEF InitRecord
  <2>3. QED BY <1>1, <1>4, <2>2 DEF r
<1>5. CASE record \in {"entry", "fault"} /\ (i.fault \/ (record = "entry" /\ i.ready))
  <2>1. r = [i EXCEPT !.fault = TRUE, !.stop = "observation"]
    BY <1>1, <1>2, <1>5
  <2>2. /\ r \in InitRecord /\ r.status = i.status /\ r.entered = i.entered /\ r.open = i.open
        /\ r.fault /\ r.eof = i.eof /\ r.stop = "observation" /\ r.ready = i.ready
    BY <2>1 DEF InitRecord, Stops
  <2>3. QED BY <1>1, <1>5, <2>2 DEF r
<1>6. CASE ended
  <2>1. r = [i EXCEPT !.eof = TRUE, !.fault = i.fault \/ (~ i.entered /\ ~ i.ready),
                      !.stop = IF i.fault \/ i.entered \/ i.ready THEN i.stop ELSE "observation"]
    BY <1>1, <1>2, <1>6
  <2>2. /\ r \in InitRecord /\ r.status = i.status /\ r.entered = i.entered /\ r.open = i.open
        /\ i.fault => r.fault
        /\ r.eof /\ r.stop \in {i.stop, "observation"} /\ r.ready = i.ready
    BY <2>1 DEF InitRecord, Stops
  <2>3. QED BY <1>1, <1>6, <2>2 DEF r
<1>7. CASE record = "none" /\ ~ ended
  <2>1. r = i
    BY <1>1, <1>2, <1>7
  <2>2. QED BY <1>1, <1>7, <2>1 DEF r
<1>8. QED BY <1>1, <1>3, <1>4, <1>5, <1>6, <1>7

\* What init makes of one round of reads: what it has seen, whether it publishes
\* the entry, and what is left of the private pair.
LEMMA InitReadIs ==
  ASSUME OwnedInv, InitRead
  PROVE  \E seen \in InitRecord : \E publishes \in BOOLEAN : \E open \in BOOLEAN :
           /\ seen.status = init.status /\ seen.entered = init.entered
           /\ init.ready => seen.ready
           /\ init.fault => seen.fault
           /\ init.eof => seen.eof
           /\ init.stop # "none" => seen.stop # "none"
           /\ seen.ready => init.ready \/ private # <<>>
           /\ seen.eof => init.eof \/ PrivateEof
           /\ publishes => ~ seen.fault /\ seen.ready /\ (seen.eof \/ seen.stop # "none")
           /\ \/ private' = private
              \/ private # <<>> /\ private' = Tail(private) /\ (Head(private) = "fault" => seen.fault)
           /\ \/ /\ up' = IF publishes THEN Append(up, "entry") ELSE up
                 /\ init' = [seen EXCEPT !.entered = seen.entered \/ publishes, !.at = "reap", !.open = open]
              \/ /\ publishes /\ (up' = up \/ up' = Append(up, "fault"))
                 /\ init' = [init EXCEPT !.at = "exited"]
           /\ down' \in Seq({"stop"})
<1> DEFINE stopped == [init EXCEPT !.stop = StopSeen]
           settled == stopped.stop # "none" /\ (private = << >> \/ stopped.fault)
           seen == IF stopped.stop # "none" /\ stopped.fault /\ ~ stopped.ready THEN stopped
                   ELSE PrivateRead(stopped)
           publishes == EntryReadyToPublish(seen, settled)
           closes == seen.open /\ (seen.eof \/ settled \/ seen.stop = "observation")
           open == seen.open /\ ~ closes /\ ~ publishes
<1>1. /\ down' = IF init.stop = "none" THEN << >> ELSE down
      /\ private' = IF private # << >> /\ init.open /\ seen # stopped THEN Tail(private) ELSE private
      /\ \/ /\ up' = IF publishes THEN Append(up, "entry") ELSE up
            /\ init' = [seen EXCEPT !.entered = seen.entered \/ publishes, !.at = "reap", !.open = open]
         \/ publishes /\ InitFatal
  BY DEF InitRead
<1>2. /\ init \in InitRecord /\ private \in Seq({"entry", "fault"}) /\ down \in Seq({"stop"})
  BY DEF OwnedInv, OwnedTypeOK
<1>3. StopSeen \in Stops /\ (init.stop # "none" => StopSeen # "none")
  <2>1. init.stop \in Stops
    BY <1>2 DEF InitRecord
  <2>2. down # <<>> => Head(down) \in {"stop"}
    BY <1>2, QueueIs
  <2>3. QED BY <2>1, <2>2 DEF StopSeen, Stops
<1>4. /\ stopped \in InitRecord /\ stopped.stop = StopSeen /\ stopped.status = init.status
      /\ stopped.entered = init.entered /\ stopped.ready = init.ready /\ stopped.fault = init.fault
      /\ stopped.eof = init.eof /\ stopped.open = init.open
  BY <1>2, <1>3 DEF InitRecord
<1> HIDE DEF stopped
<1>5. /\ seen \in InitRecord /\ seen.status = init.status /\ seen.entered = init.entered
      /\ init.ready => seen.ready
      /\ init.fault => seen.fault
      /\ init.eof => seen.eof
      /\ init.stop # "none" => seen.stop # "none"
      /\ seen.ready => init.ready \/ private # <<>>
      /\ seen.eof => init.eof \/ PrivateEof
      /\ private # <<>> /\ seen # stopped /\ Head(private) = "fault" => seen.fault
  <2>1. CASE seen = stopped
    BY <1>3, <1>4, <2>1
  <2>2. CASE seen = PrivateRead(stopped)
    BY <1>2, <1>3, <1>4, <2>2, PrivateReadIs
  <2>3. QED BY <2>1, <2>2
<1> HIDE DEF seen, settled
<1>6. publishes \in BOOLEAN /\ (publishes => ~ seen.fault /\ seen.ready /\ (seen.eof \/ seen.stop # "none"))
  BY DEF EntryReadyToPublish
<1> HIDE DEF publishes
<1>7. open \in BOOLEAN
  BY <1>5, <1>6 DEF InitRecord
<1>8. down' \in Seq({"stop"})
  BY <1>1, <1>2
<1>9. \/ private' = private
      \/ private # <<>> /\ private' = Tail(private) /\ (Head(private) = "fault" => seen.fault)
  BY <1>1, <1>5
<1> HIDE DEF open
<1>10. \/ /\ up' = IF publishes THEN Append(up, "entry") ELSE up
          /\ init' = [seen EXCEPT !.entered = seen.entered \/ publishes, !.at = "reap", !.open = open]
       \/ /\ publishes /\ (up' = up \/ up' = Append(up, "fault"))
          /\ init' = [init EXCEPT !.at = "exited"]
  BY <1>1 DEF InitFatal
<1>11. QED BY <1>5, <1>6, <1>7, <1>8, <1>9, <1>10

\* Init's reads: an entry is published of a child that is fenced and, unless it
\* was told to stop, has executed.
LEMMA InitReadKeeps == ASSUME OwnedInv, InitRead PROVE OwnedInv'
<1> USE DEF OwnedInv
<1>1. PICK seen \in InitRecord, publishes \in BOOLEAN, open \in BOOLEAN :
           /\ seen.status = init.status /\ seen.entered = init.entered
           /\ init.ready => seen.ready
           /\ init.fault => seen.fault
           /\ init.eof => seen.eof
           /\ init.stop # "none" => seen.stop # "none"
           /\ seen.ready => init.ready \/ private # <<>>
           /\ seen.eof => init.eof \/ PrivateEof
           /\ publishes => ~ seen.fault /\ seen.ready /\ (seen.eof \/ seen.stop # "none")
           /\ \/ private' = private
              \/ private # <<>> /\ private' = Tail(private) /\ (Head(private) = "fault" => seen.fault)
           /\ \/ /\ up' = IF publishes THEN Append(up, "entry") ELSE up
                 /\ init' = [seen EXCEPT !.entered = seen.entered \/ publishes, !.at = "reap", !.open = open]
              \/ /\ publishes /\ (up' = up \/ up' = Append(up, "fault"))
                 /\ init' = [init EXCEPT !.at = "exited"]
           /\ down' \in Seq({"stop"})
  BY InitReadIs
<1>2. init.at = "read" /\ UNCHANGED <<clock, parent, waiter, child, artifacts>>
  BY DEF InitRead
<1>3. /\ init \in InitRecord /\ private \in Seq({"entry", "fault"}) /\ up \in Seq(LaunchFrames)
      /\ child \in Children
  BY DEF OwnedTypeOK
<1>4. /\ private' \in Seq({"entry", "fault"})
      /\ private = <<>> => private' = <<>>
      /\ (\E i \in DOMAIN private : private[i] = "fault") =>
             seen.fault \/ \E i \in DOMAIN private' : private'[i] = "fault"
  <2>1. CASE private' = private
    BY <1>3, <2>1
  <2>2. CASE private # <<>> /\ private' = Tail(private) /\ (Head(private) = "fault" => seen.fault)
    <3>1. /\ Tail(private) \in Seq({"entry", "fault"})
          /\ \A j \in DOMAIN private : \/ private[j] = Head(private)
                                      \/ \E i \in DOMAIN Tail(private) : Tail(private)[i] = private[j]
      BY <1>3, <2>2, QueueIs
    <3>2. ASSUME NEW j \in DOMAIN private, private[j] = "fault"
          PROVE  seen.fault \/ \E i \in DOMAIN private' : private'[i] = "fault"
      <4>1. CASE private[j] = Head(private)
        BY <2>2, <3>2, <4>1
      <4>2. CASE \E i \in DOMAIN Tail(private) : Tail(private)[i] = private[j]
        BY <2>2, <3>2, <4>2
      <4>3. QED BY <3>1, <4>1, <4>2
    <3>3. QED BY <2>2, <3>1, <3>2
  <2>3. QED BY <1>1, <2>1, <2>2
<1>5. /\ up' \in Seq(LaunchFrames)
      /\ \A i \in DOMAIN up' : \/ up'[i] = "fault" \/ (up'[i] = "entry" /\ publishes /\ init'.entered)
                               \/ \E j \in DOMAIN up : up[j] = up'[i]
  <2>1. "entry" \in LaunchFrames /\ "fault" \in LaunchFrames
    BY DEF LaunchFrames
  <2>2. CASE up' = up
    BY <1>3, <2>2
  <2>3. CASE up' = Append(up, "entry") /\ publishes /\ init'.entered
    BY <1>3, <2>1, <2>3, FaultIsMore
  <2>4. CASE up' = Append(up, "fault")
    BY <1>3, <2>1, <2>4, FaultIsMore
  <2>5. publishes /\ init' = [seen EXCEPT !.entered = seen.entered \/ publishes, !.at = "reap", !.open = open]
           => init'.entered
    BY DEF InitRecord
  <2>6. QED BY <1>1, <2>2, <2>3, <2>4, <2>5
<1>6. /\ init' \in InitRecord /\ init'.status = init.status /\ init'.at \in {"reap", "exited"}
      /\ init.entered => init'.entered
      /\ \/ /\ init'.at = "reap" /\ init'.ready = seen.ready /\ init'.eof = seen.eof
            /\ init'.fault = seen.fault /\ init'.stop = seen.stop
            /\ init'.entered <=> init.entered \/ publishes
         \/ /\ init'.at = "exited" /\ publishes /\ init'.ready = init.ready /\ init'.eof = init.eof
            /\ init'.fault = init.fault /\ init'.stop = init.stop /\ init'.entered = init.entered
  <2>1. CASE init' = [seen EXCEPT !.entered = seen.entered \/ publishes, !.at = "reap", !.open = open]
    BY <1>1, <1>3, <2>1 DEF InitRecord
  <2>2. CASE publishes /\ init' = [init EXCEPT !.at = "exited"]
    BY <1>3, <2>2 DEF InitRecord
  <2>3. QED BY <1>1, <2>1, <2>2
<1>7. OwnedTypeOK'
  BY <1>1, <1>2, <1>4, <1>5, <1>6 DEF OwnedTypeOK
<1>8. /\ child \notin {"none"} /\ waiter # "boot"
      /\ child = "prep" => private = <<>> /\ ~ init.ready /\ ~ init.entered
      /\ seen.eof => private = <<>> /\ child \in {"payload", "ended", "gone", "killed"}
      /\ child = "killed" => init.stop # "none"
  BY <1>1, <1>2, <1>3 DEF ChildIsKnown, EntryIsProven, PrivateEof, Children
<1>9. child = "gone" => init'.fault \/ \E i \in DOMAIN private' : private'[i] = "fault"
  BY <1>1, <1>4, <1>6 DEF ChildIsKnown
<1>10. ChildIsKnown'
  BY <1>1, <1>2, <1>4, <1>6, <1>8, <1>9 DEF ChildIsKnown
<1>11. init'.at = "reap" /\ init'.entered /\ init'.stop = "none" /\ ~ init'.fault => child \in {"payload", "ended"}
  <2>1. CASE init.entered
    BY <1>1, <1>2, <1>6, <2>1 DEF EntryIsProven
  <2>2. CASE ~ init.entered
    <3>1. SUFFICES ASSUME init'.at = "reap", init'.entered, init'.stop = "none", ~ init'.fault
                   PROVE  child \in {"payload", "ended"}
      OBVIOUS
    <3>2. publishes /\ seen.eof /\ seen.stop = "none" /\ private = <<>>
      BY <1>1, <1>6, <1>8, <2>2, <3>1
    <3>3. private' = <<>> /\ DOMAIN private' = {}
      BY <1>4, <3>2, QueueIs
    <3>4. child # "gone" /\ child # "killed"
      BY <1>1, <1>8, <1>9, <3>1, <3>2, <3>3
    <3>5. QED BY <1>8, <3>2, <3>4
  <2>3. QED BY <2>1, <2>2
<1>12. EntryIsProven'
  <2>1. init'.entered => init'.ready /\ (init'.eof \/ init'.stop # "none")
    BY <1>1, <1>6 DEF EntryIsProven
  <2>2. init'.eof => private' = <<>>
    BY <1>1, <1>4, <1>6, <1>8 DEF EntryIsProven
  <2>3. init'.status # "none" => ~ ChildAlive' /\ init'.status = child'
    BY <1>2, <1>6 DEF EntryIsProven, ChildAlive
  <2>4. QED BY <1>2, <1>6, <1>11, <2>1, <2>2, <2>3 DEF EntryIsProven
<1>13. TranscriptIsTrue'
  BY <1>2, <1>5, <1>6 DEF TranscriptIsTrue
<1>14. DeadStayDead'
  BY <1>2 DEF DeadStayDead
<1>15. QED BY <1>7, <1>10, <1>12, <1>13, <1>14

\* What a frame does to the executor's sequence: it never touches the exit status
\* nor the result, and the sequence takes from it only what it says.
LEMMA PushIs ==
  ASSUME NEW p \in ParentRecord, NEW frame \in LaunchFrames
  PROVE  /\ Push(p, frame) \in ParentRecord /\ Push(p, frame).at = p.at
         /\ Push(p, frame).reaped = p.reaped /\ Push(p, frame).result = p.result
         /\ Push(p, frame).entry => p.entry \/ frame = "entry"
         /\ Push(p, frame).terminal = "exit" => p.terminal = "exit" \/ frame = "exit"
         /\ p.terminal = "exit" => Push(p, frame).terminal = "exit"
<1> DEFINE enters == frame = "entry" /\ ~ p.entry /\ ~ p.fault /\ p.terminal = "none"
           faults == frame = "fault" /\ ~ p.entry /\ ~ p.fault
           breaks == frame = "fault" /\ p.entry /\ p.terminal = "none"
           ends == frame \in {"exit", "stop"} /\ p.entry /\ p.terminal = "none"
           r == Push(p, frame)
<1>1. /\ enters => frame = "entry"
      /\ faults => frame = "fault" /\ ~ enters
      /\ breaks => frame = "fault" /\ p.terminal = "none" /\ ~ enters /\ ~ faults
      /\ ends => frame \in {"exit", "stop"} /\ p.terminal = "none" /\ ~ enters /\ ~ faults /\ ~ breaks
      /\ enters \in BOOLEAN /\ faults \in BOOLEAN /\ breaks \in BOOLEAN /\ ends \in BOOLEAN
  OBVIOUS
<1>2. r = IF p.lost THEN p
          ELSE CASE enters -> [p EXCEPT !.entry = TRUE]
                 [] faults -> [p EXCEPT !.primary = TRUE, !.fault = TRUE]
                 [] breaks -> [p EXCEPT !.primary = TRUE, !.fault = TRUE, !.terminal = frame]
                 [] ends -> [p EXCEPT !.terminal = frame]
                 [] ~ (enters \/ faults \/ breaks \/ ends) -> [p EXCEPT !.lost = TRUE, !.primary = TRUE]
  BY Zenon DEF Push
<1> HIDE DEF enters, faults, breaks, ends, r
<1>3. \/ r = p
      \/ enters /\ r = [p EXCEPT !.entry = TRUE]
      \/ r = [p EXCEPT !.primary = TRUE, !.fault = TRUE]
      \/ breaks /\ r = [p EXCEPT !.primary = TRUE, !.fault = TRUE, !.terminal = frame]
      \/ ends /\ r = [p EXCEPT !.terminal = frame]
      \/ r = [p EXCEPT !.lost = TRUE, !.primary = TRUE]
  BY <1>1, <1>2
<1>4. /\ r \in ParentRecord /\ r.at = p.at /\ r.reaped = p.reaped /\ r.result = p.result
      /\ r.entry = p.entry \/ enters
      /\ r.terminal = p.terminal \/ (r.terminal = frame /\ (breaks \/ ends))
  <2>1. CASE r = p
    BY <2>1
  <2>2. CASE enters /\ r = [p EXCEPT !.entry = TRUE]
    BY <2>2 DEF ParentRecord
  <2>3. CASE r = [p EXCEPT !.primary = TRUE, !.fault = TRUE]
    BY <2>3 DEF ParentRecord
  <2>4. CASE breaks /\ r = [p EXCEPT !.primary = TRUE, !.fault = TRUE, !.terminal = frame]
    BY <1>1, <2>4 DEF ParentRecord
  <2>5. CASE ends /\ r = [p EXCEPT !.terminal = frame]
    BY <1>1, <2>5 DEF ParentRecord
  <2>6. CASE r = [p EXCEPT !.lost = TRUE, !.primary = TRUE]
    BY <2>6 DEF ParentRecord
  <2>7. QED BY <1>3, <2>1, <2>2, <2>3, <2>4, <2>5, <2>6
<1>5. QED BY <1>1, <1>4 DEF r

\* The executor's reads, its observation that fails and its death: what it takes
\* from the socket is what init wrote.
LEMMA ParentMoves ==
  ASSUME OwnedInv, ParentRead \/ ParentObservationFails \/ ParentDies PROVE OwnedInv'
<1> USE DEF OwnedInv
<1>0. parent \in ParentRecord /\ up \in Seq(LaunchFrames)
  BY DEF OwnedTypeOK
<1>1. /\ UNCHANGED <<clock, down, private, waiter, init, child, artifacts>>
      /\ up' \in Seq(LaunchFrames) /\ \A i \in DOMAIN up' : \E j \in DOMAIN up : up[j] = up'[i]
      /\ parent' \in ParentRecord /\ parent'.reaped = parent.reaped /\ parent'.result = parent.result
      /\ parent'.entry => parent.entry \/ \E j \in DOMAIN up : up[j] = "entry"
      /\ parent'.terminal = "exit" => parent.terminal = "exit" \/ \E j \in DOMAIN up : up[j] = "exit"
      /\ parent.terminal = "exit" => parent'.terminal = "exit"
  <2>1. CASE ParentRead
    <3>1. PICK cancel \in {"none", "cancelled"} :
            LET requested == IF parent.primary \/ parent.requested # "none" THEN parent.requested
                             ELSE IF cancel # "none" THEN cancel
                             ELSE IF clock > 0 THEN "deadline" ELSE "none"
                wanted == [parent EXCEPT !.requested = requested, !.at = "act"]
            IN  parent' = IF up # << >> /\ ~ parent.eof THEN Push(wanted, Head(up))
                          ELSE [wanted EXCEPT !.eof = wanted.eof \/ ControlEof]
      BY <2>1 DEF ParentRead
    <3> DEFINE requested == IF parent.primary \/ parent.requested # "none" THEN parent.requested
                            ELSE IF cancel # "none" THEN cancel
                            ELSE IF clock > 0 THEN "deadline" ELSE "none"
               wanted == [parent EXCEPT !.requested = requested, !.at = "act"]
    <3>2. parent' = IF up # << >> /\ ~ parent.eof THEN Push(wanted, Head(up))
                    ELSE [wanted EXCEPT !.eof = wanted.eof \/ ControlEof]
      BY <3>1
    <3>3. requested \in {"none", "cancelled", "deadline"}
      BY <1>0 DEF ParentRecord
    <3> HIDE DEF requested
    <3>4. /\ wanted \in ParentRecord /\ wanted.reaped = parent.reaped /\ wanted.result = parent.result
          /\ wanted.entry = parent.entry /\ wanted.terminal = parent.terminal
      BY <1>0, <3>3 DEF ParentRecord
    <3> HIDE DEF wanted
    <3>5. /\ UNCHANGED <<clock, down, private, waiter, init, child, artifacts>>
          /\ up' = IF up # << >> /\ ~ parent.eof THEN Tail(up) ELSE up
      BY <2>1 DEF ParentRead
    <3>6. CASE up # <<>> /\ ~ parent.eof
      <4>1. /\ Head(up) \in LaunchFrames /\ Tail(up) \in Seq(LaunchFrames)
            /\ \E j \in DOMAIN up : up[j] = Head(up)
            /\ \A i \in DOMAIN Tail(up) : \E j \in DOMAIN up : up[j] = Tail(up)[i]
        BY <1>0, <3>6, QueueIs
      <4>2. parent' = Push(wanted, Head(up)) /\ up' = Tail(up)
        BY <3>2, <3>5, <3>6
      <4>3. /\ parent' \in ParentRecord
            /\ parent'.reaped = wanted.reaped /\ parent'.result = wanted.result
            /\ parent'.entry => wanted.entry \/ Head(up) = "entry"
            /\ parent'.terminal = "exit" => wanted.terminal = "exit" \/ Head(up) = "exit"
            /\ wanted.terminal = "exit" => parent'.terminal = "exit"
        BY <3>4, <4>1, <4>2, PushIs
      <4>4. (Head(up) = "entry" => \E j \in DOMAIN up : up[j] = "entry")
            /\ (Head(up) = "exit" => \E j \in DOMAIN up : up[j] = "exit")
        BY <4>1
      <4>5. QED BY <3>4, <3>5, <4>1, <4>2, <4>3, <4>4
    <3>7. CASE ~ (up # <<>> /\ ~ parent.eof)
      <4>1. parent' = [wanted EXCEPT !.eof = wanted.eof \/ ControlEof] /\ up' = up
        BY <3>2, <3>5, <3>7
      <4>2. ControlEof \in BOOLEAN
        BY DEF ControlEof
      <4>3. /\ parent' \in ParentRecord /\ parent'.reaped = wanted.reaped /\ parent'.result = wanted.result
            /\ parent'.entry = wanted.entry /\ parent'.terminal = wanted.terminal
        BY <3>4, <4>1, <4>2 DEF ParentRecord
      <4>4. QED BY <1>0, <3>4, <3>5, <4>1, <4>3
    <3>8. QED BY <3>6, <3>7
  <2>2. CASE ParentObservationFails
    <3>1. /\ parent' = [parent EXCEPT !.primary = TRUE, !.lost = TRUE]
          /\ UNCHANGED <<clock, up, down, private, waiter, init, child, artifacts>>
      BY <2>2 DEF ParentObservationFails
    <3>2. QED BY <1>0, <3>1 DEF ParentRecord
  <2>3. CASE ParentDies
    <3>1. /\ parent' = [parent EXCEPT !.at = "dead"]
          /\ UNCHANGED <<clock, up, down, private, waiter, init, child, artifacts>>
      BY <2>3 DEF ParentDies
    <3>2. QED BY <1>0, <3>1 DEF ParentRecord
  <2>4. QED BY <2>1, <2>2, <2>3
<1>2. OwnedTypeOK'
  BY <1>1 DEF OwnedTypeOK
<1>3. ChildIsKnown' /\ EntryIsProven'
  BY <1>1 DEF ChildIsKnown, EntryIsProven, ChildAlive
<1>4. TranscriptIsTrue'
  BY <1>1 DEF TranscriptIsTrue
<1>5. DeadStayDead'
  BY <1>1 DEF DeadStayDead, ChildAlive
<1>6. QED BY <1>2, <1>3, <1>4, <1>5

\* The end of the executor's loop: an exit is a result only of a sequence that ends in one.
LEMMA ConcludedIs ==
  ASSUME NEW p \in ParentRecord
  PROVE  /\ Concluded(p) \in ParentRecord /\ Concluded(p).reaped = p.reaped
         /\ Concluded(p).entry = p.entry /\ Concluded(p).terminal = p.terminal
         /\ Concluded(p).result = "exited" => p.terminal = "exit"
<1> DEFINE result == IF ~ Released(p) THEN IF p.requested = "deadline" THEN "timeout" ELSE "unproven"
                     ELSE IF p.primary THEN "error"
                     ELSE IF p.requested = "cancelled" THEN "stopped"
                     ELSE IF p.terminal = "exit" THEN "exited" ELSE "timeout"
<1>1. Concluded(p) = [p EXCEPT !.at = "done", !.result = result]
  BY DEF Concluded
<1>2. /\ result \in {"none", "timeout", "unproven", "error", "stopped", "exited"}
      /\ result = "exited" => p.terminal = "exit"
  OBVIOUS
<1> HIDE DEF result
<1>3. QED BY <1>1, <1>2 DEF ParentRecord

\* The executor's acts: it learns the waiter's end only when the waiter has ended,
\* and removes the artifacts of a launch whose transcript is released.
LEMMA ParentActs == ASSUME OwnedInv, ParentAct PROVE OwnedInv'
<1> DEFINE ending == (parent.primary \/ parent.requested # "none") /\ parent.reaped = "none"
           sends == ending /\ parent.entry /\ parent.terminal = "none" /\ ~ parent.stopSent
           known == parent.fault /\ parent.requested = "none"
           kills == /\ ending /\ ~ parent.emergency
                    /\ \/ ~ known /\ ~ (parent.stopSent \/ sends) /\ parent.terminal = "none"
                       \/ clock >= 2
           acted == [parent EXCEPT !.stopSent = parent.stopSent \/ sends,
                       !.emergency = parent.emergency \/ kills, !.lost = parent.lost \/ kills,
                       !.reaped = IF WaiterAlive THEN parent.reaped ELSE waiter]
           end == LoopEnd(acted)
           kept == [acted EXCEPT !.eof = acted.eof \/ GraceKeeps(acted),
                                 !.lost = acted.lost \/ ~ GraceKeeps(acted)]
<1>1. /\ down' = IF sends THEN Append(down, "stop") ELSE down
      /\ waiter' = IF kills /\ parent.pidfd /\ WaiterAlive THEN "killed" ELSE waiter
      /\ parent' = CASE end = "drained" -> Concluded(acted)
                     [] end = "grace" -> Concluded(kept)
                     [] end = "none" -> [acted EXCEPT !.at = "read"]
      /\ artifacts' = IF end # "none" /\ Released(IF end = "drained" THEN acted ELSE kept)
                      THEN "removed" ELSE artifacts
      /\ UNCHANGED <<clock, up, private, init, child>>
  BY Zenon DEF ParentAct
<1>2. /\ parent \in ParentRecord /\ waiter \in Waiters /\ down \in Seq({"stop"})
      /\ parent.result = "exited" => parent.terminal = "exit"
      /\ parent.reaped # "none" => waiter = parent.reaped
      /\ artifacts = "removed" => parent.reaped = "success"
  BY DEF OwnedInv, OwnedTypeOK, TranscriptIsTrue, DeadStayDead
<1>3. sends \in BOOLEAN /\ kills \in BOOLEAN
  BY <1>2 DEF ParentRecord
<1> HIDE DEF sends, kills
<1>4. /\ acted \in ParentRecord /\ acted.entry = parent.entry /\ acted.terminal = parent.terminal
      /\ acted.result = parent.result
      /\ acted.reaped = IF WaiterAlive THEN parent.reaped ELSE waiter
  <2> DEFINE reaped == IF WaiterAlive THEN parent.reaped ELSE waiter
             sent == parent.stopSent \/ sends
             emergency == parent.emergency \/ kills
             lost == parent.lost \/ kills
  <2>1. reaped \in {"none", "success", "failed", "killed"}
    BY <1>2 DEF ParentRecord, WaiterAlive, Waiters
  <2>2. sent \in BOOLEAN /\ emergency \in BOOLEAN /\ lost \in BOOLEAN
    BY <1>2, <1>3 DEF ParentRecord
  <2>3. acted = [parent EXCEPT !.stopSent = sent, !.emergency = emergency, !.lost = lost, !.reaped = reaped]
    OBVIOUS
  <2> HIDE DEF acted, reaped, sent, emergency, lost
  <2>4. acted \in ParentRecord
    <3>1. /\ parent.at \in {"read", "act", "done", "dead"} /\ parent.pidfd \in BOOLEAN
          /\ parent.primary \in BOOLEAN /\ parent.fault \in BOOLEAN
          /\ parent.requested \in {"none", "cancelled", "deadline"} /\ parent.eof \in BOOLEAN
          /\ parent.entry \in BOOLEAN /\ parent.terminal \in {"none", "fault", "exit", "stop"}
          /\ parent.result \in {"none", "timeout", "unproven", "error", "stopped", "exited"}
      BY <1>2 DEF ParentRecord
    <3>2. acted = [at |-> parent.at, pidfd |-> parent.pidfd, primary |-> parent.primary, fault |-> parent.fault,
                   requested |-> parent.requested, stopSent |-> sent, emergency |-> emergency,
                   eof |-> parent.eof, reaped |-> reaped, lost |-> lost, entry |-> parent.entry,
                   terminal |-> parent.terminal, result |-> parent.result]
      BY <1>2, <2>3 DEF ParentRecord
    <3>3. QED BY <2>1, <2>2, <3>1, <3>2 DEF ParentRecord
  <2>5. /\ acted.entry = parent.entry /\ acted.terminal = parent.terminal
        /\ acted.result = parent.result /\ acted.reaped = reaped
    BY <1>2, <2>3 DEF ParentRecord
  <2>6. QED BY <2>4, <2>5 DEF reaped
<1> HIDE DEF acted
<1>5. /\ kept \in ParentRecord /\ kept.entry = acted.entry /\ kept.terminal = acted.terminal
      /\ kept.reaped = acted.reaped
  <2>1. GraceKeeps(acted) \in BOOLEAN
    BY <1>4 DEF GraceKeeps
  <2>2. QED BY <1>4, <2>1 DEF ParentRecord
<1> HIDE DEF kept
<1>6. end \in {"drained", "grace", "none"}
  BY DEF LoopEnd
<1> HIDE DEF end
<1>7. /\ parent' \in ParentRecord /\ parent'.entry = parent.entry /\ parent'.terminal = parent.terminal
      /\ parent'.reaped = acted.reaped
      /\ parent'.result = "exited" => parent'.terminal = "exit"
  <2>1. CASE end = "drained"
    <3>1. parent' = Concluded(acted)
      BY <1>1, <2>1
    <3>2. QED BY <1>4, <3>1, ConcludedIs
  <2>2. CASE end = "grace"
    <3>1. parent' = Concluded(kept)
      BY <1>1, <2>2
    <3>2. QED BY <1>4, <1>5, <3>1, ConcludedIs
  <2>3. CASE end = "none"
    <3>1. parent' = [acted EXCEPT !.at = "read"]
      BY <1>1, <2>3
    <3>2. QED BY <1>2, <1>4, <3>1 DEF ParentRecord
  <2>4. QED BY <1>6, <2>1, <2>2, <2>3
<1>8. /\ waiter' = waiter \/ (WaiterAlive /\ waiter' = "killed")
      /\ down' \in Seq({"stop"}) /\ waiter' \in Waiters
  BY <1>1, <1>2, QueueIs DEF Waiters
<1>9. artifacts' = artifacts \/ (artifacts' = "removed" /\ acted.reaped = "success")
  BY <1>1, <1>5 DEF Released
<1>10. parent.reaped # "none" => ~ WaiterAlive
  BY <1>2 DEF WaiterAlive, ParentRecord
<1>11. parent'.reaped # "none" => waiter' = parent'.reaped /\ ~ WaiterAlive
  BY <1>2, <1>4, <1>7, <1>8, <1>10
<1>12. OwnedTypeOK'
  BY <1>1, <1>7, <1>8 DEF OwnedInv, OwnedTypeOK
<1>13. ChildIsKnown' /\ EntryIsProven'
  <2>1. waiter' = "boot" => waiter = "boot"
    BY <1>8
  <2>2. QED BY <1>1, <2>1 DEF OwnedInv, ChildIsKnown, EntryIsProven, ChildAlive
<1>14. TranscriptIsTrue'
  BY <1>1, <1>7 DEF OwnedInv, TranscriptIsTrue
<1>15. DeadStayDead'
  <2>1. waiter' = "success" => waiter = "success"
    BY <1>8
  <2>2. artifacts' = "removed" => parent'.reaped = "success"
    BY <1>2, <1>4, <1>7, <1>9, <1>10
  <2>3. QED BY <1>1, <1>11, <2>1, <2>2 DEF OwnedInv, DeadStayDead, ChildAlive
<1>16. QED BY <1>12, <1>13, <1>14, <1>15 DEF OwnedInv

\* A launch as it is spawned.
LEMMA OwnedStarts == ASSUME OwnedInit PROVE OwnedInv
<1>1. /\ clock = 0 /\ up = << >> /\ down = << >> /\ private = << >> /\ artifacts = "kept"
      /\ waiter = "boot" /\ child = "none"
      /\ init = [at |-> "none", ready |-> FALSE, eof |-> FALSE, open |-> TRUE, fault |-> FALSE,
                 entered |-> FALSE, stop |-> "none", status |-> "none"]
  BY DEF OwnedInit
<1>2. PICK pidfd \in BOOLEAN :
         parent = [at |-> "read", pidfd |-> pidfd, primary |-> ~ pidfd, fault |-> FALSE,
                   requested |-> "none", stopSent |-> FALSE, emergency |-> FALSE,
                   eof |-> FALSE, reaped |-> "none", lost |-> FALSE,
                   entry |-> FALSE, terminal |-> "none", result |-> "none"]
  BY DEF OwnedInit
<1>3. /\ up \in Seq(LaunchFrames) /\ down \in Seq({"stop"}) /\ private \in Seq({"entry", "fault"})
      /\ DOMAIN up = {}
  BY <1>1, QueueIs
<1>4. parent \in ParentRecord /\ ~ parent.entry /\ parent.reaped = "none" /\ parent.result = "none"
      /\ parent.terminal = "none"
  BY <1>2 DEF ParentRecord
<1>5. /\ init \in InitRecord /\ init.at = "none" /\ ~ init.ready /\ ~ init.eof /\ ~ init.fault
      /\ ~ init.entered /\ init.stop = "none" /\ init.status = "none"
  BY <1>1 DEF InitRecord, Stops, Children
<1>6. OwnedTypeOK
  BY <1>1, <1>3, <1>4, <1>5 DEF OwnedTypeOK, Waiters, Children
<1>7. ChildIsKnown /\ EntryIsProven
  BY <1>1, <1>5 DEF ChildIsKnown, EntryIsProven
<1>8. TranscriptIsTrue /\ DeadStayDead
  BY <1>1, <1>3, <1>4 DEF TranscriptIsTrue, DeadStayDead
<1>9. QED BY <1>6, <1>7, <1>8 DEF OwnedInv

\* Every step of a launch.
LEMMA OwnedMoves == ASSUME OwnedInv, [OwnedNext]_ownedVars PROVE OwnedInv'
<1>1. CASE OwnedNext
  <2>1. \/ WaiterFails \/ WaiterForks \/ WaiterReaps \/ InitSetupFails \/ InitForks \/ InitReap \/ InitReport
        \/ PayloadEnds \/ Tick \/ WaiterKilled \/ DeathSignal \/ NamespaceDies
        \/ InitRead \/ ChildReady \/ ChildFails \/ ChildExecs
        \/ ParentRead \/ ParentObservationFails \/ ParentDies \/ ParentAct
    BY <1>1 DEF OwnedNext, InitNext
  <2>2. QED BY <2>1, QuietSteps, InitReadKeeps, ChildMoves, ParentMoves, ParentActs
<1>2. CASE UNCHANGED ownedVars
  BY <1>2 DEF ownedVars, OwnedInv, OwnedTypeOK, ChildIsKnown, EntryIsProven, TranscriptIsTrue,
              DeadStayDead, ChildAlive
<1>3. QED BY <1>1, <1>2

\* What the launch promises, from what its processes know.
LEMMA OwnedPromises == ASSUME OwnedInv PROVE ArtifactsOutliveLaunch /\ StatusIsPayloads /\ EntryIsFenced
<1> USE DEF OwnedInv
<1>1. ArtifactsOutliveLaunch
  BY DEF ArtifactsOutliveLaunch, DeadStayDead, WaiterAlive, InitAlive
<1>2. StatusIsPayloads
  BY DEF StatusIsPayloads, TranscriptIsTrue
<1>3. EntryIsFenced
  <2>1. SUFFICES ASSUME parent.entry
                 PROVE  child \notin {"none", "prep"} /\ (init.stop = "none" => child # "ready")
    BY DEF EntryIsFenced
  <2>2. init.entered
    BY <2>1 DEF TranscriptIsTrue
  <2>3. QED BY <2>2 DEF ChildIsKnown, EntryIsProven
<1>4. QED BY <1>1, <1>2, <1>3

\* A step that keeps the observer: the family it reads loses holders or writes one
\* piece to a pipe that is still open.
LEMMA FamilyMoves ==
  ASSUME ObserveInv, ObservationAssumption,
         FamilyStep \/ Cancel \/ DeadlineTick \/ UNCHANGED observeVars
  PROVE  ObserveInv'
<1> USE DEF ObserveInv
<1>1. /\ kind' = kind /\ reader' = reader /\ outcome' = outcome
      /\ wrote' = wrote \/ (Holders /\ reader.open /\ wrote' = wrote + 1)
      /\ Holders' => Holders
      /\ subject' = "running" => subject = "running"
      /\ kin' = "member" => kin = "member" \/ subject = "running"
  <2>1. CASE FamilyStep
    BY <2>1 DEF FamilyStep, ReadStdin, CloseStdin, WriteOut, Fork, Escape, KinEnds, ChildEnds,
                Watch, Family, Holders
  <2>2. CASE Cancel
    BY <2>2 DEF Cancel, Family, Holders
  <2>3. CASE DeadlineTick
    BY <2>3 DEF DeadlineTick, Family, Holders
  <2>4. CASE UNCHANGED observeVars
    BY <2>4 DEF observeVars, Holders
  <2>5. QED BY <2>1, <2>2, <2>3, <2>4
<1>2. AnswerCap \in Nat /\ MaxOutput \in Nat
  BY DEF ObservationAssumption
<1>3. wrote \in Nat /\ reader \in PieceRecord /\ reader.taken \in Nat /\ reader.retained \in Nat
  BY DEF ObserveTypeOK, PieceRecord
<1>4. ObserveTypeOK'
  BY <1>1, <1>3 DEF ObserveTypeOK
<1>5. RetainCap' = RetainCap
  BY <1>1 DEF RetainCap
<1>6. ReadIsPart'
  BY <1>1, <1>3, <1>5 DEF ReadIsPart, Lesser
<1>7. AnswerIsWhole'
  BY <1>1, <1>3 DEF AnswerIsWhole
<1>8. FamilyIsDead'
  BY <1>1 DEF FamilyIsDead
<1>9. QED BY <1>4, <1>6, <1>7, <1>8

\* An observation that returns: the family is ended with it, and an answer is taken
\* only of a stream that has ended.
LEMMA ObservationReturns ==
  ASSUME ObserveInv, NEW out, Observed(out),
         out \in {"answer", "exited"} => ~ reader.open,
         out = "answer" => reader.retained = wrote
  PROVE  ObserveInv'
<1> USE DEF ObserveInv
<1>1. /\ kind' = kind /\ reader' = reader /\ wrote' = wrote /\ outcome' = out
      /\ Holders' => Holders
      /\ subject' # "running" /\ kin' # "member"
  BY DEF Observed, Terminate, Watch, Holders
<1>2. ObserveTypeOK'
  BY <1>1 DEF ObserveTypeOK
<1>3. RetainCap' = RetainCap
  BY <1>1 DEF RetainCap
<1>4. ReadIsPart'
  BY <1>1, <1>3 DEF ReadIsPart
<1>5. AnswerIsWhole'
  BY <1>1 DEF AnswerIsWhole, ReadIsPart
<1>6. FamilyIsDead'
  BY <1>1 DEF FamilyIsDead
<1>7. QED BY <1>2, <1>4, <1>5, <1>6

\* What a verdict on a stream that has ended may say: an answer only when nothing of
\* it was left out.
LEMMA VerdictIsWhole ==
  ASSUME ObserveInv, ObservationAssumption, ~ reader.open,
         kind = "hook" => reader.retained <= AnswerCap
  PROVE  Verdict = "answer" => reader.retained = wrote
<1>1. /\ kind \in {"worker", "confined", "hook", "phase"} /\ AnswerCap \in Nat
      /\ wrote \in Nat /\ reader.taken = wrote /\ reader.retained = Lesser(RetainCap, wrote)
  BY DEF ObserveInv, ObserveTypeOK, ReadIsPart, ObservationAssumption
<1>2. ASSUME Verdict = "answer" PROVE kind \in {"worker", "hook"} /\ reader.retained <= AnswerCap
  <2>1. reader.retained <= AnswerCap \/ reader.retained > AnswerCap
    BY <1>1 DEF Lesser, RetainCap
  <2>2. CASE kind = "worker" /\ reader.retained > AnswerCap
    BY <1>2, <2>2 DEF Verdict
  <2>3. CASE kind = "worker" /\ reader.retained <= AnswerCap
    BY <2>3
  <2>4. CASE kind = "confined"
    BY <1>2, <2>4 DEF Verdict
  <2>5. CASE kind = "phase"
    BY <1>2, <2>5 DEF Verdict
  <2>6. CASE kind = "hook"
    BY <2>6
  <2>7. QED BY <1>1, <2>1, <2>2, <2>3, <2>4, <2>5, <2>6
<1>3. QED BY <1>1, <1>2 DEF Lesser, RetainCap

\* What one read of the pipe makes of the observer: it takes all that was written,
\* or sees the end of a stream that nobody holds.
LEMMA ReadIs ==
  ASSUME ObserveInv, ObservationAssumption
  PROVE  /\ Read \in PieceRecord /\ Read.at = reader.at
         /\ Read.taken <= wrote /\ Read.retained = Lesser(RetainCap, Read.taken)
         /\ ~ Read.open => ~ Holders /\ Read.taken = wrote
<1>1. /\ reader \in PieceRecord /\ wrote \in Nat /\ reader.taken <= wrote
      /\ reader.retained = Lesser(RetainCap, reader.taken)
      /\ ~ reader.open => ~ Holders /\ reader.taken = wrote
      /\ reader.taken \in Nat /\ reader.open \in BOOLEAN
  BY DEF ObserveInv, ObserveTypeOK, ReadIsPart, PieceRecord
<1>2. RetainCap \in Nat
  BY DEF RetainCap, ObservationAssumption
<1>3. CASE ~ reader.open
  BY <1>1, <1>3 DEF Read
<1>4. CASE reader.open /\ wrote > reader.taken
  <2> DEFINE retained == Lesser(RetainCap, reader.retained + wrote - reader.taken)
  <2>1. Read = [reader EXCEPT !.taken = wrote, !.retained = retained]
    BY <1>4 DEF Read
  <2>2. retained \in Nat /\ retained = Lesser(RetainCap, wrote)
    BY <1>1, <1>2, <1>4 DEF Lesser
  <2> HIDE DEF retained
  <2>3. /\ Read \in PieceRecord /\ Read.at = reader.at /\ Read.taken = wrote /\ Read.retained = retained
        /\ Read.open = reader.open
    BY <1>1, <2>1, <2>2 DEF PieceRecord
  <2>4. QED BY <1>1, <1>4, <2>2, <2>3
<1>5. CASE reader.open /\ ~ (wrote > reader.taken)
  <2>1. reader.taken = wrote
    BY <1>1, <1>5
  <2>2. Read = IF ~ Holders THEN [reader EXCEPT !.open = FALSE] ELSE reader
    BY <1>5 DEF Read
  <2>3. CASE ~ Holders
    <3>1. /\ Read \in PieceRecord /\ Read.at = reader.at /\ Read.taken = reader.taken
          /\ Read.retained = reader.retained
      BY <1>1, <2>2, <2>3 DEF PieceRecord
    <3>2. QED BY <1>1, <2>1, <2>3, <3>1
  <2>4. CASE Holders
    <3>1. Read = reader
      BY <2>2, <2>4
    <3>2. QED BY <1>1, <1>5, <3>1
  <2>5. QED BY <2>3, <2>4
<1>6. QED BY <1>1, <1>3, <1>4, <1>5

\* A step of an observer that goes on: what it has read stays a part of what was
\* written.
LEMMA ObserverGoesOn ==
  ASSUME ObserveInv, outcome = "none", outcome' = outcome, kind' = kind, wrote' = wrote,
         Holders' => Holders, reader' \in PieceRecord, reader'.taken <= wrote,
         reader'.retained = Lesser(RetainCap, reader'.taken),
         ~ reader'.open => ~ Holders /\ reader'.taken = wrote,
         reader'.at = "wait" /\ kind \in {"worker", "hook"} => reader'.retained <= AnswerCap,
         reader'.at = "finish" => kind # "hook"
  PROVE  ObserveInv'
<1> USE DEF ObserveInv
<1>1. ObserveTypeOK'
  BY DEF ObserveTypeOK
<1>2. RetainCap' = RetainCap
  BY DEF RetainCap
<1>3. ReadIsPart'
  BY <1>2 DEF ReadIsPart
<1>4. AnswerIsWhole' /\ FamilyIsDead'
  BY DEF AnswerIsWhole, FamilyIsDead
<1>5. QED BY <1>1, <1>3, <1>4

\* A step to another place of the observer's loop, with nothing read.
LEMMA ObserverSteps ==
  ASSUME ObserveInv, outcome = "none", outcome' = outcome, kind' = kind, wrote' = wrote,
         Holders' => Holders, NEW step \in {"start", "write", "drain", "stop", "wait", "finish"},
         NEW exited \in BOOLEAN, reader' = [reader EXCEPT !.at = step, !.exited = exited],
         step = "wait" /\ kind \in {"worker", "hook"} => reader.retained <= AnswerCap,
         step = "finish" => kind # "hook"
  PROVE  ObserveInv'
<1>1. /\ reader \in PieceRecord /\ reader.taken <= wrote /\ reader.retained = Lesser(RetainCap, reader.taken)
      /\ ~ reader.open => ~ Holders /\ reader.taken = wrote
  BY DEF ObserveInv, ObserveTypeOK, ReadIsPart
<1>2. /\ reader' \in PieceRecord /\ reader'.at = step /\ reader'.taken = reader.taken
      /\ reader'.retained = reader.retained /\ reader'.open = reader.open
  BY <1>1 DEF PieceRecord
<1>3. QED BY <1>1, <1>2, ObserverGoesOn

\* Every step of the observer.
LEMMA ObserverMoves ==
  ASSUME ObserveInv, ObservationAssumption, ObserverStep \/ ObserveFails PROVE ObserveInv'
<1>0. /\ kind \in {"worker", "confined", "hook", "phase"} /\ reader \in PieceRecord
      /\ reader.retained \in Nat /\ AnswerCap \in Nat /\ wrote \in Nat /\ reader.exited \in BOOLEAN
      /\ reader = [reader EXCEPT !.exited = reader.exited]
      /\ reader.at = "wait" /\ kind \in {"worker", "hook"} => reader.retained <= AnswerCap
      /\ reader.at = "finish" => kind # "hook"
  BY DEF ObserveInv, ObserveTypeOK, ReadIsPart, PieceRecord, ObservationAssumption
<1>1. ASSUME NEW step \in {"start", "write", "drain", "stop", "wait", "finish"}, Goes(step)
      PROVE  \E exited \in BOOLEAN : reader' = [reader EXCEPT !.at = step, !.exited = exited]
  <2>1. reader' = [reader EXCEPT !.at = step, !.exited = reader.exited]
    BY <1>0, <1>1 DEF Goes, PieceRecord
  <2>2. QED BY <1>0, <2>1
<1>2. ASSUME outcome = "none", UNCHANGED <<Watch, Family, wrote, outcome>>,
             NEW step \in {"write", "drain", "stop"}, Goes(step)
      PROVE  ObserveInv'
  <2>1. outcome' = outcome /\ kind' = kind /\ wrote' = wrote /\ (Holders' => Holders)
    BY <1>2 DEF Watch, Family, Holders
  <2>2. PICK exited \in BOOLEAN : reader' = [reader EXCEPT !.at = step, !.exited = exited]
    BY <1>1, <1>2
  <2>3. QED BY <1>2, <2>1, <2>2, ObserverSteps
<1>3. CASE Start
  <2>1. outcome = "none" /\ First \in {"write", "drain"}
    BY <1>0, <1>3 DEF Start, At, First
  <2>2. CASE kind = "worker" /\ (cancelled \/ elapsed >= Deadline)
    <3>1. Observed("refused")
      BY <1>3, <2>2 DEF Start, Observed
    <3>2. QED BY <3>1, ObservationReturns
  <2>3. CASE ~ (kind = "worker" /\ (cancelled \/ elapsed >= Deadline))
    <3>1. Goes(First) /\ UNCHANGED <<Watch, Family, wrote, outcome>>
      BY <1>3, <2>3 DEF Start, Stays
    <3>2. QED BY <1>2, <2>1, <3>1
  <2>4. QED BY <2>2, <2>3
<1>4. CASE WriteStdin
  <2>1. \/ Goes("drain") /\ UNCHANGED <<Watch, Family, wrote, outcome>>
        \/ Observed("killed")
    BY <1>4 DEF WriteStdin, Stays
  <2>2. outcome = "none"
    BY <1>4 DEF WriteStdin, At
  <2>3. CASE Goes("drain") /\ UNCHANGED <<Watch, Family, wrote, outcome>>
    BY <1>2, <2>2, <2>3
  <2>4. CASE Observed("killed")
    BY <2>4, ObservationReturns
  <2>5. QED BY <2>1, <2>3, <2>4
<1>5. CASE WritePayload
  <2>1. \/ Goes("drain") /\ UNCHANGED <<Watch, Family, wrote, outcome>>
        \/ Observed("lost")
    BY <1>5 DEF WritePayload
  <2>2. outcome = "none"
    BY <1>5 DEF WritePayload, At
  <2>3. CASE Goes("drain") /\ UNCHANGED <<Watch, Family, wrote, outcome>>
    BY <1>2, <2>2, <2>3
  <2>4. CASE Observed("lost")
    BY <2>4, ObservationReturns
  <2>5. QED BY <2>1, <2>3, <2>4
<1>6. CASE Drain
  <2>1. /\ outcome = "none" /\ reader' = [Read EXCEPT !.at = "stop"]
        /\ UNCHANGED <<Watch, Family, stdin, wrote, outcome>>
    BY <1>6 DEF Drain, At
  <2>2. /\ Read \in PieceRecord /\ Read.taken <= wrote /\ Read.retained = Lesser(RetainCap, Read.taken)
        /\ ~ Read.open => ~ Holders /\ Read.taken = wrote
    BY ReadIs
  <2>3. /\ reader' \in PieceRecord /\ reader'.at = "stop" /\ reader'.taken = Read.taken
        /\ reader'.retained = Read.retained /\ reader'.open = Read.open
    BY <2>1, <2>2 DEF PieceRecord
  <2>4. outcome' = outcome /\ kind' = kind /\ wrote' = wrote /\ (Holders' => Holders)
    BY <2>1 DEF Watch, Family, Holders
  <2>5. QED BY <2>1, <2>2, <2>3, <2>4, ObserverGoesOn
<1>7. CASE CheckStop
  <2>1. outcome = "none"
    BY <1>7 DEF CheckStop, At
  <2>2. CASE StopCause = "none"
    <3>1. Goes("wait") /\ UNCHANGED <<Watch, Family, wrote, outcome>>
      BY <1>7, <2>2 DEF CheckStop, Stays
    <3>2. outcome' = outcome /\ kind' = kind /\ wrote' = wrote /\ (Holders' => Holders)
      BY <3>1 DEF Watch, Family, Holders
    <3>3. kind \in {"worker", "hook"} => reader.retained <= AnswerCap
      <4>1. kind \in {"worker", "hook"} /\ ~ (kind = "worker" /\ cancelled) /\ reader.retained > AnswerCap
               => StopCause = "too_large"
        BY DEF StopCause
      <4>2. kind = "worker" /\ cancelled => StopCause = "cancelled"
        BY DEF StopCause
      <4>3. QED BY <1>0, <2>2, <4>1, <4>2
    <3>4. PICK exited \in BOOLEAN : reader' = [reader EXCEPT !.at = "wait", !.exited = exited]
      BY <1>1, <3>1
    <3>5. QED BY <2>1, <3>2, <3>3, <3>4, ObserverSteps
  <2>3. CASE StopCause # "none"
    <3>1. Observed(StopCause)
      BY <1>7, <2>3 DEF CheckStop
    <3>2. StopCause \notin {"answer", "exited"}
      BY DEF StopCause
    <3>3. QED BY <3>1, <3>2, ObservationReturns
  <2>4. QED BY <2>2, <2>3
<1>8. CASE AwaitExit
  <2>1. /\ outcome = "none" /\ kind # "hook" /\ First \in {"write", "drain"}
        /\ \/ ExitSeen
           \/ Observed("timed_out")
           \/ Stays(First)
    BY <1>0, <1>8 DEF AwaitExit, At, First
  <2>2. CASE ExitSeen
    <3>1. outcome' = outcome /\ kind' = kind /\ wrote' = wrote /\ (Holders' => Holders)
      BY <2>2 DEF ExitSeen, Terminate, Watch, Holders
    <3>2. Goes("finish")
      BY <2>2 DEF ExitSeen
    <3>3. PICK exited \in BOOLEAN : reader' = [reader EXCEPT !.at = "finish", !.exited = exited]
      BY <1>1, <3>2
    <3>4. QED BY <2>1, <3>1, <3>3, ObserverSteps
  <2>3. CASE Observed("timed_out")
    BY <2>3, ObservationReturns
  <2>4. CASE Stays(First)
    <3>1. Goes(First) /\ UNCHANGED <<Watch, Family, wrote, outcome>>
      BY <2>4 DEF Stays
    <3>2. QED BY <1>2, <2>1, <3>1
  <2>5. QED BY <2>1, <2>2, <2>3, <2>4
<1>9. CASE AwaitHook
  <2>1. /\ outcome = "none" /\ reader.at = "wait" /\ kind = "hook"
        /\ \/ ~ reader.open /\ (AskAgain \/ Observed(Verdict))
           \/ Observed("timed_out")
           \/ /\ reader' = [reader EXCEPT !.at = "drain", !.exited = reader.exited \/ subject # "running"]
              /\ UNCHANGED <<Watch, Family, stdin, wrote, outcome>>
    BY <1>9 DEF AwaitHook, At, HookDone
  <2>2. CASE ~ reader.open /\ AskAgain
    <3>1. /\ wrote' = 0 /\ kind' = kind /\ outcome' = outcome
          /\ reader' = [at |-> "write", taken |-> 0, retained |-> 0, open |-> TRUE,
                        exited |-> FALSE, runs |-> reader.runs + 1]
      BY <2>2 DEF AskAgain
    <3>2. reader.runs + 1 \in Nat
      BY <1>0 DEF PieceRecord
    <3>3. reader' \in PieceRecord /\ reader'.at = "write" /\ reader'.taken = 0 /\ reader'.retained = 0
          /\ reader'.open
      BY <3>1, <3>2 DEF PieceRecord
    <3>4. RetainCap' = RetainCap /\ RetainCap \in Nat
      BY <3>1 DEF RetainCap, ObservationAssumption
    <3>5. ObserveTypeOK'
      BY <3>1, <3>3 DEF ObserveInv, ObserveTypeOK
    <3>6. ReadIsPart'
      BY <3>1, <3>3, <3>4 DEF ReadIsPart, Lesser
    <3>7. AnswerIsWhole' /\ FamilyIsDead'
      BY <2>1, <3>1 DEF AnswerIsWhole, FamilyIsDead
    <3>8. QED BY <3>5, <3>6, <3>7 DEF ObserveInv
  <2>3. CASE ~ reader.open /\ Observed(Verdict)
    <3>1. kind = "hook" => reader.retained <= AnswerCap
      BY <1>0, <2>1
    <3>2. Verdict = "answer" => reader.retained = wrote
      BY <2>3, <3>1, VerdictIsWhole
    <3>3. QED BY <2>3, <3>2, ObservationReturns
  <2>4. CASE Observed("timed_out")
    BY <2>4, ObservationReturns
  <2>5. CASE /\ reader' = [reader EXCEPT !.at = "drain", !.exited = reader.exited \/ subject # "running"]
             /\ UNCHANGED <<Watch, Family, stdin, wrote, outcome>>
    <3>1. outcome' = outcome /\ kind' = kind /\ wrote' = wrote /\ (Holders' => Holders)
      BY <2>5 DEF Watch, Family, Holders
    <3>2. (reader.exited \/ subject # "running") \in BOOLEAN
      BY <1>0
    <3>3. QED BY <2>1, <2>5, <3>1, <3>2, ObserverSteps
  <2>6. QED BY <2>1, <2>2, <2>3, <2>4, <2>5
<1>10. CASE Finish
  <2>1. /\ outcome = "none" /\ reader.at = "finish"
        /\ \/ ~ reader.open /\ Observed(Verdict)
           \/ Observed("timed_out")
           \/ reader' = Read /\ UNCHANGED <<Watch, Family, stdin, wrote, outcome>>
    BY <1>10 DEF Finish, At
  <2>2. CASE ~ reader.open /\ Observed(Verdict)
    <3>1. kind # "hook"
      BY <1>0, <2>1
    <3>2. Verdict = "answer" => reader.retained = wrote
      BY <2>2, <3>1, VerdictIsWhole
    <3>3. QED BY <2>2, <3>2, ObservationReturns
  <2>3. CASE Observed("timed_out")
    BY <2>3, ObservationReturns
  <2>4. CASE reader' = Read /\ UNCHANGED <<Watch, Family, stdin, wrote, outcome>>
    <3>1. outcome' = outcome /\ kind' = kind /\ wrote' = wrote /\ (Holders' => Holders)
      BY <2>4 DEF Watch, Family, Holders
    <3>2. /\ Read \in PieceRecord /\ Read.at = reader.at
          /\ Read.taken <= wrote /\ Read.retained = Lesser(RetainCap, Read.taken)
          /\ ~ Read.open => ~ Holders /\ Read.taken = wrote
      BY ReadIs
    <3>3. reader'.at = "finish" /\ kind # "hook"
      BY <1>0, <2>1, <2>4, <3>2
    <3>4. QED BY <2>1, <2>4, <3>1, <3>2, <3>3, ObserverGoesOn
  <2>5. QED BY <2>1, <2>2, <2>3, <2>4
<1>11. CASE ObserveFails
  BY <1>11, ObservationReturns DEF ObserveFails
<1>12. QED BY <1>3, <1>4, <1>5, <1>6, <1>7, <1>8, <1>9, <1>10, <1>11 DEF ObserverStep

\* An observation as it begins.
LEMMA ObservationStarts == ASSUME ObserveInit, ObservationAssumption PROVE ObserveInv
<1>1. /\ kind \in {"worker", "confined", "hook", "phase"} /\ wrote = 0 /\ outcome = "none"
      /\ reader = [at |-> "start", taken |-> 0, retained |-> 0, open |-> TRUE, exited |-> FALSE, runs |-> 1]
  BY DEF ObserveInit
<1>2. reader \in PieceRecord /\ reader.at = "start" /\ reader.taken = 0 /\ reader.retained = 0 /\ reader.open
  BY <1>1 DEF PieceRecord
<1>3. RetainCap \in Nat
  BY DEF RetainCap, ObservationAssumption
<1>4. QED BY <1>1, <1>2, <1>3 DEF ObserveInv, ObserveTypeOK, ReadIsPart, Lesser, AnswerIsWhole, FamilyIsDead

\* Owned processes: the launch directory outlives every process of the launch, a
\* returned status is the payload's own, an entry is of a fenced child, an answer is
\* all that was written, and an ended observation leaves nobody of the group (run_owned,
\* the helper's init, observe_bounded, run_hook).
THEOREM ProcessesSafe == OwnedSpec /\ ObserveSpec => []ProcessesAreFenced
<1>1. OwnedInit => OwnedInv
  BY OwnedStarts
<1>2. OwnedInv /\ [OwnedNext]_ownedVars => OwnedInv'
  BY OwnedMoves
<1>3. ObserveInit => ObserveInv
  BY ObservationStarts, ObservationAssumption
<1>4. ObserveInv /\ [ObserveNext]_observeVars => ObserveInv'
  BY FamilyMoves, ObserverMoves, ObservationAssumption DEF ObserveNext
<1>5. OwnedInv /\ ObserveInv => ProcessesAreFenced
  BY OwnedPromises DEF ProcessesAreFenced, ObserveInv
<1>6. QED BY <1>1, <1>2, <1>3, <1>4, <1>5, PTL DEF OwnedSpec, ObserveSpec
=============================================================================
