------------------------------- MODULE Broker -------------------------------
(***************************************************************************)
(* The model broker (src/src/model.rs) and the two callers that drive it:  *)
(* a turn of the controller, which keeps one paused attempt for its task   *)
(* and asks the operator for a substitute, and a planning stage of         *)
(* src/src/actions.rs, which cancels what failed.  One call is a sequence  *)
(* of legs; nothing else of the broker runs inside it.  A manifest is its  *)
(* attempt id and the model it names.                                      *)
(***************************************************************************)
EXTENDS Naturals, Sequences, FiniteSets

CONSTANTS
    Connection,     \* the declared names
    Pool,           \* the purpose's candidates, in declared order
    RowsOf,         \* connection -> sequence of recorded models [reasoning, window, cost]
    Pinned,         \* the connections a fixed assignment names
    Chain,          \* the connections of fallback = auto, in order
    Contract,       \* connection -> the recorded contract it resolves to
    OneShot,        \* the contracts that forbid a blind retry
    MaxAttempts,    \* bound: attempt ids minted
    MaxMoves        \* bound: changes of the configuration or of the rights

ASSUME BrokerAssumption == MaxAttempts \in Nat

VARIABLES
    rights,         \* Entitlements::rights
    version,        \* Entitlements::version
    brokerSees,     \* view_connections and view_purposes: connection -> standing
    epoch,          \* epochs[purpose]: the model of the latest prefix
    admissions,     \* attempt -> admission
    accounting,     \* attempts accounted
    cancelledAttempts,
    pendingChoice,  \* attempts with a pending record
    pausedOn,       \* attempt -> the candidates its pause served
    settlements,    \* attempts the ledger holds a settlement row for
    call,           \* the call under way
    legs,           \* the legs it has sent
    heldPause,      \* paused_attempts[task] of the controller
    minted,         \* attempt ids minted so far
    leaked,         \* ghost: pauses whose question could not be published
    standing        \* ghost: the model of the last prepared or answered manifest
brokerVars == <<rights, version, brokerSees, epoch, admissions, accounting, cancelledAttempts,
                pendingChoice, pausedOn, settlements, call, legs, heldPause, minted,
                leaked, standing>>

Attempt == 1..MaxAttempts
\* Declared and usable; not declared; not served by the adapter; or without a
\* live grant or outside the purpose's eligible list.
Standings == {"ok", "absent", "unserved", "ineligible"}
NoModelYet == [kind |-> "none", conn |-> "none", row |-> 0]
AutoModel == [kind |-> "auto", conn |-> "none", row |-> 0]
Fixed(c, row) == [kind |-> "fixed", conn |-> c, row |-> row]
NoAdmission == [conn |-> "none", version |-> 0, model |-> NoModelYet, fallback |-> "off"]
NoPause == [attempt |-> 0, choice |-> {}]
Resting == [at |-> "idle", who |-> "none", attempt |-> 0, entry |-> 0, tried |-> {}, out |-> "none"]

----------------------------------------------------------------------------
(* ranking *)

\* candidate_rejection, entitlement_rejection: what the dispatch-time check asks.
Eligible(c) == brokerSees[c] = "ok" /\ c \in rights

\* rank_rejection: the same without the adapter's own claim.
Rankable(c) == brokerSees[c] \in {"ok", "unserved"} /\ c \in rights

\* RankedCandidate::recorded and ::unknown: capability, context fit, price
\* known, cost, and last the declared order, as one number.
Key(c, row, facts) ==
    LET recorded == row > 0
        r == RowsOf[c][row]
        capability == IF recorded /\ facts.risky /\ r.reasoning THEN 0 ELSE 1
        context == IF ~recorded \/ r.window = 0 THEN 1 ELSE IF r.window >= facts.size THEN 0 ELSE 2
        price == IF recorded /\ r.cost > 0 THEN 0 ELSE 1
        cost == IF recorded THEN r.cost ELSE 0
        declared == CHOOSE i \in 1..Len(Pool) : Pool[i] = c
    IN  ((((capability * 3 + context) * 2 + price) * 10 + cost) * 10 + declared) * 10 + row

\* rank_recorded: every recorded model of every feasible connection competes.
Ranked ==
    UNION {IF Len(RowsOf[c]) = 0 THEN {<<c, 0>>} ELSE {<<c, i>> : i \in 1..Len(RowsOf[c])} :
           c \in {d \in Connection : Rankable(d) /\ \E i \in 1..Len(Pool) : Pool[i] = d}}

\* rank_connection over an automatic assignment: the least candidate.
Best(facts) ==
    CHOOSE x \in Ranked : \A y \in Ranked : Key(x[1], x[2], facts) <= Key(y[1], y[2], facts)

\* The model that is frozen on the manifest.
Frozen(choice) == IF choice[2] > 0 THEN Fixed(choice[1], choice[2]) ELSE AutoModel

----------------------------------------------------------------------------
(* prepare *)

\* freeze_manifest for choice: the epoch moves, the admission stands.
Admit(who, fallback, choice) ==
    /\ minted < MaxAttempts /\ minted' = minted + 1
    /\ epoch' = Frozen(choice) /\ standing' = Frozen(choice)
    /\ admissions' = [admissions EXCEPT ![minted + 1] =
            [conn |-> choice[1], version |-> version, model |-> Frozen(choice), fallback |-> fallback]]
    /\ call' = [Resting EXCEPT !.at = "dispatch", !.who = who, !.attempt = minted + 1]
    /\ UNCHANGED <<rights, version, brokerSees, accounting, cancelledAttempts, pendingChoice,
                   pausedOn, settlements, legs, heldPause, leaked>>

\* prepare_with_facts and prepare_call_with_facts over an automatic
\* assignment: refused when nothing is rankable.
PrepareAuto(who, fallback, facts) ==
    /\ call.at = "idle" /\ Ranked # {} /\ Admit(who, fallback, Best(facts))

\* The same over a pinned model.
PrepareFixed(who, fallback, c) ==
    /\ call.at = "idle" /\ Rankable(c) /\ Admit(who, fallback, <<c, 1>>)

----------------------------------------------------------------------------
(* one leg *)

\* complete_send: the adapter and the connection are asked first, then the
\* ledger, which refuses an attempt it already holds; then the provider
\* answers, denies, or leaves the outcome unknown, and the ledger may fail to
\* close the row it opened.
LegOutcomes(c, a) ==
    IF brokerSees[c] \in {"absent", "unserved"} THEN {"denied"}
    ELSE IF a \in settlements THEN {"refused"}
    ELSE {"budget", "refused", "reply", "lost", "definitive", "unknown", "unclosed"}

Enters(r) == r \notin {"denied", "refused", "budget"}
LedgerFailed(r) == r \in {"budget", "refused", "lost", "unclosed"}

\* Mutant: a failure after an entered send is always definitive.
OutcomeUnknownNever(r) == FALSE

\* provider_outcome_unknown of a failed leg.
OutcomeUnknown(r) == r = "unknown"

\* The leg a of connection c with outcome r.
Sent(c, a, r, eligible) ==
    /\ settlements' = IF Enters(r) THEN settlements \cup {a} ELSE settlements
    /\ legs' = Append(legs, [conn |-> c, out |-> r, eligible |-> eligible \/ ~Enters(r)])
    /\ accounting' = IF r = "reply" THEN accounting \cup {a} ELSE accounting

\* clear_attempt of every attempt of A.
Cleared(A) ==
    /\ admissions' = [x \in Attempt |-> IF x \in A THEN NoAdmission ELSE admissions[x]]
    /\ pendingChoice' = pendingChoice \ A
    /\ pausedOn' = [x \in Attempt |-> IF x \in A THEN {} ELSE pausedOn[x]]

\* blind_retry_refused: from and to resolve to one contract that forbids it.
BlindRetryRefused(from, to) == Contract[from] = Contract[to] /\ Contract[from] \in OneShot

Returns(out) == call' = [call EXCEPT !.at = "return", !.out = out]

----------------------------------------------------------------------------
(* dispatch *)

Primary == admissions[call.attempt]

\* Mutant: the snapshot frozen at ranking is believed.
FreshAlways == TRUE

\* The eligibility snapshot is re-checked against the live one.
Fresh == version = Primary.version /\ Primary.conn \in rights

\* dispatch: EligibilityStale.
DispatchStale ==
    /\ call.at = "dispatch" /\ ~Fresh /\ Returns("error")
    /\ UNCHANGED <<rights, version, brokerSees, epoch, admissions, accounting, cancelledAttempts,
                   pendingChoice, pausedOn, settlements, legs, heldPause, minted, leaked, standing>>

\* The candidates a manual pause serves: never the failed primary nor a
\* sibling of its contract.
ManualCandidates ==
    {c \in Connection : Eligible(c) /\ c # Primary.conn /\ ~BlindRetryRefused(Primary.conn, c)}

\* fallback_or_fail after the primary leg ended with r.
FallbackOrFail(r) ==
    \/ /\ Primary.fallback = "off" /\ Returns("error")
       /\ UNCHANGED <<pendingChoice, pausedOn>>
    \/ /\ Primary.fallback = "manual" /\ ManualCandidates = {} /\ Returns("error")
       /\ UNCHANGED <<pendingChoice, pausedOn>>
    \/ /\ Primary.fallback = "manual" /\ ManualCandidates # {} /\ Returns("choose")
       /\ pausedOn' = [pausedOn EXCEPT ![call.attempt] = ManualCandidates]
       /\ pendingChoice' = pendingChoice \cup {call.attempt}
    \/ /\ Primary.fallback = "auto"
       /\ call' = IF OutcomeUnknown(r) THEN [call EXCEPT !.at = "return", !.out = "error"]
                  ELSE [call EXCEPT !.at = "chain", !.entry = 1]
       /\ UNCHANGED <<pendingChoice, pausedOn>>

\* dispatch: the primary leg and what its outcome leads to.
Dispatch(r) ==
    LET a == call.attempt
    IN  /\ call.at = "dispatch" /\ Fresh /\ r \in LegOutcomes(Primary.conn, a)
        /\ Sent(Primary.conn, a, r, Primary.conn \in rights)
        /\ CASE r = "reply" -> Cleared({a}) /\ Returns("ok")
             [] LedgerFailed(r) -> /\ Returns(IF r = "budget" THEN "budget" ELSE "error")
                                   /\ UNCHANGED <<admissions, pendingChoice, pausedOn>>
             [] OTHER -> FallbackOrFail(r) /\ UNCHANGED admissions
        /\ UNCHANGED <<rights, version, brokerSees, epoch, cancelledAttempts, heldPause, minted,
                       leaked, standing>>

\* Mutant: the epoch a failed substitute minted stays.
AbandonKeepsEpoch(model) == epoch' = model

\* abandon_substitute, restore_epoch: the substitute's admission, which only
\* this leg held, is gone and the displaced epoch is back.
AbandonSubstitute(model) == UNCHANGED epoch

\* mint_substitute on connection c and its leg: the substitute takes its own
\* attempt id, and what stands of it afterwards is decided by the outcome.
Substitute(c, model, r) ==
    /\ minted < MaxAttempts /\ minted' = minted + 1
    /\ r \in LegOutcomes(c, minted + 1)
    /\ Sent(c, minted + 1, r, Eligible(c))
    /\ IF r = "reply" THEN epoch' = model /\ standing' = model
       ELSE AbandonSubstitute(model) /\ UNCHANGED standing

\* The auto walk: an entry the re-check refuses is passed over.
ChainSkips ==
    LET c == Chain[call.entry]
    IN  /\ call.at = "chain" /\ call.entry <= Len(Chain)
        /\ \/ \E f \in call.tried \cup {Primary.conn} : BlindRetryRefused(f, c)
           \/ ~Eligible(c)
        /\ call' = [call EXCEPT !.entry = @ + 1]
        /\ UNCHANGED <<rights, version, brokerSees, epoch, admissions, accounting,
                       cancelledAttempts, pendingChoice, pausedOn, settlements, legs, heldPause,
                       minted, leaked, standing>>

\* The auto walk: an entry is sent to; only a definitive failure walks on.
ChainSends(r) ==
    LET c == Chain[call.entry]
        a == call.attempt
    IN  /\ call.at = "chain" /\ call.entry <= Len(Chain)
        /\ \A f \in call.tried \cup {Primary.conn} : ~BlindRetryRefused(f, c)
        /\ Eligible(c) /\ Substitute(c, Fixed(c, 1), r)
        /\ CASE r = "reply" -> /\ Returns("ok")
                               /\ admissions' = [admissions EXCEPT ![a] = NoAdmission]
             [] LedgerFailed(r) -> /\ Returns(IF r = "budget" THEN "budget" ELSE "error")
                                   /\ UNCHANGED admissions
             [] OutcomeUnknown(r) -> Returns("error") /\ UNCHANGED admissions
             [] OTHER -> /\ call' = [call EXCEPT !.entry = @ + 1, !.tried = @ \cup {c}]
                         /\ UNCHANGED admissions
        /\ UNCHANGED <<rights, version, brokerSees, cancelledAttempts, pendingChoice, pausedOn,
                       heldPause, leaked>>

\* The auto walk: FallbackExhausted.
ChainEnds ==
    /\ call.at = "chain" /\ call.entry > Len(Chain) /\ Returns("error")
    /\ UNCHANGED <<rights, version, brokerSees, epoch, admissions, accounting, cancelledAttempts,
                   pendingChoice, pausedOn, settlements, legs, heldPause, minted, leaked, standing>>

\* Mutant: the answer is believed, not re-checked.
PickableServed(c) == TRUE

\* dispatch_fallback_choice: the gates on the picked connection.
Pickable(c) == ~BlindRetryRefused(admissions[heldPause.attempt].conn, c) /\ Eligible(c)

\* resolve_read_target with the option the pause's question served:
\* dispatch_fallback_choice, the pause being spent when the pick answers.
Pick(c, r) ==
    LET a == heldPause.attempt
        primary == admissions[a]
        model == IF primary.model.kind = "fixed" THEN Fixed(c, primary.model.row)
                 ELSE [kind |-> "auto", conn |-> c, row |-> 0]
    IN  /\ call.at = "idle" /\ c \in heldPause.choice
        /\ primary # NoAdmission /\ c \in pausedOn[a] /\ Pickable(c)
        /\ Substitute(c, model, r)
        /\ IF r = "reply"
           THEN Cleared({a}) /\ heldPause' = NoPause
           ELSE UNCHANGED <<admissions, pendingChoice, pausedOn, heldPause>>
        /\ call' = [Resting EXCEPT !.at = "picked"]
        /\ UNCHANGED <<rights, version, brokerSees, cancelledAttempts, leaked>>

----------------------------------------------------------------------------
(* what the callers do with the result *)

\* cancel_attempt of the attempts of A: those with a live admission are
\* tombstoned.
Cancels(A) ==
    LET dead == {a \in A : a # 0 /\ a \notin accounting /\ admissions[a] # NoAdmission}
    IN  Cleared(dead) /\ cancelledAttempts' = cancelledAttempts \cup dead

Ended == call' = Resting /\ legs' = <<>>

CallerUnchanged ==
    UNCHANGED <<rights, version, brokerSees, epoch, accounting, settlements, minted, standing>>

\* Mutant: the previous pause is overwritten and its attempt left admitted.
RecordPauseDrops(a, choice) ==
    heldPause' = [attempt |-> a, choice |-> choice] /\ Cancels({})

\* record_pause: the attempt takes the task's slot and cancels the previous one.
RecordPause(a, choice) ==
    /\ heldPause' = [attempt |-> a, choice |-> choice]
    /\ Cancels({heldPause.attempt} \ {a})

\* call of src/src/actions.rs: whatever failed is cancelled.
StageReturns ==
    /\ call.at = "return" /\ call.who = "stage" /\ Ended
    /\ Cancels(IF call.out = "ok" THEN {} ELSE {call.attempt})
    /\ UNCHANGED <<heldPause, leaked>> /\ CallerUnchanged

\* resolve_read_target, on a reply: tombstone_paused.
TurnAnswered ==
    /\ call.at = "return" /\ call.who = "turn" /\ call.out = "ok" /\ Ended
    /\ Cancels({heldPause.attempt}) /\ heldPause' = NoPause
    /\ UNCHANGED leaked /\ CallerUnchanged

\* resolve_read_target, on a refusal of the budget: the attempt is cancelled.
TurnRefused ==
    /\ call.at = "return" /\ call.who = "turn" /\ call.out = "budget" /\ Ended
    /\ Cancels({call.attempt})
    /\ UNCHANGED <<heldPause, leaked>> /\ CallerUnchanged

\* resolve_read_target, on any other failure: record_pause without a choice.
TurnFailed ==
    /\ call.at = "return" /\ call.who = "turn" /\ call.out = "error" /\ Ended
    /\ RecordPause(call.attempt, {})
    /\ UNCHANGED leaked /\ CallerUnchanged

\* pause_on_fallback_choice: the question is published, then the pending
\* record is drained and the pause recorded.
TurnPauses ==
    /\ call.at = "return" /\ call.who = "turn" /\ call.out = "choose" /\ Ended
    /\ heldPause' = [attempt |-> call.attempt, choice |-> pausedOn[call.attempt]]
    /\ LET dead == {heldPause.attempt} \ {0, call.attempt}
       IN  /\ admissions' = [a \in Attempt |-> IF a \in dead THEN NoAdmission ELSE admissions[a]]
           /\ pausedOn' = [a \in Attempt |-> IF a \in dead THEN {} ELSE pausedOn[a]]
           /\ pendingChoice' = (pendingChoice \ dead) \ {call.attempt}
           /\ cancelledAttempts' = cancelledAttempts
                \cup {a \in dead : a \notin accounting /\ admissions[a] # NoAdmission}
    /\ UNCHANGED leaked /\ CallerUnchanged

\* pause_on_fallback_choice: the store refuses the question, and the error
\* leaves before the pause is recorded.
TurnCannotAsk ==
    /\ call.at = "return" /\ call.who = "turn" /\ call.out = "choose" /\ Ended
    /\ leaked' = leaked \cup {call.attempt}
    /\ UNCHANGED <<admissions, cancelledAttempts, pendingChoice, pausedOn, heldPause>>
    /\ CallerUnchanged

\* The pick has returned.
PickReturns ==
    /\ call.at = "picked" /\ Ended
    /\ UNCHANGED <<admissions, cancelledAttempts, pendingChoice, pausedOn, heldPause, leaked>>
    /\ CallerUnchanged

\* tombstone_paused: an answer outside the choice, or the end of the task.
TombstonePaused ==
    /\ call.at = "idle" /\ heldPause # NoPause
    /\ Cancels({heldPause.attempt}) /\ heldPause' = NoPause
    /\ UNCHANGED <<call, legs, leaked>> /\ CallerUnchanged

----------------------------------------------------------------------------
(* what moves under the broker *)

\* set_config, observe_config: a connection's standing changes.
SetConfig(c, s) ==
    /\ call.at = "idle" /\ version + Cardinality({d \in Connection : brokerSees[d] # "ok"}) < MaxMoves
    /\ brokerSees[c] # s
    /\ brokerSees' = [brokerSees EXCEPT ![c] = s]
    /\ UNCHANGED <<rights, version, epoch, admissions, accounting, cancelledAttempts,
                   pendingChoice, pausedOn, settlements, call, legs, heldPause, minted, leaked, standing>>

\* set_account_rights: the version moves with the rights, also between a
\* prepare and its dispatch.
SetAccountRights(next) ==
    /\ call.at \in {"idle", "dispatch"} /\ next # rights
    /\ version + Cardinality({d \in Connection : brokerSees[d] # "ok"}) < MaxMoves
    /\ rights' = next /\ version' = version + 1
    /\ UNCHANGED <<brokerSees, epoch, admissions, accounting, cancelledAttempts, pendingChoice,
                   pausedOn, settlements, call, legs, heldPause, minted,
                   leaked, standing>>

\* The facts the controller and the stages record.
Facts == [risky : BOOLEAN, size : {2}]

BrokerInit ==
    /\ rights = Connection /\ version = 0 /\ epoch = NoModelYet
    /\ brokerSees = [c \in Connection |-> "ok"]
    /\ admissions = [a \in Attempt |-> NoAdmission] /\ accounting = {} /\ cancelledAttempts = {}
    /\ pendingChoice = {} /\ pausedOn = [a \in Attempt |-> {}] /\ settlements = {}
    /\ call = Resting /\ legs = <<>> /\ heldPause = NoPause /\ minted = 0
    /\ leaked = {} /\ standing = NoModelYet

BrokerNext ==
    \/ \E who \in {"turn", "stage"}, fallback \in {"off", "manual", "auto"} :
        \/ \E facts \in Facts : PrepareAuto(who, fallback, facts)
        \/ \E c \in Pinned : PrepareFixed(who, fallback, c)
    \/ DispatchStale \/ ChainSkips \/ ChainEnds
    \/ \E r \in {"denied", "budget", "refused", "reply", "lost", "definitive", "unknown", "unclosed"} :
        Dispatch(r) \/ ChainSends(r) \/ \E c \in Connection : Pick(c, r)
    \/ StageReturns \/ TurnAnswered \/ TurnRefused \/ TurnFailed \/ TurnPauses \/ TurnCannotAsk
    \/ PickReturns \/ TombstonePaused
    \/ \E c \in Connection, s \in Standings : SetConfig(c, s)
    \/ \E c \in Connection : SetAccountRights(Connection \ {c})

BrokerSpec == BrokerInit /\ [][BrokerNext]_brokerVars

----------------------------------------------------------------------------
\* No leg follows one whose outcome is unknown: a substitute might repeat what
\* the peer already did.  Only a definitive failure, or a denial before the
\* wire, is followed by another leg of the same call.
OnlyDenialsWalk == \A i \in 1..Len(legs) - 1 : legs[i].out \in {"definitive", "denied"}

\* What crosses the wire is entitled by the live rights, and a substitute also
\* eligible by the live configuration, however long ago it was offered.
SentIsEligible == \A i \in 1..Len(legs) : legs[i].eligible

\* A failed substitute leaves no phantom model switch: the epoch is that of
\* the last manifest that was prepared or answered.
NoPhantomEpoch == epoch = standing

\* The broker holds an admission only for the attempt of the call or the
\* task's recorded pause, but for pauses whose question could not be published.
AdmissionsHeld ==
    \A a \in Attempt : admissions[a] # NoAdmission =>
        a \in {call.attempt, heldPause.attempt} \cup leaked

\* The broker as a whole: only a denial walks to the next candidate, what is sent was
\* eligible, a failed substitute switches no model, and an admission is held or given back.
BrokerIsSound == OnlyDenialsWalk /\ SentIsEligible /\ NoPhantomEpoch /\ AdmissionsHeld
=============================================================================
