---------------------------- MODULE BoundedWork -----------------------------
(***************************************************************************)
(* The decision step of src/src/controller.rs over the ledger: the work    *)
(* budget gate, the legs of one dispatch and the stops their refusals      *)
(* record.  The runtime is one thread, so a step runs alone; the process   *)
(* may crash inside it.                                                    *)
(***************************************************************************)
EXTENDS Ledger, Sequences

CONSTANT Chains     \* scope chains of scheduler nodes, root first

ASSUME ChainsAssumption == Chains \subseteq Seq(Scope)

VARIABLE step       \* the chain the gate let through, while its step runs

wvars == <<vars, step>>

Idle == [on |-> FALSE, chain |-> << >>]
Running(c) == [on |-> TRUE, chain |-> c]
ScopesOf(c) == { c[i] : i \in DOMAIN c }
Quiet == phase = "serving" /\ ~ step.on /\ tickets = {}

WInit == Init /\ step = Idle

\* Mutant: a stop already recorded is not looked at.
ReachedOpenOnly(s, expired) ==
    /\ work[s].state = "open"
    /\ \/ s \in expired
       \/ SettledSends(s) >= work[s].sends
       \/ budget[s].spent + budget[s].reserved >= budget[s].limit

\* A recorded worker that may not dispatch: stopped, past its deadline, or at
\* its send or unit bound.
Reached(s, expired) ==
    \/ work[s].state = "stopped"
    \/ /\ work[s].state = "open"
       /\ \/ s \in expired
          \/ SettledSends(s) >= work[s].sends
          \/ budget[s].spent + budget[s].reserved >= budget[s].limit

\* work_budget_gate: every recorded worker of the chain may go on.
GatePasses(c, expired) ==
    /\ Quiet
    /\ \A s \in ScopesOf(c) : ~ Reached(s, expired)
    /\ step' = Running(c)
    /\ UNCHANGED vars

\* work_budget_gate: the first reached worker stops, if it was still open.
GateStops(c, expired) ==
    /\ Quiet
    /\ \E i \in DOMAIN c :
        /\ Reached(c[i], expired)
        /\ \A j \in 1 .. i - 1 : ~ Reached(c[j], expired)
        /\ StopWorkBudget(c[i])
    /\ UNCHANGED step

\* complete_send's begin_send, for the primary or a fallback leg.
SendLeg(a, b) ==
    /\ step.on /\ tickets = {}
    /\ BeginSend(a, ScopesOf(step.chain), b)
    /\ UNCHANGED step

\* begin_send refused: a worker at its send bound stops; a scope that can not
\* fund the bound stops its worker if one is open, else the task waits.
Refusal(b, s) ==
    LET open    == { x \in ScopesOf(step.chain) : budget[x].open }
        bounded == { x \in open : AtSendBound(x) }
        unfunded == { x \in open : ~ Fits(x, b) }
        first(S) == { x \in S : \E i \in DOMAIN step.chain :
                        step.chain[i] = x /\ \A j \in 1 .. i - 1 : step.chain[j] \notin S }
    IN  s \in (IF bounded # {} THEN first(bounded) ELSE first(unfunded))

LegRefused(b, s) ==
    /\ step.on /\ tickets = {} /\ phase = "serving"
    /\ Refusal(b, s)
    /\ IF work[s].state = "open" THEN StopWorkBudget(s) ELSE UNCHANGED vars
    /\ step' = Idle

\* finish_send: an answer ends the step, a failure may go on to another leg.
EndLeg(a, prompt, total) ==
    /\ FinishSend(a, prompt, total)
    /\ step' \in {Idle} \cup (IF prompt = Null /\ total = Null THEN {step} ELSE {})

\* finish_send failed: the ledger error ends the walk and the step.
LegLost(a) == FinishLost(a) /\ step' = Idle

\* The step ends without another leg.
StepEnds ==
    /\ step.on /\ tickets = {} /\ phase = "serving"
    /\ step' = Idle
    /\ UNCHANGED vars

\* A semantic action's send: no tree scope to reserve against.
SemanticSend(a, b) ==
    /\ Quiet
    /\ BeginSend(a, {}, b)
    /\ UNCHANGED step

\* long_work.start, long_work.stop and open_budget between steps.
Client ==
    /\ Quiet
    /\ \/ \E s \in Scope, l \in Limits : OpenBudget(s, l)
       \/ \E s \in Scope, l \in Limits, n \in Sends : OpenWorkBudget(s, l, n)
       \/ \E s \in Scope : StopWorkBudget(s)
    /\ UNCHANGED step

WCrash == Crash /\ step' = Idle
WStartup == Startup /\ UNCHANGED step
AnyEnd == \E a \in Attempt, p, t \in OrNull(Tokens) : EndLeg(a, p, t)

WNext ==
    \/ \E c \in Chains, e \in SUBSET Scope : GatePasses(c, e)
    \/ \E c \in Chains, e \in SUBSET Scope : GateStops(c, e)
    \/ \E a \in Attempt, b \in Bounds : SendLeg(a, b)
    \/ \E b \in Bounds, s \in Scope : LegRefused(b, s)
    \/ AnyEnd
    \/ \E a \in Attempt : LegLost(a)
    \/ StepEnds
    \/ \E a \in Attempt, b \in Bounds : SemanticSend(a, b)
    \/ Client
    \/ WCrash
    \/ WStartup

WSpec == WInit /\ [][WNext]_wvars

\* The data root is opened again after a crash, the startup runs to its end
\* and a provider call returns.
WFairSpec == WSpec /\ WF_wvars(WStartup) /\ WF_wvars(AnyEnd)

-----------------------------------------------------------------------------
\* AC-083a: no send is dispatched once a worker's own sends and those of every
\* task below it, settled or still open, fill its bound, although begin_send
\* counts settled rows only.  A send whose end could not be recorded is not
\* counted until the next open settles it.
SendBoundHeld ==
    [][\A a \in Attempt, s \in Scope :
            /\ rows[a].state = "none" /\ rows'[a].state = "dispatched"
            /\ s \in resv'[a].scopes /\ work[s].state # "none"
         => Cardinality({ b \in Attempt \ lost : s \in resv[b].scopes })
              < work[s].sends]_wvars

\* A stop is terminal for the whole chain: no send is ever dispatched against
\* the scope of a stopped worker, although begin_send itself lets it pass.
StoppedNeverSends ==
    [][\A a \in Attempt, s \in Scope :
         rows[a].state = "none" /\ rows'[a].state = "dispatched" /\ s \in resv'[a].scopes
            => work[s].state # "stopped"]_wvars

\* The settled-send bound, as long_work.start records it: no worker's scope
\* ever counts more settled sends than its bound.
SettledWithinBound ==
    \A s \in Scope : work[s].state # "none" => SettledSends(s) <= work[s].sends

\* Every send ends settled: by the provider's answer or failure, or by the
\* startup after a crash; unless recording its end failed, which leaves it to
\* the next open.
SendsSettle ==
    \A a \in Attempt : rows[a].state = "dispatched" ~> (rows[a].state = "settled" \/ a \in lost)

\* A worker's bound as a whole: it is never passed, a stop is terminal, and every send
\* comes to be counted.
WorkersStayBounded == SendBoundHeld /\ StoppedNeverSends /\ SendsSettle
=============================================================================
