------------------------------- MODULE Ledger -------------------------------
(***************************************************************************)
(* The budget ledger and the usage settlements of src/src/state.rs, with   *)
(* the startup that repairs them.                                          *)
(*                                                                         *)
(* A send reserves its cost bound at every open scope and opens a          *)
(* `dispatched' settlement row in one transaction; its end charges the     *)
(* reservation, settles the row and adds it to the running totals in       *)
(* another.  A crash between the two leaves rows the next open reconciles. *)
(* A build without the totals table may have written the same store in     *)
(* between (ForeignSend, ForeignSettle).                                   *)
(*                                                                         *)
(* Reservations and attempts share one id space, as in the store: ids up   *)
(* to MaxAttempts are attempts, the rest are direct reservations.          *)
(***************************************************************************)
EXTENDS Sums, FiniteSets

CONSTANTS
    Scope,          \* budget scopes; a worker's scope is its task
    MaxAttempts,    \* bound of the model on the attempts ever minted
    MaxDirect,      \* bound of the model on direct reservations
    Limits,         \* scope limits a caller may open with
    Bounds,         \* cost bounds of requests
    Sends,          \* settled-send bounds of workers
    Tokens,         \* token counts a provider may report
    MaxTickets,     \* sends in flight at once: 1 in the runtime, which holds the store
    MaxCrashes,     \* bound of the model on crashes
    MaxLost,        \* bound of the model on finish_send calls that fail
    Foreign         \* whether a build without usage_totals also opens the store

ASSUME LedgerAssumption ==
    /\ MaxAttempts \in Nat /\ MaxDirect \in Nat
    /\ Limits \subseteq Nat /\ Bounds \subseteq Nat
    /\ Sends \subseteq Nat /\ Tokens \subseteq Nat
    /\ MaxTickets \in Nat /\ MaxCrashes \in Nat /\ MaxLost \in Nat
    /\ Foreign \in BOOLEAN

VARIABLES
    budget,     \* budget_scopes
    resv,       \* budget_reservations, the rows of one id together
    rows,       \* usage_settlements
    totals,     \* usage_totals
    work,       \* work_budgets
    tickets,    \* the SendTickets the running process holds
    phase,      \* how far this open of the store has come
    compat,     \* startup_schema_compatible, as this open read it
    crashes,
    lost        \* the sends of this process whose end could not be recorded

vars == <<budget, resv, rows, totals, work, tickets, phase, compat, crashes, lost>>

Attempt == 1 .. MaxAttempts
MaxId == MaxAttempts + MaxDirect
Id == 1 .. MaxId
Direct == Id \ Attempt
Null == -1
OrNull(S) == S \cup {Null}

BudgetRow == [open : BOOLEAN, limit : Nat, spent : Nat, reserved : Nat]
ReservationRow ==
    [ state : {"none", "reserved", "charged", "released"},
      scopes : SUBSET Scope, bound : Nat, charged : OrNull(Nat) ]
SettlementRow ==
    [ state : {"none", "dispatched", "settled"}, rowid : Nat, bound : Nat,
      prompt : OrNull(Nat), total : OrNull(Nat), charged : OrNull(Nat) ]
Totals ==
    [ present : BOOLEAN, settled : Nat, without : Nat, tokens : Nat,
      charges : Nat, units : Nat, latest : OrNull(Nat),
      dispatched : Nat, next : Nat ]
WorkRow == [state : {"none", "open", "stopped"}, sends : Nat]

-----------------------------------------------------------------------------
(***************************************************************************)
(* Reads.                                                                  *)
(***************************************************************************)
InState(r, st) == { a \in Attempt : r[a].state = st }

MaxRowid(r) ==
    CHOOSE m \in {0} \cup { r[a].rowid : a \in Attempt } :
        \A a \in Attempt : r[a].rowid <= m

\* The prompt figure of the newest settled row, by rowid.
NewestPrompt(r) ==
    LET done == InState(r, "settled")
    IN  IF done = {} THEN Null
        ELSE r[CHOOSE a \in done : \A b \in done : r[b].rowid <= r[a].rowid].prompt

Known(n) == IF n = Null THEN 0 ELSE n

\* USAGE_TOTALS_BACKFILL: the totals recomputed from the rows.
Recomputed(r) ==
    LET done == InState(r, "settled") IN
    [ present    |-> TRUE,
      settled    |-> Cardinality(done),
      without    |-> Cardinality({ a \in done : r[a].total = Null }),
      tokens     |-> SumTo([a \in Attempt |-> IF a \in done THEN Known(r[a].total) ELSE 0],
                           MaxAttempts),
      charges    |-> Cardinality({ a \in done : r[a].charged # Null }),
      units      |-> SumTo([a \in Attempt |-> IF a \in done THEN Known(r[a].charged) ELSE 0],
                           MaxAttempts),
      latest     |-> NewestPrompt(r),
      dispatched |-> Cardinality(InState(r, "dispatched")),
      next       |-> MaxRowid(r) + 1 ]

\* Mutant: only rows past the counter are noticed.
StaleByRowid(r, t) == t.next <= MaxRowid(r)

\* USAGE_TOTALS_STALE.
Stale(r, t) ==
    \/ MaxRowid(r) # 0 /\ t.next <= MaxRowid(r)
    \/ t.dispatched # Cardinality(InState(r, "dispatched"))

\* An attempt id never recorded.  Ids are minted unique; the model numbers
\* them in the order in which they are first used.
Fresh(a) == rows[a].state = "none" /\ \A b \in 1 .. a - 1 : rows[b].state # "none"

\* The settled sends WORK_BUDGET_SEND_STATE counts at a worker's scope.
SettledSends(s) == Cardinality({ a \in InState(rows, "settled") : s \in resv[a].scopes })

\* Mutant: the check does not see what is only reserved.
FitsSpent(s, b) == budget[s].open /\ budget[s].spent + b <= budget[s].limit

\* RESERVE_BUDGET's WHERE clause.
Fits(s, b) == budget[s].open /\ budget[s].spent + budget[s].reserved + b <= budget[s].limit

\* Mutant: the send bound is left to the gate of the step.
NeverAtSendBound(s) == FALSE

\* begin_send's send-bound refusal.
AtSendBound(s) == work[s].state = "open" /\ SettledSends(s) >= work[s].sends

-----------------------------------------------------------------------------
(***************************************************************************)
(* Edits.                                                                  *)
(***************************************************************************)

\* A budget row whose counters move.
Moved(row, spent, reserved) ==
    [ open |-> row.open, limit |-> row.limit,
      spent |-> row.spent + spent, reserved |-> row.reserved + reserved ]

\* A reservation that ends.
Resolved(r, st, charged) ==
    [state |-> st, scopes |-> r.scopes, bound |-> r.bound, charged |-> charged]

\* The rows of one reservation, and its bound held at each of its scopes.
Reserved(id, S, b) ==
    /\ resv' = [resv EXCEPT ![id] =
                  [state |-> "reserved", scopes |-> S, bound |-> b, charged |-> Null]]
    /\ budget' = [s \in Scope |->
                    IF s \in S THEN Moved(budget[s], 0, b) ELSE budget[s]]

\* resolve_reservation_tx: refused unless every row is still reserved; the
\* scopes give up the bound and, on a charge, spend the confirmed units or,
\* when the cost stayed unknown, the bound.
ChargeFits(id, confirmed) ==
    /\ resv[id].state = "reserved"
    /\ confirmed # Null => confirmed <= resv[id].bound
    /\ \A s \in resv[id].scopes : budget[s].reserved >= resv[id].bound

Delta(r) == IF r.charged = Null THEN r.bound ELSE r.charged

\* Mutant: only what was spent is given up, not the whole bound.
ChargedKeepsRest(id, confirmed) ==
    LET r == Resolved(resv[id], "charged", confirmed) IN
    /\ resv' = [resv EXCEPT ![id] = r]
    /\ budget' = [s \in Scope |->
                    IF s \in r.scopes THEN Moved(budget[s], Delta(r), - Delta(r))
                    ELSE budget[s]]

Charged(id, confirmed) ==
    LET r == Resolved(resv[id], "charged", confirmed) IN
    /\ resv' = [resv EXCEPT ![id] = r]
    /\ budget' = [s \in Scope |->
                    IF s \in r.scopes THEN Moved(budget[s], Delta(r), - r.bound)
                    ELSE budget[s]]

\* NEXT_SETTLEMENT_ROWID
NextRowid(r, t) == IF t.next > MaxRowid(r) THEN t.next ELSE MaxRowid(r) + 1

DispatchedRow(rowid, b) ==
    [ state |-> "dispatched", rowid |-> rowid, bound |-> b,
      prompt |-> Null, total |-> Null, charged |-> Null ]

SettledRow(row, prompt, total, charged) ==
    [ state |-> "settled", rowid |-> row.rowid, bound |-> row.bound,
      prompt |-> prompt, total |-> total, charged |-> charged ]

\* SETTLE_USAGE_TOTAL for the settled rows S, over the rows after them: the
\* prompt figure moves only when one of them is now the newest settled row.
AddedTotals(t, r, S) ==
    LET known   == { a \in S : r[a].total # Null }
        charged == { a \in S : r[a].charged # Null }
        k       == Cardinality(S)
    IN  [ present    |-> t.present,
          settled    |-> t.settled + k,
          without    |-> t.without + k - Cardinality(known),
          tokens     |-> t.tokens
                           + SumTo([a \in Attempt |-> IF a \in known THEN r[a].total ELSE 0],
                                   MaxAttempts),
          charges    |-> t.charges + Cardinality(charged),
          units      |-> t.units
                           + SumTo([a \in Attempt |-> IF a \in charged THEN r[a].charged ELSE 0],
                                   MaxAttempts),
          latest     |-> IF \E a \in S : \A b \in InState(r, "settled") :
                                r[b].rowid <= r[a].rowid
                         THEN NewestPrompt(r) ELSE t.latest,
          dispatched |-> IF t.dispatched > k THEN t.dispatched - k ELSE 0,
          next       |-> t.next ]

-----------------------------------------------------------------------------
Init ==
    /\ budget = [s \in Scope |-> [open |-> FALSE, limit |-> 0, spent |-> 0, reserved |-> 0]]
    /\ resv = [i \in Id |-> [state |-> "none", scopes |-> {}, bound |-> 0, charged |-> Null]]
    /\ rows = [a \in Attempt |->
                 [ state |-> "none", rowid |-> 0, bound |-> 0,
                   prompt |-> Null, total |-> Null, charged |-> Null ]]
    /\ totals = [ present |-> FALSE, settled |-> 0, without |-> 0, tokens |-> 0,
                  charges |-> 0, units |-> 0, latest |-> Null,
                  dispatched |-> 0, next |-> 0 ]
    /\ work = [s \in Scope |-> [state |-> "none", sends |-> 0]]
    /\ tickets = {}
    /\ phase = "down"
    /\ compat = FALSE
    /\ crashes = 0
    /\ lost = {}

Opened(s, l) ==
    budget' = [budget EXCEPT ![s] = [open |-> TRUE, limit |-> l, spent |-> 0, reserved |-> 0]]

\* open_budget: a scope opens once.
OpenBudget(s, l) ==
    /\ phase = "serving"
    /\ ~ budget[s].open
    /\ Opened(s, l)
    /\ UNCHANGED <<resv, rows, totals, work, tickets, phase, compat, crashes, lost>>

\* open_work_budget: the scope and the worker's row in one transaction.
OpenWorkBudget(s, l, n) ==
    /\ phase = "serving"
    /\ work[s].state = "none"
    /\ ~ budget[s].open
    /\ Opened(s, l)
    /\ work' = [work EXCEPT ![s] = [state |-> "open", sends |-> n]]
    /\ UNCHANGED <<resv, rows, totals, tickets, phase, compat, crashes, lost>>

\* Mutant: a stopped worker may be opened again.
StopToggles(s) ==
    /\ phase = "serving"
    /\ work[s].state # "none"
    /\ work' = [work EXCEPT ![s].state = IF @ = "open" THEN "stopped" ELSE "open"]
    /\ UNCHANGED <<budget, resv, rows, totals, tickets, phase, compat, crashes, lost>>

\* stop_work_budget: open to stopped, once.
StopWorkBudget(s) ==
    /\ phase = "serving"
    /\ work[s].state = "open"
    /\ work' = [work EXCEPT ![s].state = "stopped"]
    /\ UNCHANGED <<budget, resv, rows, totals, tickets, phase, compat, crashes, lost>>

\* budget_reserve: all scopes or none, and an id only once.
BudgetReserve(id, S, b) ==
    /\ phase = "serving"
    /\ S # {}
    /\ resv[id].state = "none"
    /\ \A s \in S : Fits(s, b)
    /\ Reserved(id, S, b)
    /\ UNCHANGED <<rows, totals, work, tickets, phase, compat, crashes, lost>>

\* budget_charge
BudgetCharge(id, confirmed) ==
    /\ phase = "serving"
    /\ ChargeFits(id, confirmed)
    /\ Charged(id, confirmed)
    /\ UNCHANGED <<rows, totals, work, tickets, phase, compat, crashes, lost>>

\* Mutant: a charged reservation is released as well.
ReleaseAny(id) ==
    /\ phase = "serving"
    /\ resv[id].state \in {"reserved", "charged"}
    /\ resv' = [resv EXCEPT ![id] = Resolved(resv[id], "released", Null)]
    /\ budget' = [s \in Scope |->
                    IF s \in resv[id].scopes THEN Moved(budget[s], 0, - resv[id].bound)
                    ELSE budget[s]]
    /\ UNCHANGED <<rows, totals, work, tickets, phase, compat, crashes, lost>>

\* budget_release: a request that was never sent.
BudgetRelease(id) ==
    /\ phase = "serving"
    /\ resv[id].state = "reserved"
    /\ resv' = [resv EXCEPT ![id] = Resolved(resv[id], "released", Null)]
    /\ budget' = [s \in Scope |->
                    IF s \in resv[id].scopes THEN Moved(budget[s], 0, - resv[id].bound)
                    ELSE budget[s]]
    /\ UNCHANGED <<rows, totals, work, tickets, phase, compat, crashes, lost>>

\* begin_send: the bound reserved at the scopes that are open, the row and its
\* rowid, or nothing at all.
BeginSend(a, S, b) ==
    LET open  == { s \in S : budget[s].open }
        rowid == NextRowid(rows, totals)
    IN  /\ phase = "serving"
        /\ Cardinality(tickets) < MaxTickets
        /\ Fresh(a)
        /\ \A s \in open : ~ AtSendBound(s) /\ Fits(s, b)
        /\ IF open = {} THEN UNCHANGED <<resv, budget>> ELSE Reserved(a, open, b)
        /\ rows' = [rows EXCEPT ![a] = DispatchedRow(rowid, b)]
        /\ totals' = [totals EXCEPT !.next = rowid + 1, !.dispatched = @ + 1]
        /\ tickets' = tickets \cup {a}
        /\ UNCHANGED <<work, phase, compat, crashes, lost>>

\* The units a send's end charges: at most the bound, the bound when unknown.
ChargeOf(a, total) ==
    IF resv[a].state = "none" THEN Null
    ELSE IF total = Null \/ total > rows[a].bound THEN rows[a].bound
    ELSE total

\* finish_send: the row settled, the totals moved and the reservation charged.
FinishSend(a, prompt, total) ==
    LET charge  == ChargeOf(a, total)
        settled == [rows EXCEPT ![a] = SettledRow(rows[a], prompt, total, charge)]
    IN  /\ phase = "serving"
        /\ a \in tickets
        /\ rows[a].state = "dispatched"
        /\ rows' = settled
        /\ totals' = AddedTotals(totals, settled, {a})
        /\ IF resv[a].state = "none" THEN UNCHANGED <<resv, budget>>
           ELSE ChargeFits(a, charge) /\ Charged(a, charge)
        /\ tickets' = tickets \ {a}
        /\ UNCHANGED <<work, phase, compat, crashes, lost>>

\* finish_send failed, on a figure the store can not hold or on the store: the
\* ticket is gone and the row stays dispatched until the next open.
FinishLost(a) ==
    /\ phase = "serving"
    /\ a \in tickets
    /\ Cardinality(lost) < MaxLost
    /\ tickets' = tickets \ {a}
    /\ lost' = lost \cup {a}
    /\ UNCHANGED <<budget, resv, rows, totals, work, phase, compat, crashes>>

-----------------------------------------------------------------------------
(***************************************************************************)
(* Startup.  A store whose tables are current and whose totals are not     *)
(* stale is reconciled before the generation commit, any other after it.   *)
(***************************************************************************)
Crash ==
    /\ phase # "down" /\ crashes < MaxCrashes
    /\ crashes' = crashes + 1
    /\ phase' = "down"
    /\ tickets' = {} /\ lost' = {}
    /\ UNCHANGED <<budget, resv, rows, totals, work, compat>>

\* elect_deferred, then startup_schema_compatible.
Elect ==
    /\ phase = "down"
    /\ phase' = "elected"
    /\ compat' = (totals.present /\ ~ Stale(rows, totals))
    /\ UNCHANGED <<budget, resv, rows, totals, work, tickets, crashes, lost>>

\* What charging the reservations of H at their bounds moves at a scope.
Owed(H, s) ==
    SumTo([i \in Id |-> IF i \in H /\ s \in resv[i].scopes THEN rows[i].bound ELSE 0], MaxId)

\* Mutant: the interrupted send is taken as never sent.
ReconcileFree ==
    LET open    == InState(rows, "dispatched")
        settled == [a \in Attempt |->
                      IF a \in open THEN SettledRow(rows[a], Null, Null, Null) ELSE rows[a]]
    IN  /\ phase = (IF compat THEN "elected" ELSE "published")
        /\ phase' = (IF compat THEN "recovered" ELSE "serving")
        /\ rows' = settled
        /\ totals' = AddedTotals(totals, settled, open)
        /\ UNCHANGED <<budget, resv, work, tickets, compat, crashes, lost>>

\* Mutant: interrupted rows are left as they are.
ReconcileNothing ==
    /\ phase = (IF compat THEN "elected" ELSE "published")
    /\ phase' = (IF compat THEN "recovered" ELSE "serving")
    /\ UNCHANGED <<budget, resv, rows, totals, work, tickets, compat, crashes, lost>>

\* reconcile_sends: every interrupted row settles unknown, at its bound if its
\* reservation is still open.
ReconcileSends ==
    LET open    == InState(rows, "dispatched")
        held    == { a \in open : resv[a].state = "reserved" }
        settled == [a \in Attempt |->
                      IF a \in open
                      THEN SettledRow(rows[a], Null, Null,
                                      IF a \in held THEN rows[a].bound ELSE Null)
                      ELSE rows[a]]
    IN  /\ phase = (IF compat THEN "elected" ELSE "published")
        /\ phase' = (IF compat THEN "recovered" ELSE "serving")
        /\ \A s \in Scope : budget[s].reserved >= Owed(held, s)
        /\ rows' = settled
        /\ totals' = AddedTotals(totals, settled, open)
        /\ resv' = [i \in Id |-> IF i \in held
                                 THEN Resolved(resv[i], "charged", rows[i].bound)
                                 ELSE resv[i]]
        /\ budget' = [s \in Scope |-> Moved(budget[s], Owed(held, s), - Owed(held, s))]
        /\ UNCHANGED <<work, tickets, compat, crashes, lost>>

\* Mutant: the runtime serves right after the commit.
PublishServes ==
    /\ phase = (IF compat THEN "recovered" ELSE "elected")
    /\ phase' = "serving"
    /\ totals' = (IF totals.present /\ ~ Stale(rows, totals) THEN totals ELSE Recomputed(rows))
    /\ UNCHANGED <<budget, resv, rows, work, tickets, compat, crashes, lost>>

\* publish_generation: the DDL and backfill_usage_totals_on.
PublishGeneration ==
    /\ phase = (IF compat THEN "recovered" ELSE "elected")
    /\ phase' = (IF compat THEN "serving" ELSE "published")
    /\ totals' = (IF totals.present /\ ~ Stale(rows, totals) THEN totals ELSE Recomputed(rows))
    /\ UNCHANGED <<budget, resv, rows, work, tickets, compat, crashes, lost>>

\* A build without usage_totals sends between two opens of this one: same
\* reservation, implicit rowid, no totals and no worker bounds.
ForeignSend(a, S, b) ==
    LET open == { s \in S : budget[s].open }
    IN  /\ Foreign /\ phase = "down"
        /\ Fresh(a)
        /\ \A s \in open : Fits(s, b)
        /\ IF open = {} THEN UNCHANGED <<resv, budget>> ELSE Reserved(a, open, b)
        /\ rows' = [rows EXCEPT ![a] = DispatchedRow(MaxRowid(rows) + 1, b)]
        /\ UNCHANGED <<totals, work, tickets, phase, compat, crashes, lost>>

\* And ends a send, or reconciles one, without touching the totals.
ForeignSettle(a, prompt, total) ==
    LET charge == ChargeOf(a, total)
    IN  /\ Foreign /\ phase = "down"
        /\ rows[a].state = "dispatched"
        /\ rows' = [rows EXCEPT ![a] = SettledRow(rows[a], prompt, total, charge)]
        /\ IF resv[a].state = "none" THEN UNCHANGED <<resv, budget>>
           ELSE ChargeFits(a, charge) /\ Charged(a, charge)
        /\ UNCHANGED <<totals, work, tickets, phase, compat, crashes, lost>>

Startup == Elect \/ ReconcileSends \/ PublishGeneration

Next ==
    \/ \E s \in Scope, l \in Limits : OpenBudget(s, l)
    \/ \E s \in Scope, l \in Limits, n \in Sends : OpenWorkBudget(s, l, n)
    \/ \E s \in Scope : StopWorkBudget(s)
    \/ \E i \in Direct, S \in SUBSET Scope, b \in Bounds : BudgetReserve(i, S, b)
    \/ \E i \in Direct, c \in OrNull(Tokens) : BudgetCharge(i, c)
    \/ \E i \in Direct : BudgetRelease(i)
    \/ \E a \in Attempt, S \in SUBSET Scope, b \in Bounds : BeginSend(a, S, b)
    \/ \E a \in Attempt, p, t \in OrNull(Tokens) : FinishSend(a, p, t)
    \/ \E a \in Attempt : FinishLost(a)
    \/ Crash
    \/ Startup
    \/ \E a \in Attempt, S \in SUBSET Scope, b \in Bounds : ForeignSend(a, S, b)
    \/ \E a \in Attempt, p, t \in OrNull(Tokens) : ForeignSettle(a, p, t)

Spec == Init /\ [][Next]_vars

-----------------------------------------------------------------------------
(***************************************************************************)
(* Properties.                                                             *)
(***************************************************************************)
Held(r, s) ==
    [i \in Id |-> IF r[i].state = "reserved" /\ s \in r[i].scopes THEN r[i].bound ELSE 0]
Spent(r, s) ==
    [i \in Id |-> IF r[i].state = "charged" /\ s \in r[i].scopes THEN Delta(r[i]) ELSE 0]

\* Types: the rows stay rows of their tables; a counter below zero would make
\* every later read of its row fail (unsigned).
TypeOK ==
    /\ budget \in [Scope -> BudgetRow]
    /\ resv \in [Id -> ReservationRow]
    /\ rows \in [Attempt -> SettlementRow]
    /\ totals \in Totals
    /\ work \in [Scope -> WorkRow]
    /\ tickets \in SUBSET Attempt /\ lost \in SUBSET Attempt
    /\ phase \in {"down", "elected", "recovered", "published", "serving"}
    /\ compat \in BOOLEAN
    /\ crashes \in 0 .. MaxCrashes

\* INV-022: no scope is ever committed past its limit, whichever sends overlap,
\* crash, are reconciled or are charged below their bound.
BudgetHeld ==
    \A s \in Scope : budget[s].spent + budget[s].reserved <= budget[s].limit

\* The two counters of a scope are exactly what its reservations say: the
\* bounds still reserved, and what each charge spent.  So no counter underflows,
\* nothing is spent twice and a crash leaks no reserved unit.
CountersExact ==
    \A s \in Scope : /\ budget[s].reserved = SumTo(Held(resv, s), MaxId)
                     /\ budget[s].spent = SumTo(Spent(resv, s), MaxId)

\* A row and its reservation move together: while the row is dispatched its
\* reservation holds the row's bound; a settled row charged what the
\* reservation spent.  No crash separates the two.
RowsMatchReservations ==
    \A a \in Attempt :
        /\ rows[a].state = "none" => resv[a].state = "none"
        /\ rows[a].state = "dispatched" /\ resv[a].state # "none"
             => resv[a].state = "reserved" /\ resv[a].bound = rows[a].bound
        /\ rows[a].state = "settled"
             => \/ resv[a].state = "none" /\ rows[a].charged = Null
                \/ resv[a].state = "charged" /\ rows[a].charged = Delta(resv[a])

\* AC-062: what the status projection serves is what a scan of the settlement
\* rows would find, newest prompt figure included, through out-of-order ends,
\* crashes, reconciliation and a build that never touched the totals.
TotalsExact == phase = "serving" => totals = Recomputed(rows)

\* HZN-16-11: once the runtime serves, no dispatched row is left from an
\* earlier process: each one is a send this process will end, or failed to.
NoOrphanSend ==
    phase = "serving" => InState(rows, "dispatched") = tickets \cup lost

Final ==
    /\ \A a \in Attempt : rows[a].state = "settled" => rows'[a] = rows[a]
    /\ \A i \in Id : resv[i].state \in {"charged", "released"} => resv'[i] = resv[i]
    /\ \A s \in Scope : /\ budget'[s].spent >= budget[s].spent
                        /\ work[s].state = "stopped" => work'[s] = work[s]

\* Exactly once: a settled row, a resolved reservation and a stopped worker
\* never change again, and no scope gives back what it spent.
SettledIsFinal == [][Final]_vars

\* The ledger as a whole: counters, rows, totals and open sends say the same.
LedgerExact ==
    TypeOK /\ CountersExact /\ RowsMatchReservations /\ TotalsExact /\ NoOrphanSend
=============================================================================
