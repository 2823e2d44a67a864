------------------------------ MODULE Economy -------------------------------
(***************************************************************************)
(* The economy projection of the status surface: one cached snapshot the   *)
(* controller rebuilds after each send from the settlement rows, and the   *)
(* provider-cache rate frozen over a cohort of settled attempts.           *)
(*                                                                         *)
(* A send is a prepared attempt and the substitutes tried under it, each   *)
(* with its own settlement row once it entered the wire; a row still       *)
(* `dispatched' is one whose end could not be recorded.  The lifetime      *)
(* totals the snapshot also shows are Ledger's.                            *)
(***************************************************************************)
EXTENDS Naturals, Sequences, FiniteSets

CONSTANTS MaxSettlements,      \* bound: settlement rows ever opened
          MaxSends,     \* bound: sends ever prepared
          Cohorts,      \* the populations a freeze may name, as row numbers
          Usage,        \* the [prompt, read, write] a provider may report, Absent where it does not
          Absent,
          MaxFaults     \* bound: failed store calls and crashes

ASSUME EconomyAssumption == Cohorts \subseteq SUBSET (Nat \ {0})

VARIABLES usageRows,     \* the settlement rows, in rowid order
          send,       \* the send under way, or the last one; paused: a pick may still come
          rate,       \* cache_rate
          economy,    \* the snapshot served
          unnoted,    \* ghost: sends whose refresh failed
          economyFaults

economyVars == <<usageRows, send, rate, economy, unnoted, economyFaults>>

NotRun == [kind |-> "not run", cohort |-> {}, cold |-> FALSE,
           measured |-> 0, censored |-> 0, excluded |-> 0, read |-> 0, input |-> 0]

NoUsage == [prompt |-> Absent, read |-> Absent, write |-> Absent]

Boot == [sent |-> 0, named |-> FALSE, source |-> "none", rate |-> NotRun]

EconomyInit ==
    /\ usageRows = <<>>
    /\ send = [at |-> "idle", attempt |-> 0, paused |-> FALSE]
    /\ rate = NotRun /\ economy = Boot
    /\ unnoted = {} /\ economyFaults = 0

Family(attempt) == {i \in DOMAIN usageRows : usageRows[i].parent = attempt}

NewestRow(rows) == CHOOSE i \in rows : \A j \in rows : j <= i

\* The row of the attempt itself, if it entered; attempts are numbered by the sends.
Own(attempt) == {i \in DOMAIN usageRows : usageRows[i].attempt = attempt /\ usageRows[i].parent = 0}

-----------------------------------------------------------------------------
(* The cache-read rate of one frozen cohort. *)

\* The total of a figure over the rows it is given for.
Sum(figure) ==
    LET total[rows \in SUBSET DOMAIN figure] ==
            IF rows = {} THEN 0
            ELSE LET i == NewestRow(rows) IN figure[i] + total[rows \ {i}]
    IN  total[DOMAIN figure]

\* Why a population is refused.  Rows past the usageRows are attempts never recorded.
RefusedCohortOpen(cohort) == cohort = {} \/ \E i \in cohort : i > Len(usageRows)
RefusedCohort(cohort) ==
    \/ cohort = {}
    \/ \E i \in cohort : i > Len(usageRows)
    \/ \E i \in cohort : usageRows[i].state = "dispatched"

\* A row contributes only with all three legs; a cold one only when asked for.
cache_read_rate(cohort, cold) ==
    LET reported(u) == Absent \notin {u.prompt, u.read, u.write}
        whole   == {i \in cohort : reported(usageRows[i].usage)}
        kept    == {i \in whole : cold \/ usageRows[i].usage.read # 0}
        input(u) == u.prompt + u.read + u.write
        total   == Sum([i \in kept |-> input(usageRows[i].usage)])
    IN  [kind |-> IF kept = {} \/ total = 0 THEN "unknown" ELSE "measured",
         cohort |-> cohort, cold |-> cold,
         measured |-> Cardinality(kept), censored |-> Cardinality(cohort \ whole),
         excluded |-> Cardinality(whole \ kept),
         read |-> Sum([i \in kept |-> usageRows[i].usage.read]), input |-> total]

-----------------------------------------------------------------------------
(* The snapshot. *)

\* The last substitute under the attempt, else its own row, else none.
landing_settlementOwn(attempt) ==
    IF Own(attempt) # {} THEN Own(attempt)
    ELSE IF Family(attempt) # {} THEN {NewestRow(Family(attempt))} ELSE {}
landing_settlement(attempt) ==
    IF Family(attempt) # {} THEN {NewestRow(Family(attempt))} ELSE Own(attempt)

\* What the landing row proves of a send: the prepared selection, or a substitute.
SourceOf(row) ==
    CASE row.parent = 0 -> "prepared"
      [] row.parent # 0 /\ row.state = "dispatched" -> "fallback unresolved"
      [] row.parent # 0 /\ row.state = "settled" /\ row.reason = "send failed" -> "no fallback answered"
      [] OTHER -> "fallback answered"

\* An attempt that never landed leaves what was shown.
project_economy(sent, held) ==
    LET landing == IF sent = 0 THEN {} ELSE landing_settlement(sent) IN
    IF landing = {} THEN [economy EXCEPT !.rate = held]
    ELSE LET row == usageRows[CHOOSE i \in landing : TRUE] IN
         [sent |-> sent, named |-> row.parent = 0, source |-> SourceOf(row), rate |-> held]

Faulty(ok) == IF ok THEN UNCHANGED economyFaults
              ELSE economyFaults < MaxFaults /\ economyFaults' = economyFaults + 1

\* The rate enters service with the snapshot, and only when its projection was read.
SwapRateFirst(next, ok) ==
    rate' = next /\ economy' = IF ok THEN project_economy(0, next) ELSE economy
Swap(next, ok) ==
    IF ok THEN rate' = next /\ economy' = project_economy(0, next)
    ELSE UNCHANGED <<rate, economy>>

freeze_cache_cohort(cohort, cold, ok) ==
    /\ send.at = "idle"
    /\ IF RefusedCohort(cohort)
       THEN ok /\ UNCHANGED <<rate, economy>>
       ELSE Swap(cache_read_rate(cohort, cold), ok)
    /\ Faulty(ok)
    /\ UNCHANGED <<usageRows, send, unnoted>>

\* The controller notes every outcome of a send; a failed refresh keeps the old snapshot.
note_send_outcome(ok) ==
    /\ send.at = "note"
    /\ economy' = IF ok THEN project_economy(send.attempt, rate) ELSE economy
    /\ unnoted' = IF ok THEN unnoted \ {send.attempt} ELSE unnoted \cup {send.attempt}
    /\ send' = [send EXCEPT !.at = "idle"]
    /\ Faulty(ok)
    /\ UNCHANGED <<usageRows, rate>>

-----------------------------------------------------------------------------
(* The sends, as the broker walks them. *)

\* A turn prepares an attempt, or a pick sends a substitute for the one that failed.
PrepareSend ==
    /\ send.at = "idle" /\ send.attempt < MaxSends
    /\ send' = [at |-> "prepared", attempt |-> send.attempt + 1, paused |-> TRUE]
    /\ UNCHANGED <<usageRows, rate, economy, unnoted, economyFaults>>

Answered(attempt) ==
    \E i \in Own(attempt) \cup Family(attempt) :
        usageRows[i].state = "settled" /\ usageRows[i].reason = "none"

PickSubstitute ==
    /\ send.at = "idle" /\ send.paused /\ ~Answered(send.attempt)
    /\ send' = [send EXCEPT !.at = "substitute"]
    /\ UNCHANGED <<usageRows, rate, economy, unnoted, economyFaults>>

\* A leg enters the wire: its row is opened first.  A leg denied before opens none.
OpenRow ==
    /\ send.at \in {"prepared", "substitute"} /\ Len(usageRows) < MaxSettlements
    /\ usageRows' = Append(usageRows,
           [attempt |-> send.attempt, parent |-> IF send.at = "prepared" THEN 0 ELSE send.attempt,
            state |-> "dispatched", reason |-> "none", usage |-> NoUsage])
    /\ send' = [send EXCEPT !.at = "sent"]
    /\ UNCHANGED <<rate, economy, unnoted, economyFaults>>

\* The leg was denied, or the walk has no further candidate.
EndWalk ==
    /\ send.at \in {"prepared", "substitute"}
    /\ send' = [send EXCEPT !.at = "note"]
    /\ UNCHANGED <<usageRows, rate, economy, unnoted, economyFaults>>

DeniedLeg ==
    /\ send.at = "prepared"
    /\ send' = [send EXCEPT !.at = "substitute"]
    /\ UNCHANGED <<usageRows, rate, economy, unnoted, economyFaults>>

EndedRow(row, reason, usage) ==
    [row EXCEPT !.state = "settled", !.reason = reason, !.usage = usage]

EndAnswered(usage) ==
    /\ send.at = "sent"
    /\ usageRows' = [usageRows EXCEPT ![Len(usageRows)] =
                         EndedRow(usageRows[Len(usageRows)], "none", usage)]
    /\ send' = [send EXCEPT !.at = "note"]
    /\ UNCHANGED <<rate, economy, unnoted, economyFaults>>

EndFailed(next) ==
    /\ send.at = "sent" /\ next \in {"substitute", "note"}
    /\ usageRows' = [usageRows EXCEPT ![Len(usageRows)] =
                         EndedRow(usageRows[Len(usageRows)], "send failed", NoUsage)]
    /\ send' = [send EXCEPT !.at = next]
    /\ UNCHANGED <<rate, economy, unnoted, economyFaults>>

\* finish_send itself fails: the row stays open and the call ends.
EndLost ==
    /\ send.at = "sent"
    /\ send' = [send EXCEPT !.at = "note"]
    /\ Faulty(FALSE)
    /\ UNCHANGED <<usageRows, rate, economy, unnoted>>

\* A crash and the next open: open sends settle as interrupted, the pause is gone and the
\* projection starts over.
RestartEconomy ==
    /\ Faulty(FALSE)
    /\ usageRows' = [i \in DOMAIN usageRows |->
           IF usageRows[i].state = "settled" THEN usageRows[i]
           ELSE EndedRow(usageRows[i], "interrupted", NoUsage)]
    /\ rate' = NotRun /\ economy' = Boot /\ unnoted' = {}
    /\ send' = [send EXCEPT !.at = "idle", !.paused = FALSE]

EconomyNext ==
    \/ PrepareSend \/ PickSubstitute \/ OpenRow \/ EndWalk \/ DeniedLeg
    \/ \E usage \in Usage : EndAnswered(usage)
    \/ \E next \in {"substitute", "note"} : EndFailed(next)
    \/ EndLost \/ RestartEconomy
    \/ \E ok \in BOOLEAN : note_send_outcome(ok)
    \/ \E cohort \in Cohorts, cold, ok \in BOOLEAN : freeze_cache_cohort(cohort, cold, ok)

EconomySpec == EconomyInit /\ [][EconomyNext]_economyVars

-----------------------------------------------------------------------------

(* state.rs cache_read_rate: a frozen rate never changes under the rows it *)
(* was measured from.  Every attempt of its cohort has ended, each is      *)
(* measured, censored or left out as cold, and measuring the cohort again  *)
(* later gives the same ratio, whatever has been sent since.               *)
FrozenRateStands ==
    rate.kind # "not run" =>
        /\ rate.cohort # {}
        /\ \A i \in rate.cohort : i \in DOMAIN usageRows /\ usageRows[i].state = "settled"
        /\ rate.measured + rate.censored + rate.excluded = Cardinality(rate.cohort)
        /\ cache_read_rate(rate.cohort, rate.cold) = rate

(* commands.rs freeze_cache_cohort: the rate held and the rate served are  *)
(* one, although either read of a freeze or of a refresh may fail.         *)
ServedRateIsHeld == economy.rate = rate

(* commands.rs project_economy, landing_settlement: a shown selection is   *)
(* proven by the rows.  The prepared model is named only for a send no     *)
(* substitute answered or was tried for, a fallback is said to have        *)
(* answered only where one did, and where the snapshot says none did none  *)
(* has, unless a refresh of that send failed or is due.                    *)
ShownIsProven ==
    LET shown == economy.sent
        due   == shown \in unnoted \/ (shown = send.attempt /\ send.at # "idle") IN
    shown # 0 /\ ~due =>
        /\ economy.named => Own(shown) # {} /\ Family(shown) = {}
        /\ economy.source = "fallback answered" => Answered(shown)
        /\ economy.source \in {"fallback unresolved", "no fallback answered"} => ~Answered(shown)

\* The economy snapshot as a whole: a frozen rate stands, a served rate is held, and a
\* figure is shown of a landing the rows prove.
EconomyIsProven == FrozenRateStands /\ ServedRateIsHeld /\ ShownIsProven
=============================================================================
