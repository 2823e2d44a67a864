------------------------------ MODULE PlanRules -----------------------------
(***************************************************************************)
(* The rules of src/src/actions.rs and src/src/state.rs that decide which  *)
(* capabilities a request needs, what row each one is recorded as, when a  *)
(* row holds its task and when the plan gate opens.                        *)
(***************************************************************************)
EXTENDS Integers, Sequences

PLAN_STAGES == {"frame_goal", "challenge_direction", "design_contracts",
                "plan_work", "assess_plan"}
CHECKS == {"inspect_system", "assess_security", "audit_tests", "implement_change",
           "deliver_change", "review_change", "diagnose_issue", "assess_readiness"}
SELECTION_CAPABILITIES == PLAN_STAGES \union CHECKS
RequestKind == {"change", "deliver", "plan_only", "audit", "diagnose"}

\* What a request says of the work, and the learned conditions in force when
\* it is weighed.  A scan that is not decided says nothing of the surfaces.
PlanRequest ==
    { r \in [kind : RequestKind, decided : BOOLEAN, risky : BOOLEAN, security : BOOLEAN,
             approved : BOOLEAN, coordinated : BOOLEAN,
             require : SUBSET SELECTION_CAPABILITIES,
             decline : SUBSET SELECTION_CAPABILITIES] :
        /\ ~ r.decided => ~ r.risky
        /\ r.security => r.risky
        /\ r.require \cap r.decline = {} }

\* facts_digest: the learned conditions are not facts of the request.
Facts(r) == <<r.kind, r.decided, r.risky, r.security, r.approved, r.coordinated>>
NoFacts == << >>

When(holds) == IF holds THEN "required" ELSE "skip"

\* The triggers, before learned conditions.
OwnNeed(r, c) ==
    LET risk == CASE r.approved  -> "skip"
                  [] ~ r.decided -> "unresolved"
                  [] OTHER       -> When(r.risky)
        plan == IF ~ r.decided THEN "unresolved"
                ELSE When(r.kind = "plan_only" \/ r.coordinated \/ (r.risky /\ ~ r.approved))
    IN  CASE c = "frame_goal"                  -> When(~ r.approved)
          [] c \in {"challenge_direction", "design_contracts"} -> risk
          [] c \in {"plan_work", "assess_plan"} -> plan
          [] c = "inspect_system"              -> When(~ r.decided)
          [] c = "assess_security" -> IF r.decided THEN When(r.security) ELSE "unresolved"
          [] c \in {"audit_tests", "implement_change"} -> When(r.kind \in {"change", "deliver"})
          [] c = "deliver_change"              -> When(r.kind = "deliver")
          [] c = "review_change"               -> When(r.kind = "audit")
          [] c = "diagnose_issue"              -> When(r.kind = "diagnose")
          [] c = "assess_readiness"            -> "required"

\* A learned condition decides a need only where the facts decided it first.
Need(r, c) ==
    CASE OwnNeed(r, c) = "unresolved" -> "unresolved"
      [] OwnNeed(r, c) # "unresolved" /\ c \in r.require -> "required"
      [] OwnNeed(r, c) # "unresolved" /\ c \in r.decline -> "skip"
      [] OTHER -> OwnNeed(r, c)

Local == {"frame_goal", "plan_work", "assess_plan", "inspect_system"}
Purpose == {"challenge_direction", "design_contracts"}

\* route: the handler of a capability, "none" where this build has none.
Handler(kind, c) ==
    CASE c \in Local \union Purpose -> c
      [] c = "assess_readiness" /\ kind = "plan_only" -> "assess_plan"
      [] OTHER -> "none"

NoBlocker == [reason |-> "none", question |-> 0]
Capability == [reason |-> "capability_unavailable", question |-> 0]
Dependency == [reason |-> "dependency_blocked", question |-> 0]
Decision(q) == [reason |-> "decision", question |-> q]

NoOutcome == [of |-> "none", ref |-> 0]
Closed == [of |-> "closed", ref |-> 0]
AnsweredFork(q) == [of |-> "answered_fork", ref |-> q]
Judged(p) == [of |-> "plan", ref |-> p]

\* row_write: the row a needed capability is recorded as.
RowWrite(r, c) ==
    LET handler == Handler(r.kind, c)
    IN  [applicability |-> Need(r, c),
         execution     |-> "pending",
         handler       |-> handler,
         blocker       |-> CASE Need(r, c) = "unresolved"          -> Dependency
                             [] Need(r, c) # "unresolved"
                                /\ (c \in Purpose \/ handler = "none") -> Capability
                             [] OTHER                              -> NoBlocker,
         outcome       |-> NoOutcome]

SelectedRows(r) ==
    [c \in { x \in SELECTION_CAPABILITIES : Need(r, x) # "skip" } |-> RowWrite(r, c)]

\* holds_lifecycle: an unresolved row holds; else its blocker does, unless it
\* is a fork's, or the missing handler of a required check.
HoldsLifecycle(rows, c) ==
    \/ rows[c].applicability = "unresolved"
    \/ /\ rows[c].blocker.reason \in {"capability_unavailable", "dependency_blocked"}
       /\ ~ /\ c \notin PLAN_STAGES
            /\ rows[c].handler = "none"
            /\ rows[c].blocker = Capability

PlanRowHolds(rows) == \E c \in DOMAIN rows : HoldsLifecycle(rows, c)

\* Revisions recorded under one selection, and the last of them (0: none).
RevisionsOf(plans, selection) == { p \in DOMAIN plans : plans[p].selection = selection }
LatestRevision(plans, selection) ==
    IF RevisionsOf(plans, selection) = {} THEN 0
    ELSE CHOOSE p \in RevisionsOf(plans, selection) :
            \A o \in RevisionsOf(plans, selection) : o <= p

Passed(plans, selection) ==
    /\ LatestRevision(plans, selection) # 0
    /\ plans[LatestRevision(plans, selection)].verdict = "pass"

\* gate_on.  Checks never gate: they follow the effect the gate admits.
PlanGate(selection, rows, plans) ==
    CASE selection = 0 -> "unassessed"
      [] /\ selection # 0
         /\ \A c \in DOMAIN rows :
              /\ rows[c].applicability # "unresolved"
              /\ c \in PLAN_STAGES => rows[c].execution = "satisfied"
         /\ "plan_work" \in DOMAIN rows => Passed(plans, selection) -> "open"
      [] OTHER -> "paused"
=============================================================================
