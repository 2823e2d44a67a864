---------------------------- MODULE MC_TaskStore ----------------------------
(***************************************************************************)
(* Two kinds of behaviour of one task. In one the evidence of every        *)
(* criterion is in and stays, and the plan is written, replaced and        *)
(* judged. In the other the proof of the criteria changes too, under one   *)
(* selection and one plan. The requests differ in what the selection must  *)
(* record: a plan whose rows this build can all close, a change of risky   *)
(* surfaces with no approved contract, and an undecided scan.              *)
(***************************************************************************)
EXTENDS TaskStore

VARIABLE part     \* what this behaviour is about: "plan" or "proof"

Plain == [kind |-> "plan_only", decided |-> TRUE, risky |-> FALSE, security |-> FALSE,
          approved |-> TRUE, coordinated |-> TRUE, require |-> {}, decline |-> {}]
Risky == [Plain EXCEPT !.kind = "change", !.risky = TRUE, !.approved = FALSE,
                       !.decline = {"challenge_direction"}]
Undecided == [Plain EXCEPT !.decided = FALSE]
Requested == {Plain, Risky, Undecided}

\* A rule learned between two selections of the same facts declines the judgement.
Unjudged == [Plain EXCEPT !.decline = {"assess_plan"}]
Relearned == {Plain, Unjudged}

\* The evidence of every criterion is in: an attempt was confirmed.
EvidenceIn ==
    /\ task = [lifecycle |-> "running", intent |-> 1, hold |-> "none", planBlock |-> FALSE]
    /\ questions = << >> /\ rows = << >> /\ plans = << >>
    /\ selection = [revision |-> 0, facts |-> NoFacts]
    /\ obligations = [c \in Criteria |-> [applicability |-> "required",
                                         execution |-> "satisfied"]]
    /\ evidence = [c \in Criteria |-> "current"]
    /\ attempts = [a \in Attempts |-> "confirmed"]

TaskInit ==
    \/ part = "plan" /\ EvidenceIn
    \/ part = "proof" /\ Init

\* One intent, one question, one selection and one plan where the proof moves.
TaskNext ==
    /\ Next /\ UNCHANGED part
    /\ part = "plan" => UNCHANGED proof /\ selection'.facts # Facts(Undecided)
    /\ part = "proof" => /\ task'.intent = 1 /\ Len(questions') <= 1
                         /\ selection'.revision <= 1 /\ selection'.facts # Facts(Risky)
                         /\ Len(plans') <= 1
=============================================================================
