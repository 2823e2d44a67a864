----------------------------- MODULE MC_Ledger ------------------------------
(***************************************************************************)
(* The records of a task: the budget ledger and the snapshot shown of it,  *)
(* the evidence and the continuations, the assumptions of its checks, the  *)
(* forks put to the user and the order of its plan's parts. A behaviour is *)
(* one component's; the others stay in their first state.                  *)
(***************************************************************************)
EXTENDS Ledger, Economy, Evidence, Plans, TLC

VARIABLE part     \* the component this behaviour is of

\* Forks of two positions: which of them are open, the recommended one, whether it
\* rests on evidence, and the plan row it belongs to.
ForkOf(first, second, recommended, basis, row) ==
    [positions |-> <<first, second>>, recommended |-> recommended, basis |-> basis, row |-> row]
Enabled(id) == [id |-> id, state |-> "enabled"]
Withheld(state) == [id |-> "y", state |-> state]
ForksMC ==
    {ForkOf(Enabled("x"), Enabled("y"), "y", TRUE, "none"),
     ForkOf(Enabled("x"), Enabled("y"), "y", TRUE, "challenge"),
     ForkOf(Enabled("x"), Enabled("z"), "x", TRUE, "none"),
     ForkOf(Enabled("x"), Withheld("disabled"), "y", TRUE, "none"),
     ForkOf(Enabled("x"), Withheld("disabled"), "x", TRUE, "design"),
     ForkOf(Enabled("x"), Withheld("unexplained"), "x", TRUE, "none"),
     ForkOf(Enabled("x"), Enabled("x"), "x", TRUE, "none"),
     ForkOf(Enabled("bad"), Enabled("x"), "x", TRUE, "none"),
     ForkOf(Enabled("x"), Enabled("y"), "y", FALSE, "none")}

\* A warm reply, a cold one, and one that leaves the cache legs out (9).
UsageOf(prompt, read, write) == [prompt |-> prompt, read |-> read, write |-> write]
UsageMC == {UsageOf(2, 1, 0), UsageOf(1, 0, 0), UsageOf(1, 9, 0)}
CohortMC == {{}, {1}, {1, 2}, {2, 3}}

\* Parts of a plan with every dependency among three, and parts no plan may hold.
PartOf(id, needs, serves, proven) ==
    [id |-> id, needs |-> needs, serves |-> serves, proof |-> proven]
PartMC ==
    {PartOf(id, needs, {1}, TRUE) : id \in {"a", "b", "c"}, needs \in SUBSET {"a", "b", "c"}}
    \cup {PartOf("bad", {}, {}, TRUE), PartOf("a", {"d"}, {1}, TRUE), PartOf("b", {}, {2}, TRUE),
          PartOf("c", {}, {1, 3}, TRUE), PartOf("c", {}, {1}, FALSE)}

Symmetry == Permutations(Scope)

\* The components this behaviour is not of stay in their first state.
OthersStay ==
    /\ part # "ledger" => UNCHANGED vars
    /\ part # "economy" => UNCHANGED economyVars
    /\ part # "continuations" => UNCHANGED continuationVars
    /\ part # "forks" => UNCHANGED forkVars
    /\ part # "assumptions" => UNCHANGED assumptionVars
    /\ part # "parts" => UNCHANGED partsVars

SumInit ==
    /\ part \in {"ledger", "economy", "continuations", "forks",
                 "assumptions", "parts"}
    /\ part # "ledger" => Init
    /\ part # "economy" => EconomyInit
    /\ part # "continuations" => ContinuationInit
    /\ part # "forks" => ForksInit /\ forkMode = "ask"
    /\ part # "assumptions" => AssumptionsInit
    /\ part # "parts" => PartsInit /\ ordering.parts = <<>> /\ criteria = {}
    /\ part = "ledger" => Init
    /\ part = "economy" => EconomyInit
    /\ part = "continuations" => ContinuationInit
    /\ part = "forks" => ForksInit
    /\ part = "assumptions" => AssumptionsInit
    /\ part = "parts" => PartsInit

SumNext ==
    \/ part = "ledger" /\ Next /\ OthersStay /\ UNCHANGED part
    \/ part = "economy" /\ EconomyNext /\ OthersStay /\ UNCHANGED part
    \/ part = "continuations" /\ ContinuationNext /\ OthersStay /\ UNCHANGED part
    \/ part = "forks" /\ ForksNext /\ OthersStay /\ UNCHANGED part
    \/ part = "assumptions" /\ AssumptionsNext /\ OthersStay /\ UNCHANGED part
    \/ part = "parts" /\ PartsNext /\ OthersStay /\ UNCHANGED part

sumVars == <<part, vars, economyVars, continuationVars, forkVars,
    assumptionVars, partsVars>>

=============================================================================
