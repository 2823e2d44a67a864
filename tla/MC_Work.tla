------------------------------ MODULE MC_Work -------------------------------
(***************************************************************************)
(* The effects a task's tools ask for, the checks of a candidate, the      *)
(* index of its project, the rules it learned and the segments it replays. *)
(* A behaviour is one component's; the others stay in their first state.   *)
(***************************************************************************)
EXTENDS Effects, Checks, ProjectIndex, Learning, TLC

VARIABLE part     \* the component this behaviour is of

\* Rows of a lockfile: two crates, a conflicting checksum, a workspace package, a git
\* source and a malformed row.
LockRowOf(key, from, formed, checksum) ==
    [key |-> key, source |-> from, formed |-> formed, checksum |-> checksum]
FirstFile == [size |-> 1, links |-> 1, digest |-> "good", denied |-> FALSE]
FirstFilesMC == {FirstFile}
LockRowMC ==
    {LockRowOf(1, "registry", TRUE, "good"), LockRowOf(2, "registry", TRUE, "good"),
     LockRowOf(1, "registry", TRUE, "other"), LockRowOf(2, "path", TRUE, "good"),
     LockRowOf(1, "git", TRUE, "good"), LockRowOf(2, "registry", FALSE, "good")}

\* Instructions of one purpose, one of them too long, and two predicates.
PurposeMC == [fact |-> "purpose", is |-> 1]
KindMC == [fact |-> "kind", is |-> 1]
InstructionMC(bytes) == [scope |-> "instruction", bytes |-> bytes, when |-> PurposeMC,
                         effect |-> "none", clean |-> TRUE]
PredicateMC(effect, when) == [scope |-> "action", bytes |-> 0, when |-> when,
                              effect |-> effect, capability |-> "c", clean |-> TRUE]
ChangeMC == {InstructionMC(3), InstructionMC(9),
             PredicateMC("require", KindMC), PredicateMC("skip", PurposeMC)}
FactsMC == {PurposeMC, KindMC}
CallsMC == {CaseKind}

Symmetry == Permutations(File) \cup Permutations(DeltaId)

\* The components this behaviour is not of stay in their first state.
OthersStay ==
    /\ part # "effects" => UNCHANGED effectVars
    /\ part # "checks" => UNCHANGED checkVars
    /\ part # "dependencies" => UNCHANGED dependencyVars
    /\ part # "index" => UNCHANGED indexVars
    /\ part # "deltas" => UNCHANGED deltasVars
    /\ part # "procedures" => UNCHANGED proceduresVars

SumInit ==
    /\ part \in {"effects", "checks", "dependencies", "index", "deltas",
                 "procedures"}
    /\ part # "effects" => EffectsInit
    /\ part # "checks" => ChecksInit /\ ~ check.native /\ ~ check.deps
    /\ part # "dependencies" => DependenciesInit /\ lock = <<>> /\ away = {} /\ (\A leaf \in Leaf : cacheFiles[leaf] = FirstFile)
    /\ part # "index" => IndexInit /\ disk = [f \in File |-> 0]
    /\ part # "deltas" => DeltasInit
    /\ part # "procedures" => ProceduresInit
    /\ part = "effects" => EffectsInit
    /\ part = "checks" => ChecksInit
    /\ part = "dependencies" => DependenciesInit
    /\ part = "index" => IndexInit
    /\ part = "deltas" => DeltasInit
    /\ part = "procedures" => ProceduresInit

SumNext ==
    \/ part = "effects" /\ EffectsNext /\ OthersStay /\ UNCHANGED part
    \/ part = "checks" /\ ChecksNext /\ OthersStay /\ UNCHANGED part
    \/ part = "dependencies" /\ DependenciesNext /\ OthersStay /\ UNCHANGED part
    \/ part = "index" /\ IndexNext /\ OthersStay /\ UNCHANGED part
    \/ part = "deltas" /\ DeltasNext /\ OthersStay /\ UNCHANGED part
    \/ part = "procedures" /\ ProceduresNext /\ OthersStay /\ UNCHANGED part

sumVars == <<part, effectVars, checkVars, dependencyVars, indexVars,
    deltasVars, proceduresVars>>

=============================================================================
