------------------------------ MODULE MC_Root -------------------------------
(***************************************************************************)
(* One data root: which process may write it, which attempt may run, which *)
(* base it serves, the requests of its clients and the pages they read,    *)
(* the self update, the supervisor of the loop, the readers of its index,  *)
(* and the helper that starts a confined program. A behaviour is one       *)
(* component's; the others stay in their first state.                      *)
(***************************************************************************)
EXTENDS Claims, Writers, Releases, Helper, Clients, Supervisor, SymbolIndex,
        IndexReaders, TLC

VARIABLE part     \* the component this behaviour is of

\* Three base versions, the second offered as two documents.
InstallMC == {[version |-> 1, digest |-> "a", purposes |-> {1, 2, 3}],
              [version |-> 2, digest |-> "b", purposes |-> {1, 3}],
              [version |-> 2, digest |-> "c", purposes |-> {1}],
              [version |-> 3, digest |-> "d", purposes |-> {1, 2}]}
RuleMC == {[kind |-> "role", old |-> 2, new |-> 1],
           [kind |-> "action", old |-> 31, new |-> 32],
           [kind |-> "action", old |-> 32, new |-> 31]}
FirstBoundMC == 11 :> 2 @@ 21 :> 31 @@ 22 :> 32
EffectMC == 21 :> "require" @@ 22 :> "skip"

\* Tasks that run, wait for one of two questions, are blocked, paused or over.
ContentMC(life, pending, unresolved, unknown, plan) ==
    [life |-> life, pending |-> pending, unresolved |-> unresolved,
     unknown |-> unknown, plan |-> plan]
ForkMC == <<<<"decision", 1>>, <<"plan", 0>>>>
ContentsMC ==
    {ContentMC("running", 0, TRUE, FALSE, <<>>), ContentMC("waiting", 1, TRUE, FALSE, ForkMC),
     ContentMC("waiting", 2, FALSE, FALSE, ForkMC), ContentMC("blocked", 0, FALSE, FALSE, <<>>),
     ContentMC("blocked", 2, TRUE, TRUE, ForkMC), ContentMC("paused", 1, FALSE, TRUE, ForkMC),
     ContentMC("cancelled", 0, FALSE, TRUE, <<>>)}

ObservationMC(t, c, s, p, w) ==
    [task |-> t, class |-> c, signature |-> s, progress |-> p, waiting |-> w]
FirstRead == <<"a", 1>>
\* One task that repeats, alternates, waits and progresses, and two others.
ObservationsMC ==
    {ObservationMC("t", "read", s, p, FALSE) :
        s \in {FirstRead, <<"a", 2>>, <<"b", 1>>}, p \in BOOLEAN}
    \cup {ObservationMC("t", c, FirstRead, FALSE, TRUE) : c \in {"read", "test"}}
    \cup {ObservationMC("t", "test", FirstRead, FALSE, FALSE)}
    \cup {ObservationMC(t, "read", FirstRead, FALSE, FALSE) : t \in {"u", "v"}}
ThresholdMC ==
    [read |-> [window |-> 4, exact_repeat |-> 2, fuzzy_repeat |-> 3,
               ping_pong |-> 3, no_progress |-> 4, cooldown |-> 1],
     test |-> [window |-> 3, exact_repeat |-> 2, fuzzy_repeat |-> 3,
               ping_pong |-> 2, no_progress |-> 2, cooldown |-> 2]]

\* The tokens files are written with, per grammar and theme.
ProfileMC ==
    {[grammar |-> "rust", tokens |-> {"fn", "fnx", "{", "}", "let", "item", "glob", "use"}],
     [grammar |-> "rust",
      tokens |-> {"mod", "fnm", "{", "}", "let", "item", "const", "import", "use"}],
     [grammar |-> "rust", tokens |-> {"mod", "fnm", "}", "item", "glob", "mx", "selfx"}],
     [grammar |-> "ts", tokens |-> {"mod", "fnm", "{", "}", "let", "item", "var", "use"}]}

\* Files of a tree: claimed by the index, hits, openable, damaged, ignored, encodable.
ShapeOf(covered, hits, opens, damaged, ignored, spelled) ==
    [claimed |-> covered, hits |-> hits, opens |-> opens,
     damaged |-> damaged, ignored |-> ignored, spelled |-> spelled]
FirstShape == ShapeOf(TRUE, 1, TRUE, FALSE, FALSE, TRUE)
ShapeMC ==
    {ShapeOf(TRUE, 1, TRUE, FALSE, FALSE, TRUE), ShapeOf(TRUE, 2, TRUE, FALSE, FALSE, TRUE),
     ShapeOf(TRUE, 1, FALSE, FALSE, FALSE, TRUE), ShapeOf(TRUE, 1, TRUE, TRUE, FALSE, TRUE),
     ShapeOf(FALSE, 1, TRUE, FALSE, FALSE, TRUE), ShapeOf(FALSE, 1, FALSE, FALSE, FALSE, TRUE),
     ShapeOf(TRUE, 1, TRUE, FALSE, TRUE, TRUE), ShapeOf(TRUE, 2, TRUE, FALSE, FALSE, FALSE)}

\* Relations with a diamond, a cycle, a candidate outside the graph (9) and a dynamic one.
RelationOf(from, candidates, dynamic) ==
    [from |-> from, candidates |-> candidates, dynamic |-> dynamic]
RelationMC ==
    {RelationOf(2, <<1>>, FALSE), RelationOf(3, <<9, 1>>, FALSE), RelationOf(4, <<2>>, FALSE),
     RelationOf(5, <<4>>, FALSE), RelationOf(5, <<3>>, FALSE), RelationOf(1, <<3>>, FALSE),
     RelationOf(4, <<1>>, TRUE), RelationOf(2, <<9>>, FALSE)}

\* Clone flags: plain, one bit above the namespaces, and each namespace.
FlagMC == {17, 17 + 2^8} \cup {17 + f : f \in CLONE_NEW_NAMESPACE_FLAGS}
FirstCall == [arch |-> "x86_64", n |-> 56, nr |-> 56, args |-> <<<<17, 0>>, <<0, 0>>, <<0, 0>>>>]
SocketArgMC == {<<0, 0>>, <<1, 0>>, <<1, 1>>, <<524293, 0>>}

TokenOf(flag, value) == [flag |-> flag, value |-> value]
TokenMC == {TokenOf("--", 0), TokenOf("profile", 0), TokenOf("other", 0)}
           \cup {TokenOf("budget", n) : n \in {1, 2, 7}}
FirstHost == [range |-> TRUE, listing |-> "ok", initialNs |-> FALSE, landlock |-> TRUE,
              capset |-> "done"]
WorkerLimit == [r \in Resource |-> 2]
CheckLimit == [r \in Resource |-> 4]

\* The components this behaviour is not of stay in their first state.
OthersStay ==
    /\ part # "claims" => UNCHANGED claimsVars
    /\ part # "writers" => UNCHANGED writersVars
    /\ part # "base" => UNCHANGED baseVars
    /\ part # "update" => UNCHANGED updateVars
    /\ part # "census" => UNCHANGED censusVars
    /\ part # "requests" => UNCHANGED requestVars
    /\ part # "bootstraps" => UNCHANGED bootstraps
    /\ part # "pages" => UNCHANGED pageVars
    /\ part # "events" => UNCHANGED logVars
    /\ part # "supervisor" => UNCHANGED supervisorVars
    /\ part # "symbols" => UNCHANGED symbolVars
    /\ part # "searches" => UNCHANGED searchVars
    /\ part # "impact" => UNCHANGED impactVars
    /\ part # "helper" => UNCHANGED helperVars
    /\ part # "filter" => UNCHANGED filterVars

SumInit ==
    /\ part \in {"claims", "writers", "base", "update", "census",
                 "requests", "bootstraps", "pages", "events",
                 "supervisor", "symbols", "searches", "impact",
                 "helper", "filter"}
    /\ part # "claims" => ClaimsInit
    /\ part # "writers" => WritersInit
    /\ part # "base" => BaseInit
    /\ part # "update" => UpdateInit
    /\ part # "census" => CensusInit /\ traced = {}
    /\ part # "requests" => RequestsInit
    /\ part # "bootstraps" => BootInit
    /\ part # "pages" => PagesInit
    /\ part # "events" => LogInit /\ follower.of = "all"
    /\ part # "supervisor" => SupervisorInit /\ latest.task = "v"
    /\ part # "symbols" => SymbolInit /\ grammar = "ts"
    /\ part # "searches" => SearchInit /\ tree = [f \in 1..Files |-> [shape |-> FirstShape, version |-> 1]] /\ query = CHOOSE q \in Queries : TRUE
    /\ part # "impact" => ImpactInit /\ stated = {} /\ slice.limits = [depth |-> 1, nodes |-> 1]
    /\ part # "helper" => HelperInit /\ host = FirstHost /\ args = [mode |-> "launch", tokens |-> <<>>] /\ helper.hard = [r \in Resource |-> 5]
    /\ part # "filter" => FilterInit /\ filter = [stage |-> "Final", machine |-> "x86_64"] /\ call = FirstCall
    /\ part = "claims" => ClaimsInit
    /\ part = "writers" => WritersInit
    /\ part = "base" => BaseInit
    /\ part = "update" => UpdateInit
    /\ part = "census" => CensusInit
    /\ part = "requests" => RequestsInit
    /\ part = "bootstraps" => BootInit
    /\ part = "pages" => PagesInit
    /\ part = "events" => LogInit
    /\ part = "supervisor" => SupervisorInit
    /\ part = "symbols" => SymbolInit
    /\ part = "searches" => SearchInit
    /\ part = "impact" => ImpactInit
    /\ part = "helper" => HelperInit
    /\ part = "filter" => FilterInit

SumNext ==
    \/ part = "claims" /\ ClaimsNext /\ OthersStay /\ UNCHANGED part
    \/ part = "writers" /\ WritersNext /\ OthersStay /\ UNCHANGED part
    \/ part = "base" /\ BaseNext /\ OthersStay /\ UNCHANGED part
    \/ part = "update" /\ UpdateNext /\ OthersStay /\ UNCHANGED part
    \/ part = "census" /\ CensusNext /\ OthersStay /\ UNCHANGED part
    \/ part = "requests" /\ RequestsNext /\ OthersStay /\ UNCHANGED part
    \/ part = "bootstraps" /\ BootNext /\ OthersStay /\ UNCHANGED part
    \/ part = "pages" /\ PagesNext /\ OthersStay /\ UNCHANGED part
    \/ part = "events" /\ LogNext /\ OthersStay /\ UNCHANGED part
    \/ part = "supervisor" /\ SupervisorNext /\ OthersStay /\ UNCHANGED part
    \/ part = "symbols" /\ SymbolNext /\ OthersStay /\ UNCHANGED part
    \/ part = "searches" /\ SearchNext /\ OthersStay /\ UNCHANGED part
    \/ part = "impact" /\ ImpactNext /\ OthersStay /\ UNCHANGED part
    \/ part = "helper" /\ HelperNext /\ OthersStay /\ UNCHANGED part
    \/ part = "filter" /\ FilterNext /\ OthersStay /\ UNCHANGED part

sumVars == <<part, claimsVars, writersVars, baseVars, updateVars, censusVars,
    requestVars, bootstraps, pageVars, logVars, supervisorVars, symbolVars,
    searchVars, impactVars, helperVars, filterVars>>

=============================================================================
