------------------------------ MODULE MC_Links ------------------------------
(***************************************************************************)
(* The way to a model and back: configuration, the broker's choice of a    *)
(* connection, credentials and logins, the stream of a reply, and the      *)
(* calls to an MCP server. A behaviour is one component's; the others stay *)
(* in their first state.                                                   *)
(***************************************************************************)
EXTENDS Streams, Credentials, McpCalls, Configuration, Broker, Lineages, TLC

VARIABLE part     \* the component this behaviour is of

EventsMC(d) == CASE d = "chat" -> 4 [] d = "messages" -> 6 [] OTHER -> 5
\* Two connections whose models were catalogued and a pinned one.
RowsMC == "a" :> <<[reasoning |-> FALSE, window |-> 1, cost |-> 1]>>
       @@ "b" :> <<[reasoning |-> TRUE, window |-> 2, cost |-> 0]>> @@ "c" :> <<>>
PoolMC == <<"a", "b", "c">>
ChainMC == <<"b", "c">>
ContractMC == "a" :> "x" @@ "b" :> "x" @@ "c" :> "y"
\* Two conversations, one of each of two tasks.
LineageMC == {<<"v", 1>>, <<"w", 1>>}

\* A configuration document without groups and purposes.
Bare(d) == /\ d.groups = [g \in Groups |-> NoModel]
           /\ d.purposes = [p \in Purposes |-> NoPurpose]

Symmetry == Permutations(Purposes)

\* The components this behaviour is not of stay in their first state.
OthersStay ==
    /\ part # "stream" => UNCHANGED streamVars
    /\ part # "framing" => UNCHANGED framingVars
    /\ part # "credentials" => UNCHANGED credentialVars
    /\ part # "logins" => UNCHANGED loginVars
    /\ part # "mcp" => UNCHANGED mcpVars
    /\ part # "edits" => UNCHANGED editVars
    /\ part # "rules" => UNCHANGED rulesVars
    /\ part # "broker" => UNCHANGED brokerVars
    /\ part # "lineages" => UNCHANGED lineageVars

SumInit ==
    /\ part \in {"stream", "framing", "credentials", "logins", "mcp",
                 "edits", "rules", "broker", "lineages"}
    /\ part # "stream" => StreamInit /\ dialect = "chat"
    /\ part # "framing" => FramingInit /\ format = "sse" /\ input = <<>>
    /\ part # "credentials" => CredentialInit
    /\ part # "logins" => LoginsInit
    /\ part # "mcp" => McpInit
    /\ part # "edits" => EditsInit /\ attests /\ onDisk.ino = 1
    /\ part # "rules" => RulesInit /\ Bare(baseLayer) /\ Bare(doc) /\ doc.profiles = [f \in Profiles |-> "none"]
    /\ part # "broker" => BrokerInit
    /\ part # "lineages" => LineagesInit /\ wire.dialect = "gemini"
    /\ part = "stream" => StreamInit
    /\ part = "framing" => FramingInit
    /\ part = "credentials" => CredentialInit
    /\ part = "logins" => LoginsInit
    /\ part = "mcp" => McpInit
    /\ part = "edits" => EditsInit
    /\ part = "rules" => RulesInit
    /\ part = "broker" => BrokerInit
    /\ part = "lineages" => LineagesInit

SumNext ==
    \/ part = "stream" /\ StreamNext /\ OthersStay /\ UNCHANGED part
    \/ part = "framing" /\ FramingNext /\ OthersStay /\ UNCHANGED part
    \/ part = "credentials" /\ CredentialNext /\ OthersStay /\ UNCHANGED part
    \/ part = "logins" /\ LoginsNext /\ OthersStay /\ UNCHANGED part
    \/ part = "mcp" /\ McpNext /\ OthersStay /\ UNCHANGED part
    \/ part = "edits" /\ EditsNext /\ OthersStay /\ UNCHANGED part
    \/ part = "rules" /\ RulesNext /\ OthersStay /\ UNCHANGED part
    \/ part = "broker" /\ BrokerNext /\ OthersStay /\ UNCHANGED part
    \/ part = "lineages" /\ LineagesNext /\ OthersStay /\ UNCHANGED part

sumVars == <<part, streamVars, framingVars, credentialVars, loginVars,
    mcpVars, editVars, rulesVars, brokerVars, lineageVars>>

=============================================================================
