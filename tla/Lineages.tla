------------------------------ MODULE Lineages ------------------------------
(***************************************************************************)
(* What the provider adapters remember between two calls: the replay sets  *)
(* of src/src/providers/openai.rs (responses), gemini.rs and anthropic.rs  *)
(* (messages), keyed by world, purpose and epoch, and the owners of the    *)
(* reasoning artifacts in them.  An adapter serves one call at a time.  A  *)
(* wire item is its kind, its artifact, and the call it was minted in; the *)
(* decoding of the stream is Streams.                                      *)
(***************************************************************************)
EXTENDS Naturals, Sequences, SequencesExt

CONSTANTS
    Lineage,        \* (world, epoch) pairs; a purpose is part of the epoch here
    Blob,           \* encrypted reasoning contents, thought signatures
    ModelId,
    MODEL_WIRE_MAX, \* MODEL_WIRE_MAX_BYTES, in items
    MaxItems,       \* bound on the items of a reply
    MaxSends        \* bound on the calls

ASSUME LineagesAssumption == MODEL_WIRE_MAX \in Nat /\ Lineage # {} /\ <<"none", 0>> \notin Lineage

VARIABLES
    wire,           \* the dialect, and whether its contract keeps artifacts
    lineages,       \* the replay sets
    owner,          \* blob_owner, signature_owner
    flight,         \* the call in progress
    sends,          \* the calls so far
    kept,           \* what completed calls returned, per lineage (for the properties)
    cutAt           \* the last call that mutated a lineage or switched its model
lineageVars == <<wire, lineages, owner, flight, sends, kept, cutAt>>

NoOwner == <<"none", 0>>
NoSet == [model |-> "none", items |-> <<>>]
Landed == [at |-> "idle", key |-> NoOwner, model |-> "none", replay |-> <<>>, drop |-> FALSE,
           posts |-> 0, retries |-> 0, output |-> <<>>]
Messages == wire.dialect = "messages"

LineagesInit ==
    /\ \/ \E a \in BOOLEAN : wire = [dialect |-> "responses", artifact |-> a]
       \/ \E d \in {"messages", "gemini"} : wire = [dialect |-> d, artifact |-> TRUE]
    /\ lineages = [k \in Lineage |-> NoSet] /\ owner = [b \in Blob |-> NoOwner]
    /\ flight = Landed /\ sends = 0
    /\ kept = [k \in Lineage |-> <<>>] /\ cutAt = [k \in Lineage |-> 0]

----------------------------------------------------------------------------
\* The request.

\* send, before its body: a passed deadline, no usable secret, an unpinned or
\* foreign model, an effort, tool or model the contract does not take.
SendRefused ==
    /\ flight.at \in {"idle", "ended"} /\ sends < MaxSends
    /\ flight' = [Landed EXCEPT !.at = "ended"] /\ sends' = sends + 1
    /\ UNCHANGED <<wire, lineages, owner, kept, cutAt>>

\* Mutant: a mutated lineage is dropped from the request only.
BindingKeeps(k, model, mutated) ==
    IF mutated THEN [set |-> lineages[k], replay |-> <<>>, drop |-> TRUE]
    ELSE IF lineages[k].model \in {model, "none"}
         THEN [set |-> lineages[k], replay |-> lineages[k].items, drop |-> FALSE]
         ELSE [set |-> NoSet, replay |-> <<>>, drop |-> TRUE]

\* binding: the set is replayed to the model that minted it; a mutation or
\* another model forgets it, before anything is sent.
Binding(k, model, mutated) ==
    IF ~ mutated /\ lineages[k].model \in {model, "none"}
    THEN [set |-> lineages[k], replay |-> lineages[k].items, drop |-> FALSE]
    ELSE [set |-> NoSet, replay |-> <<>>, drop |-> TRUE]

\* request_body of the other two dialects: all of the lineage, whatever model.
RequestBody(k) == [set |-> lineages[k], replay |-> lineages[k].items, drop |-> FALSE]

\* send and send_manifest up to the post; a body past the wire bound, or a
\* deadline reached by now, ends the call with the binding already made.
Send(k, model, mutated) ==
    /\ flight.at \in {"idle", "ended"} /\ sends < MaxSends /\ sends' = sends + 1
    /\ LET bound == IF Messages THEN Binding(k, model, mutated) ELSE RequestBody(k)
           call == [Landed EXCEPT !.key = k, !.model = model, !.replay = bound.replay,
                                  !.drop = bound.drop]
       IN  /\ lineages' = [lineages EXCEPT ![k] = bound.set]
           /\ \/ /\ Len(bound.replay) < MODEL_WIRE_MAX
                 /\ flight' = [call EXCEPT !.at = "posted", !.posts = 1]
              \/ flight' = [call EXCEPT !.at = "ended"]
    /\ cutAt' = IF mutated \/ lineages[k].model \notin {model, "none"}
                THEN [cutAt EXCEPT ![k] = sends'] ELSE cutAt
    /\ UNCHANGED <<wire, owner, kept>>

----------------------------------------------------------------------------
\* The answer.

\* wire_retries of a reply, ProviderError::Retried of an error: the second post counts.
CallOver == [flight EXCEPT !.at = "ended", !.retries = flight.posts - 1]

\* A transport error, a refusing status, a stream that breaks off, an item no
\* dialect admits (not completed, undeclared tool, unknown type), a deadline.
CallFails ==
    /\ flight.at \in {"posted", "stream"} /\ flight' = CallOver
    /\ UNCHANGED <<wire, lineages, owner, sends, kept, cutAt>>

\* A 400 that names an invalid signature: the set is forgotten and the request
\* sent once more without it, unless the deadline has passed.
StripAndRetry ==
    /\ Messages /\ flight.at = "posted" /\ flight.replay # <<>>
    /\ lineages' = [lineages EXCEPT ![flight.key] = NoSet]
    /\ flight' \in {[flight EXCEPT !.replay = <<>>, !.posts = 2],
                    [flight EXCEPT !.at = "ended"]}
    /\ UNCHANGED <<wire, owner, sends, kept, cutAt>>

AnswerStarts ==
    /\ flight.at = "posted" /\ flight' = [flight EXCEPT !.at = "stream"]
    /\ UNCHANGED <<wire, lineages, owner, sends, kept, cutAt>>

\* An item of the reply; an artifact may be any the provider ever minted.
Items == [kind : {"text"}, blob : {"none"}, minted : {sends}]
         \cup [kind : {"reasoning"}, blob : Blob \cup {"none"}, minted : {sends}]
ItemArrives(item) ==
    /\ flight.at = "stream" /\ Len(flight.output) < MaxItems
    /\ flight' = [flight EXCEPT !.output = Append(flight.output, item)]
    /\ UNCHANGED <<wire, lineages, owner, sends, kept, cutAt>>

\* The items of one kind, in order.
OfKind(items, kind) ==
    LET F[n \in 0 .. Len(items)] ==
            IF n = 0 THEN <<>>
            ELSE IF items[n].kind = kind THEN Append(F[n - 1], items[n]) ELSE F[n - 1]
    IN  F[Len(items)]

Reasoning(items) == OfKind(items, "reasoning")
Blobs(items) == {i.blob : i \in ToSet(items)} \ {"none"}

\* complete: an artifact is new or this lineage's own.
ClaimsBlob(b) == owner[b] = NoOwner \/ owner[b] = flight.key

\* complete, its refusals: with an artifact contract each reasoning item of the
\* responses dialect carries one, without none does, and none is foreign.
Provenance ==
    /\ wire.dialect = "responses" =>
         \A i \in ToSet(Reasoning(flight.output)) : wire.artifact <=> i.blob # "none"
    /\ \A b \in Blobs(flight.output) : ClaimsBlob(b)

\* What a completed reply leaves of its items: all of them, without reasoning
\* when the contract keeps no artifact.
Replayed == IF wire.artifact THEN flight.output
            ELSE OfKind(flight.output, "text")

Owned == [b \in Blob |-> IF b \in Blobs(flight.output) THEN flight.key ELSE owner[b]]

\* complete of responses and gemini: provenance, then usage, then the lineage
\* and its owners.
TurnCommitted(usage) ==
    LET set == lineages[flight.key]
    IN  IF Provenance /\ usage
        THEN /\ lineages' = [lineages EXCEPT ![flight.key] =
                                [model |-> set.model, items |-> set.items \o Replayed]]
             /\ owner' = Owned
             /\ kept' = [kept EXCEPT ![flight.key] = kept[flight.key] \o Replayed]
        ELSE UNCHANGED <<lineages, owner, kept>>

Complete(usage) ==
    /\ ~ Messages /\ flight.at = "stream" /\ TurnCommitted(usage)
    /\ flight' = CallOver
    /\ UNCHANGED <<wire, sends, cutAt>>

\* read_stream of messages, its end, and commit: the thinking of this reply
\* replaces the set, under the model that minted it.  A total that overflows
\* fails it before that; every thinking block is signed.
Commit(usage) ==
    /\ Messages /\ flight.at = "stream"
    /\ \A i \in ToSet(Reasoning(flight.output)) : i.blob # "none"
    /\ IF usage
       THEN LET thinking == Reasoning(flight.output)
                set == IF thinking = <<>> THEN NoSet ELSE [model |-> flight.model, items |-> thinking]
            IN  /\ lineages' = [lineages EXCEPT ![flight.key] = set]
                /\ kept' = [kept EXCEPT ![flight.key] = set.items]
       ELSE UNCHANGED <<lineages, kept>>
    /\ flight' = CallOver
    /\ UNCHANGED <<wire, owner, sends, cutAt>>

LineagesNext ==
    \/ SendRefused
    \/ \E k \in Lineage, m \in ModelId, mutated \in BOOLEAN : Send(k, m, mutated)
    \/ CallFails \/ StripAndRetry \/ AnswerStarts
    \/ \E item \in Items : ItemArrives(item)
    \/ \E usage \in BOOLEAN : Complete(usage) \/ Commit(usage)

LineagesSpec == LineagesInit /\ [][LineagesNext]_lineageVars

----------------------------------------------------------------------------
\* A replay set is what the completed turns of its lineage returned, in order and
\* whole: a reply that fails at its last check, whatever arrived of it, leaves
\* nothing behind.  (Messages keeps only the last turn's, or has forgotten it.)
TurnsAreWhole ==
    \A k \in Lineage :
        IF Messages THEN lineages[k].items \in {<<>>, kept[k]} ELSE lineages[k].items = kept[k]

\* No artifact is replayed in a lineage other than the one it was minted in:
\* two lineages share none (openai.rs and gemini.rs, ReasoningProvenance).
ReasoningStaysHome ==
    ~ Messages => \A j, k \in Lineage : j # k =>
        Blobs(lineages[j].items) \cap Blobs(lineages[k].items) = {}

\* "never replays the stale set": once a lineage was mutated, or sent to another
\* model, nothing minted before is ever sent again, however the call ended.
StaleNeverReplayed ==
    Messages => \A i \in ToSet(flight.replay) : i.minted >= cutAt[flight.key]

\* A call that has ended reports exactly the posts it made beyond the first, and
\* never made more than one: the settlement counts physical sends by it.
RetriesReported ==
    /\ flight.posts <= 2
    /\ flight.at = "ended" /\ flight.posts > 0 => flight.retries = flight.posts - 1

\* A provider's lineage as a whole: a replayed turn is whole and current, reasoning goes back
\* only to where it came from, and retries are reported.
LineagesStayTrue ==
    TurnsAreWhole /\ ReasoningStaysHome /\ StaleNeverReplayed /\ RetriesReported
=============================================================================
