---------------------------- MODULE IndexReaders ----------------------------
(***************************************************************************)
(* One bounded query over a project (src/src/context.rs: query_until and   *)
(* its text, path, source, ast and symbol legs; src/src/lsp.rs: the typed  *)
(* index of the symbol leg), served by the worker process while the files  *)
(* of the project change.  The walk is one step per file, the read of an   *)
(* indexed document two: the stamp, then the bytes.                        *)
(***************************************************************************)
EXTENDS Naturals, Sequences, FiniteSets, FiniteSetsExt, SequencesExt

CONSTANTS
    Shape,       \* what a file may be: claimed, hits, opens, damaged, ignored, spelled
    Files,       \* the number of files under the root
    Bounds,      \* the limits a caller may ask for
    MaxTreeChanges   \* bound on the changes of the tree

ASSUME SearchesAssumption ==
    Files \in Nat /\ Bounds \subseteq Nat \ {0} /\ MaxTreeChanges \in Nat

VARIABLES
    tree,        \* the files in the order of the walk: shape and version
    query,       \* the request
    search,      \* the pass over the tree: position, rows, counters, documents
    answer       \* how the request was answered
searchVars == <<tree, query, search, answer>>

NoAnswer == [is |-> "none"]
NoPin == [file |-> 0, version |-> 0]
NoFileNamed == 0
Outside == Files + 1

\* A pin or a named path may be absent, or lead out of the root; version 0
\* pins no version.
Queries ==
    {[kind |-> k, limit |-> n, include |-> i, pin |-> NoPin] :
        k \in {"text", "path", "ast", "symbol"}, n \in Bounds, i \in BOOLEAN}
    \cup {[kind |-> k, limit |-> n, include |-> FALSE, pin |-> [file |-> f, version |-> v]] :
        k \in {"source", "symbol"}, n \in Bounds, f \in NoFileNamed..Outside, v \in 0..1}

SearchInit ==
    /\ tree \in [1..Files -> [shape : Shape, version : {1}]]
    /\ query \in Queries
    /\ search = [at |-> 1, rows |-> <<>>, failed |-> 0, uncovered |-> 0, damaged |-> 0,
                 truncated |-> FALSE, docs |-> <<>>, unclaimed |-> <<>>, stamp |-> 0,
                 changes |-> 0]
    /\ answer = NoAnswer

Of(f) == tree[f].shape
\* walker: the standard filters, or the ignore rules off.
AdmittedFiles(f) == query.include \/ ~ Of(f).ignored
\* The hits of a file as it is now.
Hits(f) == [i \in 1..Of(f).hits |-> [file |-> f, version |-> tree[f].version, hit |-> i]]

\* Mutant: the bound is met one row late.
TakeOneMore(rows, hits) ==
    [rows |-> SubSeq(rows \o hits, 1, Min({Len(rows \o hits), query.limit + 1})),
     truncated |-> Len(rows \o hits) > query.limit + 1]

\* The hit past the bound is not taken and marks the result.
Take(rows, hits) ==
    [rows |-> SubSeq(rows \o hits, 1, Min({Len(rows \o hits), query.limit})),
     truncated |-> Len(rows \o hits) > query.limit]

----------------------------------------------------------------------------
\* The legs.

\* read_capped: a regular file that opens; the bytes come after the stamp.
Opens(f) == Of(f).opens
\* Grammar::for_path and the grammars the pattern compiled under.
Claimed(f) == Of(f).claimed

\* A pin that names no file is settled before the walk.
PinNames == query.pin = NoPin \/ query.pin.file \in 1..Files
SearchWalking(kinds) ==
    answer = NoAnswer /\ query.kind \in kinds /\ PinNames /\ ~ search.truncated /\ search.at <= Files
Advance(s) == search' = [s EXCEPT !.at = @ + 1] /\ UNCHANGED <<tree, query, answer>>
Served(s, hits) ==
    LET t == Take(s.rows, hits) IN [s EXCEPT !.rows = t.rows, !.truncated = t.truncated]

SkipFiltered ==
    /\ SearchWalking({"text", "path", "ast", "symbol"}) /\ ~ AdmittedFiles(search.at)
    /\ Advance(search)

\* text_query: a file that cannot be searched is a failed entry.
TextQuery ==
    /\ SearchWalking({"text"}) /\ AdmittedFiles(search.at)
    /\ Advance(IF Opens(search.at) THEN Served(search, Hits(search.at))
               ELSE [search EXCEPT !.failed = @ + 1])

\* path_query: the content is never opened.
PathQuery ==
    /\ SearchWalking({"path"}) /\ AdmittedFiles(search.at)
    /\ Advance(Served(search, SubSeq(Hits(search.at), 1, Min({1, Of(search.at).hits}))))

\* Mutant: a file of another language is passed over.
UncoveredNever(s) == s

\* A candidate no grammar claims is counted, never silently skipped.
UncoveredFiles(s) == [s EXCEPT !.uncovered = @ + 1]

\* ast_query
AstQuery ==
    /\ SearchWalking({"ast"}) /\ AdmittedFiles(search.at)
    /\ LET f == search.at
           damaged == [search EXCEPT !.damaged = @ + IF Of(f).damaged THEN 1 ELSE 0]
       IN Advance(IF ~ Claimed(f) THEN UncoveredFiles(search)
                  ELSE IF ~ Opens(f) THEN [search EXCEPT !.failed = @ + 1]
                  ELSE Served(damaged, Hits(f)))

----------------------------------------------------------------------------
\* The symbol leg: an index of the claimed files, then one answer over it.

\* Mutant: the stamp is taken after the bytes.
ReadCappedLateStamp(meta, read) == [stamp |-> read, bytes |-> meta]

\* read_capped: the metadata of the opened handle, then its bytes.
ReadCapped(meta, read) == [stamp |-> meta, bytes |-> read]

\* index_file: a file no grammar claims joins the fallback, one that does not
\* open is a failed entry; else its stamp is taken.
IndexFile ==
    /\ SearchWalking({"symbol"}) /\ AdmittedFiles(search.at) /\ search.stamp = 0
    /\ LET f == search.at
       IN IF ~ Claimed(f)
          THEN Advance([UncoveredFiles(search) EXCEPT !.unclaimed = Append(@, f)])
          ELSE IF ~ Opens(f) THEN Advance([search EXCEPT !.failed = @ + 1])
          ELSE /\ search' = [search EXCEPT !.stamp = tree[f].version]
               /\ UNCHANGED <<tree, query, answer>>

\* index_file: the bytes are read, parsed and their rows kept.
IndexBytes ==
    /\ SearchWalking({"symbol"}) /\ search.stamp # 0
    /\ LET f == search.at
           read == ReadCapped(search.stamp, tree[f].version)
           rows == [i \in 1..Of(f).hits |-> [file |-> f, version |-> read.bytes, hit |-> i]]
       IN Advance([search EXCEPT !.stamp = 0,
                     !.docs = Append(@, [file |-> f, stamp |-> read.stamp,
                                         version |-> read.bytes, rows |-> rows]),
                     !.damaged = @ + IF Of(f).damaged THEN 1 ELSE 0])

AnswerOf(reasons, rows) == [is |-> "result", reasons |-> reasons, rows |-> rows]
Refused(code) == [is |-> "refused", code |-> code]
Reason(name, count) == IF count > 0 THEN {[is |-> name, count |-> count]} ELSE {}
Truncation(t) == IF t THEN {[is |-> "limit", count |-> query.limit]} ELSE {}

\* Mutant: an answer counts its rows lost, not its entries.
WithoutUnencodableRows(a) ==
    LET lost == SelectSeq(a.rows, LAMBDA r : ~ Of(r.file).spelled)
        failed == SumSet({r.count : r \in {x \in a.reasons : x.is = "failed"}})
    IN [a EXCEPT !.rows = SelectSeq(a.rows, LAMBDA r : Of(r.file).spelled),
                 !.reasons = {r \in a.reasons : r.is # "failed"}
                             \cup Reason("failed", failed + Len(lost))]

\* without_unencodable_paths: rows of a file whose name JSON cannot spell are
\* dropped, and the file joins the failed entries, once.
WithoutUnencodablePaths(a) ==
    LET lost == {f \in 1..Files : ~ Of(f).spelled /\ \E r \in Range(a.rows) : r.file = f}
        failed == SumSet({r.count : r \in {x \in a.reasons : x.is = "failed"}})
    IN [a EXCEPT !.rows = SelectSeq(a.rows, LAMBDA r : r.file \notin lost),
                 !.reasons = {r \in a.reasons : r.is # "failed"}
                             \cup Reason("failed", failed + Cardinality(lost))]

SearchAnswered(a) ==
    /\ answer' = IF a.is = "result" THEN WithoutUnencodablePaths(a) ELSE a
    /\ UNCHANGED <<tree, query, search>>

\* The walk is over: its counters are the reasons of the answer.
FinishWalk ==
    /\ answer = NoAnswer /\ query.kind \in {"text", "path", "ast"}
    /\ search.truncated \/ search.at > Files
    /\ SearchAnswered(AnswerOf(Truncation(search.truncated) \cup Reason("failed", search.failed)
                         \cup Reason("unsupported", search.uncovered)
                         \cup Reason("damaged", search.damaged), search.rows))

\* source_query: the one named file, canonical and inside the root.
SourceQuery ==
    /\ answer = NoAnswer /\ query.kind = "source"
    /\ LET f == query.pin.file
       IN SearchAnswered(IF f = NoFileNamed THEN AnswerOf(Reason("unresolved", 1), <<>>)
                   ELSE IF f = Outside THEN Refused("escaped")
                   ELSE IF ~ Opens(f) THEN AnswerOf(Reason("failed", 1), <<>>)
                   ELSE LET t == Take(<<>>, Hits(f)) IN AnswerOf(Truncation(t.truncated), t.rows))

\* Mutant: a version nothing can verify is served.
RefuseUnverifiableNever(a) == a

\* refuse_unverifiable: the pinned document is not in the index.
RefuseUnverifiable(a) == IF query.pin.version # 0 THEN Refused("unverifiable") ELSE a

\* Mutant: what was indexed is served as long as the file is there.
IsStaleNever(d) == FALSE

\* IndexedDocument::is_stale: the stamp no longer describes the file.
IsStale(d) == d.stamp # tree[d.file].version

\* fallback_hints: the unclaimed files, as they are now.
FallbackHints(rows) ==
    LET readable == SelectSeq(search.unclaimed, LAMBDA f : Opens(f))
    IN Take(rows, FlattenSeq([i \in 1..Len(readable) |-> Hits(readable[i])]))
\* Unclaimed files the hint scan met before the bound and could not read.
UnreadableFallback(rows) ==
    LET before(i) == FlattenSeq([j \in 1..(i - 1) |->
            IF Opens(search.unclaimed[j]) THEN Hits(search.unclaimed[j]) ELSE <<>>])
    IN Cardinality({i \in 1..Len(search.unclaimed) :
            ~ Opens(search.unclaimed[i]) /\ ~ Take(rows, before(i)).truncated})

\* SymbolIndex::answer and the reasons symbol_query makes of it.
SymbolAnswer(pinned) ==
    LET docs == SelectSeq(search.docs, LAMBDA d : pinned => d.file = query.pin.file)
        fresh == SelectSeq(docs, LAMBDA d : ~ IsStale(d))
        picks == Take(<<>>, FlattenSeq([i \in 1..Len(fresh) |-> fresh[i].rows]))
        hinted == IF pinned THEN [rows |-> picks.rows, truncated |-> FALSE]
                  ELSE FallbackHints(picks.rows)
        unreadable == IF pinned THEN 0 ELSE UnreadableFallback(picks.rows)
        drawn == {r.file : r \in Range(picks.rows)} \cup IF pinned THEN {query.pin.file} ELSE {}
        gaps == IF pinned
                THEN Reason("damaged", Cardinality({f \in drawn : Of(f).damaged}))
                ELSE Reason("failed", search.failed + unreadable)
                     \cup Reason("unsupported", search.uncovered - unreadable)
                     \cup Reason("damaged", search.damaged)
    IN AnswerOf(Truncation(picks.truncated \/ hinted.truncated) \cup gaps
                \cup Reason("stale", Len(docs) - Len(fresh)), hinted.rows)

\* symbol_query, before the walk: a pin that names no file of the root.
SymbolPin ==
    /\ answer = NoAnswer /\ query.kind = "symbol" /\ ~ PinNames
    /\ SearchAnswered(IF query.pin.file = Outside THEN Refused("escaped")
                ELSE RefuseUnverifiable(AnswerOf(Reason("unresolved", 1), <<>>)))

\* symbol_query, after the walk: a pin binds to the version that was indexed.
SymbolQuery ==
    /\ answer = NoAnswer /\ query.kind = "symbol" /\ search.at > Files
    /\ PinNames
    /\ LET pinned == query.pin # NoPin
           held == {d \in Range(search.docs) : d.file = query.pin.file}
           claimed == Claimed(query.pin.file) /\ AdmittedFiles(query.pin.file)
       IN SearchAnswered(
            IF ~ pinned THEN SymbolAnswer(FALSE)
            ELSE IF held = {}
            THEN RefuseUnverifiable(AnswerOf(
                    IF claimed THEN Reason("failed", 1) ELSE Reason("unresolved", 1), <<>>))
            ELSE IF query.pin.version # 0 /\ \E d \in held : d.version # query.pin.version
            THEN Refused("stale_version")
            ELSE SymbolAnswer(TRUE))

\* Someone writes a file while the query runs: other content, another version.
ChangeTree(f) ==
    /\ answer = NoAnswer /\ search.changes < MaxTreeChanges
    /\ \E s \in Shape :
         /\ s.claimed = Of(f).claimed /\ s.ignored = Of(f).ignored /\ s.spelled = Of(f).spelled
         /\ tree' = [tree EXCEPT ![f] = [shape |-> s, version |-> @.version + 1]]
    /\ search' = [search EXCEPT !.changes = @ + 1]
    /\ UNCHANGED <<query, answer>>

SearchNext ==
    \/ SkipFiltered \/ TextQuery \/ PathQuery \/ AstQuery \/ IndexFile \/ IndexBytes
    \/ FinishWalk \/ SourceQuery \/ SymbolPin \/ SymbolQuery
    \/ \E f \in 1..Files : ChangeTree(f)

----------------------------------------------------------------------------
Result == answer.is = "result"
Quiet == search.changes = 0
Counted(name) == SumSet({r.count : r \in {x \in answer.reasons : x.is = name}})
Pinned == query.kind = "source" \/ query.pin # NoPin
InScope(f) == IF Pinned THEN f = query.pin.file ELSE AdmittedFiles(f)
\* Every row a file holds for the request, whatever the walk can reach.
WantedFiles(f) ==
    IF ~ InScope(f) THEN {}
    ELSE {h \in Range(Hits(f)) : query.kind = "path" => h.hit = 1}
AllWanted == UNION {WantedFiles(f) : f \in 1..Files}

\* An answer that states no reason for being partial serves every hit of every
\* file in scope (context.rs Completeness: "complete" is a claim about what was
\* not found): nothing beyond the bound, unread, unclaimed or unspelled is
\* missing from it silently.
CompleteIsWhole ==
    Result /\ Quiet /\ answer.reasons = {} => Range(answer.rows) = AllWanted

\* An answer marked as cut at the bound was cut: the tree holds more hits than
\* the bound, and the bound is never exceeded (text_query, ast_query,
\* SymbolIndex::answer, fallback_hints, source_query).
LimitIsReal ==
    Result => /\ Len(answer.rows) <= query.limit
              /\ Quiet /\ Counted("limit") > 0 => Cardinality(AllWanted) > query.limit

\* Every file an unbounded walk could not serve is counted once under the reason
\* that cost it, by entries and not by rows (EntriesFailed, UnsupportedLanguage;
\* without_unencodable_paths, symbol_query's saturating_sub).
GapsAreCounted ==
    Result /\ Quiet /\ ~ Pinned /\ Counted("limit") = 0 =>
        LET admitted == {f \in 1..Files : AdmittedFiles(f)}
            shut == {f \in admitted : ~ Opens(f)}
            foreign == {f \in admitted : ~ Claimed(f)}
            read == CASE query.kind = "text" -> admitted \ shut
                      [] query.kind = "path" -> admitted
                      [] query.kind = "ast" -> (admitted \ shut) \ foreign
                      [] query.kind = "symbol" -> admitted \ shut
            unspelled == {f \in read : ~ Of(f).spelled /\ Of(f).hits > 0}
            unread == CASE query.kind = "text" -> shut
                        [] query.kind = "path" -> {}
                        [] query.kind = "ast" -> shut \ foreign
                        [] query.kind = "symbol" -> shut
            uncovered == CASE query.kind = "ast" -> foreign
                           [] query.kind = "symbol" -> foreign \ shut
                           [] OTHER -> {}
        IN /\ Counted("failed") = Cardinality(unread \cup unspelled)
           /\ Counted("unsupported") = Cardinality(uncovered)

\* A symbol answer never serves a row of a version its file no longer has, also
\* when the file changed between the stamp and the read or after the index was
\* built, and a pinned version is served as that version or refused (lsp.rs
\* is_stale, index_file; context.rs read_capped, symbol_query).
ServedIsCurrent ==
    Result /\ query.kind = "symbol" =>
        \A r \in Range(answer.rows) :
            /\ r.version = tree[r.file].version
            /\ query.pin.version # 0 => r.version = query.pin.version

\* A pinned version nothing verified is never answered, not even with an empty
\* result (refuse_unverifiable).
PinIsVerified ==
    Result /\ query.kind = "symbol" /\ query.pin.version # 0 =>
        \E d \in Range(search.docs) :
            d.file = query.pin.file /\ d.version = query.pin.version

-----------------------------------------------------------------------------
(***************************************************************************)
(* The impact of a change (src/src/index.rs): the relations of documents   *)
(* placed as directed edges, and the traversal of the documents that       *)
(* depend on a seed, cut into slices by three budgets and resumed from the *)
(* cursor a slice leaves.                                                  *)
(***************************************************************************)

CONSTANTS
    Document,    \* the documents the generation indexed
    Relation,    \* relations a document may state: from, candidates in order, dynamic
    Seed,        \* the document whose impact is asked
    Depths,      \* the depth grants a caller may give
    Nodes        \* the node grants a caller may give

ASSUME ImpactAssumption == Seed \in Document /\ Depths \subseteq Nat /\ Nodes \subseteq Nat

VARIABLES
    stated,      \* the relations the documents state
    slice,       \* the running slice: frontier, visited, nodes, edges, spend, grant
    reported,    \* what the caller has: nodes and edges of every slice, slices, cursor
    stop         \* the budget the last slice ran out of; "running" while one runs
impactVars == <<stated, slice, reported, stop>>

NoCursor == [frontier |-> <<>>, visited |-> {}, spent |-> 0]
Limits == [depth : Depths, nodes : Nodes]

----------------------------------------------------------------------------
\* The graph.

\* Subject::place: the first candidate the generation indexed, or an unknown
\* row; a dynamic import names a value and is never certain.
Place(r) ==
    LET known == SelectSeq(r.candidates, LAMBDA d : d \in Document)
    IN IF known = <<>> THEN [from |-> r.from, to |-> r.from, certain |-> FALSE]
       ELSE [from |-> r.from, to |-> Head(known), certain |-> ~ r.dynamic]

\* derive_edges, over every document.
Edges == {Place(r) : r \in stated}
\* ImpactWalk::begin: the certain rows by the document they name.
Incoming(d) == {e \in Edges : e.certain /\ e.to = d}
Dependents(d) == {e.from : e \in Incoming(d)}

----------------------------------------------------------------------------
\* A slice.

\* discover: in the sorted order of the rows, documents not held yet.
Discovered(held, docs, depth) ==
    LET fresh == SetToSortSeq(docs \ held, LAMBDA a, b : a < b)
    IN [i \in 1..Len(fresh) |-> [doc |-> fresh[i], depth |-> depth]]

ImpactInit ==
    /\ stated \in SUBSET Relation
    /\ \E l \in Limits :
         slice = [frontier |-> <<[doc |-> Seed, depth |-> 0]>>, visited |-> {Seed},
                  nodes |-> <<[doc |-> Seed, depth |-> 0]>>, edges |-> <<>>, reached |-> 0,
                  expanded |-> 0, resumed |-> FALSE, limits |-> l]
    /\ reported = [nodes |-> <<>>, edges |-> <<>>, slices |-> 1, cursor |-> NoCursor]
    /\ stop = "running"

Fresh(node) == Dependents(node.doc) \ slice.visited

\* expand: an expansion is spent whole or not at all.
OverNodes(node) == slice.reached + Cardinality(Fresh(node)) > slice.limits.nodes

\* run, expand: the next document of the frontier, every row into it.
Expand ==
    /\ stop = "running" /\ slice.frontier # <<>>
    /\ LET node == Head(slice.frontier)
           found == Discovered(slice.visited, Fresh(node), node.depth + 1)
       IN /\ node.depth < slice.limits.depth /\ ~ OverNodes(node)
          /\ slice' = [slice EXCEPT !.frontier = Tail(@) \o found, !.visited = @ \cup Fresh(node),
                         !.nodes = @ \o found, !.edges = @ \o SetToSeq(Incoming(node.doc)),
                         !.reached = @ + Cardinality(Fresh(node)), !.expanded = @ + 1]
    /\ UNCHANGED <<stated, reported, stop>>

\* Mutant: the document a stop gives back is queued behind the others.
PutBackLast(frontier) == Append(Tail(frontier), Head(frontier))

\* Mutant: the document that met the stop is lost.
PutBackNever(frontier) == Tail(frontier)

\* run: the document a stop gives back is the next one again.
PutBack(frontier) == frontier

\* Mutant: every stopped slice hands its cursor back.
LeavesCursorAlways == TRUE

\* finish: a resumed slice that expanded nothing leaves no cursor.
LeavesCursor == ~ slice.resumed \/ slice.expanded > 0

\* Mutant: the cursor forgets what was spent.
SpentNothing == 0

\* TraversalContinuation.spent
Spent == slice.reached

\* finish: what the slice reports, and the cursor for the rest.
Finish(why) ==
    /\ stop' = why
    /\ reported' = [reported EXCEPT !.nodes = @ \o slice.nodes, !.edges = @ \o slice.edges,
                      !.cursor = IF why # "done" /\ LeavesCursor
                                 THEN [frontier |-> PutBack(slice.frontier),
                                       visited |-> slice.visited, spent |-> Spent]
                                 ELSE NoCursor]
    /\ UNCHANGED <<stated, slice>>

WalkedAll == stop = "running" /\ slice.frontier = <<>> /\ Finish("done")
\* The clock is read before every expansion.
OutOfTime == stop = "running" /\ slice.frontier # <<>> /\ Finish("time")
OutOfDepth ==
    /\ stop = "running" /\ slice.frontier # <<>>
    /\ Head(slice.frontier).depth >= slice.limits.depth /\ Finish("depth")
OutOfNodes ==
    /\ stop = "running" /\ slice.frontier # <<>>
    /\ Head(slice.frontier).depth < slice.limits.depth
    /\ OverNodes(Head(slice.frontier)) /\ Finish("nodes")

\* resume_impact_traversal, under the same grant or another.
Resume(limits) ==
    /\ stop # "running" /\ reported.cursor # NoCursor
    /\ slice' = [frontier |-> reported.cursor.frontier, visited |-> reported.cursor.visited,
                 nodes |-> <<>>, edges |-> <<>>, reached |-> reported.cursor.spent,
                 expanded |-> 0, resumed |-> TRUE, limits |-> limits]
    /\ reported' = [reported EXCEPT !.slices = @ + 1]
    /\ stop' = "running"
    /\ UNCHANGED stated

ImpactNext ==
    \/ Expand \/ WalkedAll \/ OutOfTime \/ OutOfDepth \/ OutOfNodes
    \/ \E l \in Limits : Resume(l)

----------------------------------------------------------------------------
\* The documents at most n rows away from the seed, following what their text
\* says of other documents and nothing dynamic.
FirstKnown(r) ==
    CHOOSE d \in Range(r.candidates) \cap Document :
        \A i, j \in DOMAIN r.candidates :
            r.candidates[i] = d /\ j < i => r.candidates[j] \notin Document
DependsOn(a, b) ==
    \E r \in stated : /\ r.from = a /\ ~ r.dynamic
                      /\ Range(r.candidates) \cap Document # {} /\ FirstKnown(r) = b
Within[n \in Nat] ==
    IF n = 0 THEN {Seed}
    ELSE LET nearer == Within[n - 1]
         IN nearer \cup {a \in Document : \E b \in nearer : DependsOn(a, b)}
Impacted == Within[Cardinality(Document)]

\* A walk that reports it is complete, after whatever slices, has reported every
\* document that depends on the seed and no other, each once, and every row into
\* them once (ImpactSlice: "the walk's whole evidence, never a sample").
ImpactIsWhole ==
    stop = "done" =>
        /\ {n.doc : n \in Range(reported.nodes)} = Impacted
        /\ Len(reported.nodes) = Cardinality(Impacted)
        /\ Range(reported.edges) = {e \in Edges : e.certain /\ e.to \in Impacted}
        /\ Len(reported.edges) = Cardinality(Range(reported.edges))

\* A document is reported at its distance from the seed, also when the slice
\* that held it was stopped and another found it (TraversalNode.depth, the
\* frontier in expansion order).
DepthIsShortest ==
    \A n \in Range(reported.nodes) :
        n.doc \in Within[n.depth] /\ (n.depth > 0 => n.doc \notin Within[n.depth - 1])

\* The documents of all slices together stay within the grant the last slice
\* that found any ran under (TraversalLimits read absolute, TraversalSpend
\* credited by the resumed slice).
GrantHolds ==
    slice.expanded > 0 /\ Len(slice.nodes) > (IF slice.resumed THEN 0 ELSE 1) =>
        /\ Cardinality(slice.visited \ {Seed}) <= slice.limits.nodes
        /\ \A n \in Range(slice.nodes) : n.depth <= slice.limits.depth

\* A caller that resumes as long as there is a cursor stops, whatever grants it
\* gives: every resumed slice that leaves one has expanded a document, and a
\* document is expanded once (finish; resume_impact_traversal "terminates").
SlicesBounded == reported.slices <= Cardinality(Document) + 2

\* Readers of the index as a whole: an answer that calls itself complete is, a limit or a
\* gap is named, nothing stale or unverified is served, and an impact analysis names every
\* dependant at its shortest distance within what it was granted.
ReadersAreHonest ==
    /\ CompleteIsWhole /\ LimitIsReal /\ GapsAreCounted /\ ServedIsCurrent /\ PinIsVerified
    /\ ImpactIsWhole /\ DepthIsShortest /\ GrantHolds /\ SlicesBounded
=============================================================================
