---------------------------- MODULE SymbolIndex -----------------------------
(***************************************************************************)
(* The in-process symbol index (lsp.rs): one walk of a document's tree      *)
(* records scopes and rows, then a binder resolves the uses of the          *)
(* requested name, remembering what its walks found so that resolution      *)
(* stays linear.  A binding reported as certain is served as resolved.      *)
(*                                                                         *)
(* A document is the sequence of the nodes the walk meets.  `x` is the      *)
(* requested name; modules are called m, functions f or m.  A position is   *)
(* a place in the sequence; a Rust let or block stands in a function's      *)
(* body.  Value names only: types, the type and definition queries, several *)
(* documents and the parse budgets are left out.                            *)
(***************************************************************************)
EXTENDS Naturals, Sequences, SequencesExt, FiniteSetsExt

CONSTANTS
    Profile,      \* [grammar, tokens]: the documents explored
    MaxTokens     \* bound on the nodes of a document

(* mod { | fn f { | fn f(x) { | fn m { | block { | } | let x | fn x | const x *)
(* | use ..::x | use ..::* | var x | x | m::x | self::x                       *)
Tokens == {"mod", "fn", "fnx", "fnm", "{", "}", "let", "item", "const",
           "import", "glob", "var", "use", "mx", "selfx"}

ASSUME SymbolIndexAssumption ==
    \A p \in Profile : p.grammar \in {"rust", "ts"} /\ p.tokens \subseteq Tokens

VARIABLES
    grammar, tokens,   \* the profile of the document
    source,            \* the nodes walked
    path,              \* the open scopes, outermost first
    scopes,            \* ScopeTable: the interned scopes; 1 is the root
    rows,              \* IndexedSymbol
    binder             \* the binder's memory and the answers it gave, or NoBinder

symbolVars == <<grammar, tokens, source, path, scopes, rows, binder>>

Anonymous == "_"
Forever == MaxTokens + 1
Uses == {"use", "mx", "selfx"}
NoBinder == [on |-> FALSE, nearest |-> <<>>, beyond |-> <<>>, bases |-> <<>>,
             modules |-> <<>>, answers |-> <<>>]
Rust == grammar = "rust"

SymbolInit ==
    /\ \E p \in Profile : grammar = p.grammar /\ tokens = p.tokens
    /\ source = <<>> /\ path = <<>> /\ rows = <<>> /\ binder = NoBinder
    /\ scopes = <<[parent |-> 0, name |-> "root", start |-> 0, bears |-> {}]>>

-----------------------------------------------------------------------------
(* Scopes are interned when a row needs them: a named one is shared by all   *)
(* its spellings under one parent, an anonymous one is its own node.         *)

BearerOf(token) ==
    CASE token = "mod"                  -> IF Rust THEN {"path", "module"} ELSE {"path", "hoists"}
      [] token \in {"fn", "fnx", "fnm"} -> IF Rust THEN {"function"} ELSE {"function", "hoists"}
      [] OTHER                          -> {}

(* Intern(table, at, entry): the table and the id of one path entry below at *)
Merged(table, id, entry) == ("path" \in table[id].bears) # ("path" \in entry.bears)

Intern(table, at, entry) ==
    LET known == {i \in DOMAIN table : /\ table[i].parent = at /\ table[i].name = entry.name
                                       /\ entry.name = Anonymous => table[i].start = entry.start}
        id == IF known = {} THEN Len(table) + 1 ELSE CHOOSE i \in known : TRUE
        again == /\ known # {} /\ entry.name # Anonymous
                 /\ Merged(table, id, entry)
    IN  [id |-> id,
         table |-> IF known = {}
                   THEN Append(table, [parent |-> at, name |-> entry.name, start |-> entry.start,
                                       bears |-> entry.bears])
                   ELSE [table EXCEPT ![id].bears =
                           @ \cup entry.bears \cup (IF again THEN {"reopened"} ELSE {})]]

(* scope_id: the scope at the given depth of the path, an entry interned once *)
ScopeId(table, entries) ==
    FoldLeft(LAMBDA acc, entry :
               IF entry.id # 0 THEN [acc EXCEPT !.at = entry.id, !.path = Append(@, entry)]
               ELSE LET made == Intern(acc.table, acc.at, entry)
                    IN  [at |-> made.id, table |-> made.table,
                         path |-> Append(acc.path, [entry EXCEPT !.id = made.id])],
             [at |-> 1, table |-> table, path |-> <<>>], entries)

Here == Len(source) + 1
HoistDepth == LET at == {i \in DOMAIN path : "hoists" \in path[i].bears}
              IN  IF at = {} THEN 0 ELSE Max(at)

(* Pushes a row at a depth of the entries; the row is visible from..until.   *)
WithSymbol(entries, depth, kind, from, until) ==
    LET made == ScopeId(scopes, SubSeq(entries, 1, depth))
    IN  /\ scopes' = made.table
        /\ path' = made.path \o SubSeq(entries, depth + 1, Len(entries))
        /\ rows' = Append(rows, [scope |-> made.at, kind |-> kind, from |-> from,
                                 until |-> until, at |-> Here])

Walking == ~binder.on /\ Len(source) < MaxTokens
Walks(token) ==
    /\ Walking /\ token \in tokens
    /\ Rust /\ token \in {"let", "{"} => path # <<>> /\ path[Len(path)].name = Anonymous
    /\ source' = Append(source, token)
Entry(token, name) == [name |-> name, start |-> Here, bears |-> BearerOf(token), id |-> 0, param |-> 0]

(* enter_scope; the parameter's row ends with the function (child_local).    *)
EnterScope ==
    \E token \in {"mod", "fn", "fnm", "{"} :
        /\ Walks(token) /\ (token = "mod" => Rust)
        /\ LET name == CASE token \in {"mod", "fnm"} -> "m" [] token = "fn" -> "f" [] OTHER -> Anonymous
               body == IF token \in {"fn", "fnm"} THEN <<Entry("{", Anonymous)>> ELSE <<>>
           IN  path' = path \o <<Entry(token, name)>> \o body
        /\ UNCHANGED <<grammar, tokens, scopes, rows, binder>>

(* A TypeScript namespace is interned at once; opened again, its blocks are  *)
(* no longer one scope.                                                      *)
EnterNamespace ==
    /\ ~Rust /\ Walks("mod")
    /\ LET made == ScopeId(scopes, Append(path, Entry("mod", "m")))
           again == "namespace" \in made.table[made.at].bears
       IN  /\ scopes' = [made.table EXCEPT ![made.at].bears =
                           @ \cup {IF again THEN "reopened" ELSE "namespace"}]
           /\ path' = made.path
    /\ UNCHANGED <<grammar, tokens, rows, binder>>

EnterFunctionOfX ==
    /\ Walks("fnx")
    /\ LET opened == Append(path, [Entry("fnx", "f") EXCEPT !.param = Len(rows) + 1])
           made == ScopeId(scopes, opened)
       IN  /\ scopes' = made.table
           /\ path' = Append(made.path, Entry("{", Anonymous))
           /\ rows' = Append(rows, [scope |-> made.at, kind |-> "parameter", from |-> Here,
                                    until |-> Forever, at |-> Here])
    /\ UNCHANGED <<grammar, tokens, binder>>

LeaveScope ==
    /\ Walks("}") /\ path # <<>>
    /\ LET body == /\ Len(path) > 1 /\ path[Len(path)].name = Anonymous
                   /\ "function" \in path[Len(path) - 1].bears
                   /\ path[Len(path)].start = path[Len(path) - 1].start
           depth == Len(path) - (IF body THEN 2 ELSE 1)
           param == IF body THEN path[Len(path) - 1].param ELSE 0
       IN  /\ path' = SubSeq(path, 1, depth)
           /\ rows' = IF param = 0 THEN rows ELSE [rows EXCEPT ![param].until = Here]
    /\ UNCHANGED <<grammar, tokens, scopes, binder>>

(* visit: a declaration of x, an import of it, or a use.  A second let of x  *)
(* in one TypeScript block does not compile.                                 *)
Declare ==
    \E token \in {"let", "item", "const", "import", "glob", "var"} :
        /\ Walks(token)
        /\ CASE token = "let" -> WithSymbol(path, Len(path), "variable", Here + 1, Forever)
             [] token = "var" -> WithSymbol(path, HoistDepth, "var", 0, Forever)
             [] OTHER         -> WithSymbol(path, Len(path), token, 0, Forever)
        /\ ~Rust /\ token = "let" =>
             \A i \in DOMAIN rows : ~(rows[i].kind = "variable" /\ rows[i].scope = rows'[Len(rows')].scope)
        /\ UNCHANGED <<grammar, tokens, binder>>

VisitUse ==
    \E token \in Uses :
        /\ Walks(token)
        /\ WithSymbol(path, Len(path), token, 0, Forever)
        /\ UNCHANGED <<grammar, tokens, binder>>

-----------------------------------------------------------------------------
(* Binder::new: what each scope holds under the name x.                      *)

Certain(row) == [b |-> "certain", row |-> row]
Unknown == [b |-> "unknown", row |-> 0]
Ambiguous == [b |-> "ambiguous", row |-> 0]
NoVerdict == [b |-> "none", row |-> 0]

RowsAt(s, kinds) == {i \in DOMAIN rows : rows[i].scope = s /\ rows[i].kind \in kinds}
Parent(s) == scopes[s].parent
Bears(s, c) == c \in scopes[s].bears
IsAnonymous(s) == scopes[s].name = Anonymous

Glob(s) == RowsAt(s, {"glob"}) # {}

(* the scopes from s outwards                                                *)
RECURSIVE Chain(_)
Chain(s) == IF s = 0 THEN <<>> ELSE <<s>> \o Chain(Parent(s))

Covered(s) == \E a \in ToSet(Chain(s)) : Glob(a)

(* A Rust pattern may name a constant or an import instead of binding.       *)
ShadowedNever(i) == FALSE
Shadowed(i) == /\ Rust /\ rows[i].kind \in {"variable", "parameter"}
               /\ \/ \E j \in DOMAIN rows : rows[j].kind \in {"const", "import"}
                  \/ Covered(rows[i].scope)

Locals(s) == {i \in RowsAt(s, {"variable", "parameter"}) : ~Shadowed(i)}
Values(s) == RowsAt(s, {"item", "const"})
Import(s) == RowsAt(s, {"import", "var"}) # {} \/ \E i \in RowsAt(s, {"variable", "parameter"}) : Shadowed(i)
HasEntry(s) == Import(s) \/ Locals(s) # {} \/ Values(s) # {}

(* Past a Rust function the locals around it are another function's.         *)
HidesLocalsNever(s, crossed) == FALSE
HidesLocals(s, crossed) == crossed /\ Rust /\ (IsAnonymous(s) \/ Bears(s, "function"))

Relevant(s, crossed) ==
    Glob(s) \/ Import(s) \/ Values(s) # {} \/ (~HidesLocals(s, crossed) /\ Locals(s) # {})

(* decide: what one scope says of x at a position, or NoVerdict.             *)
LaterLocalIgnored(s, at) == FALSE
LaterLocal(s, at) == ~Rust /\ \E i \in Locals(s) : rows[i].from > at

Decide(s, crossed, at) ==
    LET open == ~HidesLocals(s, crossed)
        declared == {i \in Locals(s) : rows[i].from <= at}
        last == Max(declared)
        items == Values(s)
    IN  CASE ~HasEntry(s) -> IF Glob(s) THEN Unknown ELSE NoVerdict
          [] Import(s) \/ Bears(s, "reopened") -> Unknown
          [] open /\ declared # {} /\ at < rows[last].until -> Certain(last)
          [] open /\ LaterLocal(s, at) -> Unknown
          [] Cardinality(items) = 1 -> Certain(CHOOSE i \in items : TRUE)
          [] Cardinality(items) > 1 -> Ambiguous
          [] OTHER -> IF Glob(s) THEN Unknown ELSE NoVerdict

Crosses(s, crossed) == crossed \/ (Rust /\ Bears(s, "function"))
StopsAt(s) == Rust /\ Bears(s, "module")

(* nearest: the first scope outwards that x must stop at, remembered for      *)
(* every scope passed on the way.                                            *)
NearestKeyUncrossed(s, crossed) == <<s, FALSE>>
NearestKey(s, crossed) == <<s, crossed>>
RECURSIVE NearestWalk(_, _, _)
NearestWalk(s, crossed, memory) ==
    LET key == NearestKey(s, crossed)
    IN  CASE s = 0 -> [found |-> <<0, FALSE>>, seen |-> {}]
          [] s # 0 /\ key \in DOMAIN memory -> [found |-> memory[key], seen |-> {}]
          [] OTHER ->
              LET on == IF Relevant(s, crossed) THEN [found |-> <<s, crossed>>, seen |-> {}]
                        ELSE IF StopsAt(s) THEN [found |-> <<0, FALSE>>, seen |-> {}]
                        ELSE NearestWalk(Parent(s), Crosses(s, crossed), memory)
              IN  [on EXCEPT !.seen = @ \cup {key}]

Remember(memory, keys, value) ==
    [k \in DOMAIN memory \cup keys |-> IF k \in keys THEN value ELSE memory[k]]

(* walk: from stop to stop until one decides.                                *)
RECURSIVE WalkOut(_, _, _, _)
WalkOut(s, crossed, at, memory) ==
    IF s = 0 THEN [bound |-> Unknown, memory |-> memory]
    ELSE LET near == NearestWalk(s, crossed, memory)
             kept == Remember(memory, near.seen, near.found)
             stop == near.found[1]
             past == near.found[2]
         IN  IF stop = 0 THEN [bound |-> Unknown, memory |-> kept]
             ELSE IF Decide(stop, past, at) # NoVerdict
                  THEN [bound |-> Decide(stop, past, at), memory |-> kept]
             ELSE IF StopsAt(stop) THEN [bound |-> Unknown, memory |-> kept]
             ELSE WalkOut(Parent(stop), Crosses(stop, past), at, kept)

(* lexical: an anonymous scope decides by position; what lies beyond it is    *)
(* the same for all its uses and is remembered per scope.                    *)
BeyondFromNamed(s) == TRUE
BeyondFrom(s) == IsAnonymous(s)

Lexical(s, at, b) ==
    LET own == Decide(s, FALSE, at)
    IN  IF ~BeyondFrom(s)
        THEN LET out == WalkOut(s, FALSE, at, b.nearest)
             IN  [bound |-> out.bound, b |-> [b EXCEPT !.nearest = out.memory]]
        ELSE IF own # NoVerdict THEN [bound |-> own, b |-> b]
        ELSE IF s \in DOMAIN b.beyond THEN [bound |-> b.beyond[s], b |-> b]
        ELSE LET out == WalkOut(Parent(s), FALSE, at, b.nearest)
             IN  [bound |-> out.bound,
                  b |-> [b EXCEPT !.nearest = out.memory, !.beyond = Remember(@, {s}, out.bound)]]

-----------------------------------------------------------------------------
(* m::x and self::x.                                                         *)

PathChild(s) ==
    LET named == {i \in DOMAIN scopes : /\ scopes[i].parent = s /\ scopes[i].name = "m"
                                        /\ Bears(i, "path") /\ ~Bears(i, "function")}
    IN  IF named = {} THEN 0 ELSE CHOOSE i \in named : TRUE

RECURSIVE BaseWalk(_, _)
BaseWalk(s, memory) ==
    CASE s = 0 -> [found |-> 0, seen |-> {}]
      [] s # 0 /\ s \in DOMAIN memory -> [found |-> memory[s], seen |-> {}]
      [] OTHER ->
          LET on == IF PathChild(s) # 0 THEN [found |-> PathChild(s), seen |-> {}]
                    ELSE IF Glob(s) \/ StopsAt(s) THEN [found |-> 0, seen |-> {}]
                    ELSE BaseWalk(Parent(s), memory)
          IN  [on EXCEPT !.seen = @ \cup {s}]

RECURSIVE ModuleWalk(_, _)
ModuleWalk(s, memory) ==
    IF s \in DOMAIN memory THEN [found |-> memory[s], seen |-> {}]
    ELSE LET on == IF Bears(s, "module") \/ Parent(s) = 0 THEN [found |-> s, seen |-> {}]
                   ELSE ModuleWalk(Parent(s), memory)
         IN  [on EXCEPT !.seen = @ \cup {s}]

ItemOf(s) == IF s = 0 \/ Import(s) THEN Unknown
             ELSE CASE Cardinality(Values(s)) = 1 -> Certain(CHOOSE i \in Values(s) : TRUE)
                    [] Values(s) = {}             -> Unknown
                    [] OTHER                      -> Ambiguous

Qualified(u, b) ==
    IF u.kind = "mx"
    THEN LET base == BaseWalk(u.scope, b.bases)
         IN  [bound |-> ItemOf(base.found),
              b |-> [b EXCEPT !.bases = Remember(@, base.seen, base.found)]]
    ELSE LET base == ModuleWalk(u.scope, b.modules)
         IN  [bound |-> ItemOf(base.found),
              b |-> [b EXCEPT !.modules = Remember(@, base.seen, base.found)]]

(* answer: the uses in row order, one binder for all.                        *)
Subjects == {i \in DOMAIN rows : rows[i].kind \in Uses}
Answered == DOMAIN binder.answers

StartAnswer ==
    /\ ~binder.on /\ source # <<>> /\ source[Len(source)] \in Uses \cup {"}"}
    /\ Subjects # {}
    /\ binder' = [NoBinder EXCEPT !.on = TRUE]
    /\ UNCHANGED <<grammar, tokens, source, path, scopes, rows>>

ReferencePick ==
    /\ binder.on /\ Subjects \ Answered # {}
    /\ LET i == Min(Subjects \ Answered)
           u == rows[i]
           out == IF u.kind = "use" THEN Lexical(u.scope, u.at, binder) ELSE Qualified(u, binder)
       IN  binder' = [out.b EXCEPT !.answers = Remember(@, {i}, out.bound)]
    /\ UNCHANGED <<grammar, tokens, source, path, scopes, rows>>

SymbolDone == (binder.on \/ Len(source) = MaxTokens) /\ UNCHANGED symbolVars

SymbolNext == \/ EnterScope \/ EnterNamespace \/ EnterFunctionOfX \/ LeaveScope \/ Declare \/ VisitUse
              \/ StartAnswer \/ ReferencePick \/ SymbolDone

-----------------------------------------------------------------------------
(* What the languages say: the declarations of x a use at a position of scope *)
(* s can mean, by scoping alone.                                             *)
Depth(s) == Len(Chain(s))
Between(s, a) == {c \in ToSet(Chain(s)) : Depth(c) > Depth(a)}
Reaches(s, i) ==
    LET d == rows[i]
    IN  /\ d.scope \in ToSet(Chain(s))
        /\ Rust => \A c \in Between(s, d.scope) :
                      /\ ~Bears(c, "module")
                      /\ d.kind \in {"variable", "parameter"} => ~Bears(c, "function")
Declares(s, at, i) ==
    /\ rows[i].kind \notin Uses /\ Reaches(s, i)
    /\ rows[i].kind \in {"variable", "parameter"} =>
          /\ Rust => rows[i].from <= at
          /\ at < rows[i].until
Local(i) == rows[i].kind \in {"variable", "parameter"}

(* A use reported as certain means what the language says: no declaration or  *)
(* import of x in scope there is nearer, in the same scope a later local wins *)
(* over items and earlier locals, a glob could only lose to the binding, and  *)
(* what is reported as a local is not a pattern that names a constant.        *)
CertainIsRight ==
    \A u \in Answered :
        LET answer == binder.answers[u]
            d == rows[answer.row]
            s == rows[u].scope
            at == rows[u].at
        IN  answer.b = "certain" /\ rows[u].kind = "use" =>
              /\ Declares(s, at, answer.row)
              /\ Rust /\ Local(answer.row) =>
                    \A i \in DOMAIN rows :
                        rows[i].kind \in {"const", "import", "glob"} => ~Reaches(d.scope, i)
              /\ \A i \in DOMAIN rows \ {answer.row} : Declares(s, at, i) =>
                    \/ Depth(rows[i].scope) < Depth(d.scope)
                    \/ rows[i].kind = "glob" /\ rows[i].scope = d.scope
                    \/ rows[i].scope = d.scope /\ Local(answer.row)
                          /\ (Local(i) => rows[i].from < d.from)

(* What a walk remembered is what a walk without memory finds, for every use  *)
(* it may still be asked about: the caches are keyed by all that matters.     *)
MemoryIsExact ==
    binder.on =>
      /\ \A k \in DOMAIN binder.nearest :
            binder.nearest[k] = NearestWalk(k[1], k[2], <<>>).found
      /\ \A s \in DOMAIN binder.beyond : \A u \in Subjects :
            rows[u].scope = s /\ rows[u].kind = "use" /\ Decide(s, FALSE, rows[u].at) = NoVerdict =>
              binder.beyond[s] = WalkOut(Parent(s), FALSE, rows[u].at, <<>>).bound
      /\ \A s \in DOMAIN binder.bases : binder.bases[s] = BaseWalk(s, <<>>).found
      /\ \A s \in DOMAIN binder.modules : binder.modules[s] = ModuleWalk(s, <<>>).found

\* The binder as a whole: what it calls certain is what the grammar's scoping says, and
\* its memory is what a fresh walk finds.
BindingIsRight == CertainIsRight /\ MemoryIsExact
=============================================================================
