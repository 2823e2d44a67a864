---------------------------- MODULE ProjectIndex ----------------------------
(***************************************************************************)
(* The project index: generations of rows in the store (src/src/state.rs), *)
(* the run owner and its one run in flight, project.init and the pump of   *)
(* the serving loop (src/src/commands.rs), the worker's narrowed or full   *)
(* cut (src/src/context.rs) and the watch whose batch the next cut takes   *)
(* (src/src/index.rs).  Files change at any time, also while a run reads.  *)
(***************************************************************************)
EXTENDS Integers, Sequences, FiniteSets

CONSTANTS
    File,                        \* the project's source files
    MaxVersion,                  \* bound: versions of a file
    MaxGeneration,               \* bound: generations ever reserved
    INDEX_GENERATION_RETENTION,  \* generations the store keeps
    WATCH_PATH_CAPACITY          \* paths a batch holds

ASSUME IndexAssumption ==
    /\ MaxVersion \in Nat /\ MaxGeneration \in Nat
    /\ INDEX_GENERATION_RETENTION \in Nat \ {0} /\ WATCH_PATH_CAPACITY \in Nat

VARIABLES
    disk,         \* the version of each file: 0 not yet created, -1 removed
    batch,        \* [paths, missed, moved]: what the watch has recorded
    watching,     \* the watch is started
    generations,  \* number -> [state, rows, docs] of the kept generations
    run,          \* [at, gen, changed, moved, docs, full, got]: the run in flight
    discarded     \* files with a change no cut has read and no batch holds
indexVars == <<disk, batch, watching, generations, run, discarded>>

NoBatch == [paths |-> {}, missed |-> FALSE, moved |-> FALSE]
NoRun == [at |-> "none"]
Present == {f \in File : disk[f] > 0}
\* A row is what was read of the file, and the files its paths resolve among.
RowOf(f) == [version |-> disk[f], among |-> Present]
NoRows == [f \in {} |-> {}]
Stub == [state |-> "interrupted", rows |-> NoRows, docs |-> {}]

IndexInit ==
    /\ disk \in [File -> {0, 1}] /\ batch = NoBatch /\ watching = FALSE
    /\ generations = [g \in {} |-> Stub] /\ run = NoRun /\ discarded = File

Newest(gs) == CHOOSE g \in DOMAIN gs : \A h \in DOMAIN gs : h <= g

----------------------------------------------------------------------------
\* record: one event of the backend joins the batch, up to its capacity.
Recorded(f, moves) ==
    LET fits == f \in batch.paths \/ Cardinality(batch.paths) < WATCH_PATH_CAPACITY
    IN  [paths |-> IF fits THEN batch.paths \cup {f} ELSE batch.paths,
         missed |-> batch.missed \/ ~fits,
         moved |-> batch.moved \/ moves]

\* A file is written, created or removed.  Nobody notices without a watch.
Change(f, version) ==
    LET moves == disk[f] = 0 \/ version = -1
    IN  /\ disk[f] >= 0 /\ version \in {-1, disk[f] + 1} \ {MaxVersion + 1} /\ (version = -1 => disk[f] > 0)
        /\ disk' = [disk EXCEPT ![f] = version]
        /\ IF watching
           THEN batch' = Recorded(f, moves) /\ UNCHANGED discarded
           ELSE discarded' = discarded \cup {f} /\ UNCHANGED batch
        /\ UNCHANGED <<watching, generations, run>>

\* The backend drops events and says so: the changes are in no batch path.
Overflow(f) ==
    /\ watching /\ disk[f] \in 1 .. MaxVersion - 1
    /\ disk' = [disk EXCEPT ![f] = @ + 1]
    /\ batch' = [batch EXCEPT !.missed = TRUE]
    /\ UNCHANGED <<watching, generations, run, discarded>>

----------------------------------------------------------------------------
\* take_index_watch_batch: a batch that says something marks the newest
\* generation, whichever state it has.
MarkedStale ==
    IF batch = NoBatch \/ DOMAIN generations = {} THEN generations
    ELSE LET why == IF batch.missed THEN "watcher_missed" ELSE "source_changed"
         IN  [g \in DOMAIN generations |->
                IF g = Newest(generations) THEN [generations[g] EXCEPT !.state = why]
                ELSE generations[g]]

\* Mutant: the pump narrows to the batch's paths as project.init does.
RebuildsNever(b) == FALSE
\* needs_full_rebuild
NeedsFullRebuild(b) == b.missed \/ b.moved \/ b.paths = {}

\* What a batch tells and a cut of `changed` will not read again.
Lost(changed, moved) ==
    IF batch = NoBatch \/ moved \/ changed = {} THEN {}
    ELSE (IF batch.missed THEN File ELSE batch.paths) \ changed
LostAll == IF batch.missed \/ batch.moved THEN File ELSE batch.paths

\* prepare_index_run: the documents of the newest generation, a stub reserved.
Reserve(gs, changed, moved) ==
    LET next == IF DOMAIN gs = {} THEN 1 ELSE Newest(gs) + 1
        docs == IF DOMAIN gs = {} THEN {} ELSE gs[Newest(gs)].docs
    IN  /\ next <= MaxGeneration
        /\ generations' = [g \in DOMAIN gs \cup {next} |-> IF g = next THEN Stub ELSE gs[g]]
        /\ run' = [at |-> "enumerate", gen |-> next, changed |-> changed, moved |-> moved,
                   docs |-> docs, full |-> FALSE, found |-> {}, got |-> NoRows]

\* project.init: the caller's paths, or the batch's; refused while a run is
\* in flight, with the batch already taken.
ProjectInit(named) ==
    LET changed == IF named = {} THEN batch.paths ELSE named
    IN  /\ batch' = NoBatch
        /\ IF run.at # "none"
           THEN /\ batch # NoBatch
                /\ generations' = MarkedStale /\ discarded' = discarded \cup LostAll
                /\ UNCHANGED run
           ELSE /\ Reserve(MarkedStale, changed, batch.moved)
                /\ discarded' = discarded \cup Lost(changed, batch.moved)
        /\ UNCHANGED <<disk, watching>>

\* pump_index: without a run, a batch starts the repair.
Pump ==
    LET changed == IF NeedsFullRebuild(batch) THEN {} ELSE batch.paths
    IN  /\ run.at = "none" /\ batch # NoBatch
        /\ Reserve(MarkedStale, changed, batch.moved)
        /\ batch' = NoBatch /\ UNCHANGED <<disk, watching, discarded>>
\* The repair can not start (the root, the store): the batch is gone.
PumpFails ==
    /\ run.at = "none" /\ batch # NoBatch
    /\ generations' = MarkedStale /\ batch' = NoBatch /\ discarded' = discarded \cup LostAll
    /\ UNCHANGED <<disk, watching, run>>

----------------------------------------------------------------------------
\* file_set_held: outside the narrowed paths the same documents as before.
FileSetHeld(docs, indexed, narrowed) == indexed \ narrowed = docs \ narrowed

\* project_index: the enumeration decides whether the cut is narrowed.  A
\* narrowed path that itself joins or leaves the file set is not noticed, and
\* the carried rows of the others resolve among the earlier set.
Enumerate ==
    LET full == \/ run.moved \/ run.docs = {} \/ run.changed = {}
                \/ ~FileSetHeld(run.docs, Present, run.changed)
    IN  /\ run.at = "enumerate"
        /\ run' = [run EXCEPT !.at = "read", !.found = Present, !.full = full]
        /\ discarded' = IF full \/ run.docs = Present THEN discarded ELSE File
        /\ UNCHANGED <<disk, batch, watching, generations>>

Wanted == IF run.full THEN run.found ELSE run.found \cap run.changed

\* One file is read and its edges derived.
Derive(f) ==
    /\ run.at = "read" /\ f \in Wanted \ DOMAIN run.got
    /\ run' = [run EXCEPT !.got = [g \in DOMAIN run.got \cup {f} |->
                 IF g = f THEN [version |-> disk[f], among |-> run.found] ELSE run.got[g]]]
    /\ discarded' = IF run.found = Present THEN discarded \ {f} ELSE discarded
    /\ UNCHANGED <<disk, batch, watching, generations>>

\* seal_index_generation: the rows carried and derived, the previous one
\* superseded when it is fresh, the oldest ones pruned.
Previous(gs, gen) == Newest([g \in DOMAIN gs \ {gen} |-> gs[g]])
Carried(gs, gen, replaced) ==
    IF DOMAIN gs = {gen} THEN NoRows
    ELSE LET old == gs[Previous(gs, gen)].rows
         IN  [f \in DOMAIN old \ replaced |-> old[f]]

Kept(gs) == {g \in DOMAIN gs : Cardinality({h \in DOMAIN gs : h > g}) < INDEX_GENERATION_RETENTION}

SealAs(state, rows, docs) ==
    LET gen == run.gen
        superseded == [g \in DOMAIN generations |->
            IF g = gen THEN [state |-> state, rows |-> rows, docs |-> docs]
            ELSE IF /\ DOMAIN generations # {gen} /\ g = Previous(generations, gen)
                    /\ generations[g].state = "fresh"
                 THEN [generations[g] EXCEPT !.state = "superseded"]
                 ELSE generations[g]]
    IN  /\ generations' = [g \in Kept(superseded) |-> superseded[g]]
        /\ run' = NoRun

\* seal_index_run: a complete answer is fresh; then the watch is started.
Seal ==
    LET base == IF run.full THEN NoRows ELSE Carried(generations, run.gen, run.changed)
    IN  /\ run.at = "read" /\ Wanted \subseteq DOMAIN run.got
        /\ SealAs("fresh",
                  [f \in DOMAIN base \cup DOMAIN run.got |->
                     IF f \in DOMAIN run.got THEN run.got[f] ELSE base[f]],
                  run.found)
        /\ watching' = TRUE
        /\ discarded' = IF watching \/ run.found = Present THEN discarded ELSE File
        /\ UNCHANGED <<disk, batch>>
\* The edge limit ends a full cut early: partial coverage, the rows as they are.
SealPartial ==
    /\ run.at = "read" /\ run.full /\ ~(Wanted \subseteq DOMAIN run.got)
    /\ SealAs("partial_coverage", run.got, run.found)
    /\ watching' = TRUE
    /\ discarded' = discarded \cup (Wanted \ DOMAIN run.got)
    /\ UNCHANGED <<disk, batch>>
\* The worker failed, was refused, or its task was cancelled: nothing is carried.
SealFailed ==
    /\ run.at # "none" /\ SealAs("isolated_run", NoRows, {})
    /\ UNCHANGED <<disk, batch, watching, discarded>>

\* The process dies: the stub stays, the watch and its batch are gone.
Restarts ==
    /\ run' = NoRun /\ batch' = NoBatch /\ watching' = FALSE
    /\ discarded' = discarded \cup LostAll
    /\ UNCHANGED <<disk, generations>>

IndexNext ==
    \/ \E f \in File : \/ \E v \in -1 .. MaxVersion : Change(f, v)
                       \/ Overflow(f) \/ Derive(f)
    \/ \E named \in SUBSET File : ProjectInit(named)
    \/ Pump \/ PumpFails \/ Enumerate
    \/ Seal \/ SealPartial \/ SealFailed \/ Restarts

IndexSpec == IndexInit /\ [][IndexNext]_indexVars

----------------------------------------------------------------------------
\* A generation served as fresh describes the project: every file's row is of
\* what is on disk, unless the watch still holds the change, or it is one of
\* the changes the code drops (made unwatched, taken by a project.init that
\* was refused or named other paths, by a repair that did not start, or left
\* out at the edge limit).
FreshIsCurrent ==
    LET g == Newest(generations)
    IN  (watching /\ DOMAIN generations # {} /\ generations[g].state = "fresh")
        => \A f \in Present :
              \/ f \in DOMAIN generations[g].rows /\ generations[g].rows[f] = RowOf(f)
              \/ f \in batch.paths \cup discarded \/ batch.missed \/ batch.moved

\* "a generation stops being current when its successor commits"
\* (src/src/index.rs, StaleCause::Superseded): at most one is fresh.
OneFresh ==
    \A g, h \in DOMAIN generations :
        generations[g].state = "fresh" /\ generations[h].state = "fresh" => g = h
=============================================================================
