------------------------------ MODULE Effects ------------------------------
(***************************************************************************)
(* One effect of a task: admit and execute of src/src/executor.rs, the     *)
(* decision table of src/src/policy.rs, the shared reads of                *)
(* src/src/resources.rs and the write worker.  Between admission and       *)
(* execution, and inside a write, everything may change: the grant, the    *)
(* denies, the task, the facts the permission mode looks at, and the file  *)
(* that the path names.                                                    *)
(***************************************************************************)
EXTENDS Integers, FiniteSets, Sequences

CONSTANTS
    EffectId,      \* attempts
    EffectClass, \* the classes that are requested
    Mode,        \* the permission modes that are used
    MaxChanges,  \* bound: how often the file is replaced or rewritten
    MaxFlips     \* bound: how often a fact of the policy changes

NoFile == [ino |-> 0, birth |-> 0]

VARIABLES
    facts,    \* what the decision reads: "granted", "denied", "cancelled", ...
    flips,
    file,     \* the file at the path: its identity and the version of its bytes
    effects,  \* the attempts
    flights,  \* the shared reads: [key, members, got]
    writing   \* the write in the worker: its attempt and step
effectVars == <<facts, flips, file, effects, flights, writing>>

FactName == {"granted", "denied", "cancelled", "inScope", "budget", "checkpoint", "approved"}
NoWrite == [of |-> "none", at |-> "idle", inode |-> 0, file |-> NoFile]
EffectOf(class, mode, state, expected, since) ==
    [class |-> class, mode |-> mode, state |-> state, expected |-> expected,
     since |-> since, got |-> -1, touched |-> {}]
NoEffect == EffectOf("none", "none", "none", NoFile, 0)

EffectsInit ==
    /\ facts = {"granted", "inScope", "budget", "checkpoint"} /\ flips = 0
    /\ file = [ino |-> 1, birth |-> 1, bytes |-> 0]
    /\ effects = [e \in EffectId |-> NoEffect]
    /\ flights = << >> /\ writing = NoWrite

Identity(f) == [ino |-> f.ino, birth |-> f.birth]
Fact(f) == f \in facts

\* Policy::decide: a denied target is refused in every mode; then the mode's table.
Allowed(class, mode) ==
    /\ ~ Fact("denied")
    /\ CASE mode = "Manual" -> class = "Read" /\ Fact("inScope")
         [] mode = "AcceptEdits" ->
              class = "Read" \/ (class = "Write" /\ Fact("inScope") /\ Fact("checkpoint"))
         [] mode = "ReadOnly" -> class = "Read"
         [] mode = "Auto" ->
              \/ class \in {"Read", "Exec"} /\ Fact("inScope")
              \/ class = "Write" /\ Fact("inScope") /\ Fact("budget")
              \/ class = "Egress" /\ Fact("approved")
         [] mode = "PreapprovedOnly" -> Fact("approved")
         [] mode = "Yolo" -> TRUE

\* admission_context: a path outside the grant's scope is an error, not a decision.
ContextHolds == Fact("granted") /\ Fact("inScope")

SetEffect(e, state) == effects' = [effects EXCEPT ![e] = [effects[e] EXCEPT !.state = state]]

----------------------------------------------------------------------------
\* ReadFlights: attempts that asked for the same file under the same rights
\* before one of them has read it get that one's bytes.

FlightKey(mode) == [ino |-> file.ino, mode |-> mode]

\* Mutant: a flight that has been read takes new members.
JoinsRead(f, mode) == f.key = FlightKey(mode)

Joins(f, mode) == f.key = FlightKey(mode) /\ f.got = -1

\* ReadFlights::subscribe: join the newest flight of the key if it is unread.
Subscribe(e, mode) ==
    LET mine == {i \in DOMAIN flights : flights[i].key = FlightKey(mode)}
        last == CHOOSE i \in mine : \A j \in mine : j <= i
    IN flights' = IF mine # {} /\ Joins(flights[last], mode)
                  THEN [flights EXCEPT ![last] = [flights[last] EXCEPT !.members = flights[last].members \cup {e}]]
                  ELSE Append(flights, [key |-> FlightKey(mode), members |-> {e}, got |-> -1])

\* A flight that its last member leaves is forgotten.
Manned(all) ==
    LET F[n \in 0 .. Len(all)] ==
            IF n = 0 THEN << >>
            ELSE IF all[n].members # {} THEN Append(F[n - 1], all[n]) ELSE F[n - 1]
    IN  F[Len(all)]

\* drop_member.
DropMember(e) ==
    flights' = Manned([i \in DOMAIN flights |->
                         [flights[i] EXCEPT !.members = flights[i].members \ {e}]])
\* settle: the reader leaves its bytes to the members that remain.
SettleFlight(e, bytes) ==
    flights' = Manned([i \in DOMAIN flights |->
                   IF e \notin flights[i].members THEN flights[i]
                   ELSE [flights[i] EXCEPT !.members = flights[i].members \ {e}, !.got = bytes]])
Shared(e) == {flights[i].got : i \in {i \in DOMAIN flights : e \in flights[i].members}} \ {-1}

----------------------------------------------------------------------------
\* admit, with hook_transform before it: the hook's path is the one decided
\* about; a refusal of a rewritten path is the hook's, and is settled the same.
Admit(e) ==
    /\ effects[e].state = "none" /\ writing = NoWrite
    /\ \E class \in EffectClass, mode \in Mode :
         /\ ContextHolds
         /\ effects' = [effects EXCEPT ![e] =
              EffectOf(class, mode, IF Allowed(class, mode) THEN "planned" ELSE "rejected",
                       IF class = "Write" THEN Identity(file) ELSE NoFile, file.bytes)]
         /\ IF class = "Read" /\ Allowed(class, mode) THEN Subscribe(e, mode)
            ELSE UNCHANGED flights
    /\ UNCHANGED <<facts, flips, file, writing>>

\* submit_preview: the decision is reported, the attempt never runs.
Preview(e) ==
    /\ effects[e].state = "none" /\ writing = NoWrite
    /\ \E class \in EffectClass, mode \in Mode :
         effects' = [effects EXCEPT ![e] = EffectOf(class, mode, "rejected", NoFile, 0)]
    /\ UNCHANGED <<facts, flips, file, flights, writing>>

\* Mutant: the mode is not asked again.
GatesOnce(e) == Fact("granted") /\ ~ Fact("cancelled")

\* execute_gates: the grant, the cancellation and the mode again, at execution.
Gates(e) ==
    /\ Fact("granted") /\ ~ Fact("cancelled")
    /\ ContextHolds /\ Allowed(effects[e].class, effects[e].mode)

RefuseEffect(e) ==
    /\ effects[e].state = "planned" /\ writing = NoWrite /\ ~ Gates(e)
    /\ SetEffect(e, "rejected") /\ DropMember(e)
    /\ UNCHANGED <<facts, flips, file, writing>>

\* read_member: another member's bytes, or a read of one's own; execute
\* confirms it, execute_unconfirmed records that the receipt was lost.
ReadEffect(e) ==
    /\ effects[e].state = "planned" /\ effects[e].class = "Read" /\ writing = NoWrite /\ Gates(e)
    /\ \E state \in {"confirmed", "unknown"}, got \in IF Shared(e) # {} THEN Shared(e) ELSE {file.bytes} :
         effects' = [effects EXCEPT ![e] = [effects[e] EXCEPT !.state = state, !.got = got]]
    /\ IF Shared(e) # {} THEN DropMember(e) ELSE SettleFlight(e, file.bytes)
    /\ UNCHANGED <<facts, flips, file, writing>>

\* The read worker fails: execute drops the flight and rejects the attempt;
\* execute_unconfirmed leaves both as they are.
ReadFails(e) ==
    /\ effects[e].state = "planned" /\ effects[e].class = "Read" /\ writing = NoWrite /\ Gates(e)
    /\ Shared(e) = {}
    /\ \/ SetEffect(e, "rejected") /\ DropMember(e)
       \/ SetEffect(e, "running") /\ UNCHANGED flights
    /\ UNCHANGED <<facts, flips, file, writing>>

\* Exec and Egress: the boundary's controls first; a failure is a rejection.
RunEffect(e) ==
    /\ effects[e].state = "planned" /\ effects[e].class \in {"Exec", "Egress"} /\ writing = NoWrite
    /\ Gates(e)
    /\ \E state \in IF effects[e].class = "Egress" THEN {"rejected"} ELSE {"confirmed", "rejected"} :
         SetEffect(e, state)
    /\ UNCHANGED <<facts, flips, file, flights, writing>>

----------------------------------------------------------------------------
\* The write worker.  Its steps interleave with whoever else owns the file.

StartWrite(e) ==
    /\ effects[e].state = "planned" /\ effects[e].class = "Write" /\ writing = NoWrite /\ Gates(e)
    /\ SetEffect(e, "running")
    /\ writing' = [NoWrite EXCEPT !.of = e, !.at = "probe", !.inode = file.ino]   \* inspect_regular_target
    /\ UNCHANGED <<facts, flips, file, flights>>

\* commit_worker_error: unknown when the bytes may have moved, rejected when not.
FailsWrite(state) ==
    /\ SetEffect(writing.of, state) /\ writing' = NoWrite
    /\ UNCHANGED <<facts, flips, file, flights>>

\* Conformance probes, the confined gate and the open may each fail.
WriteProbeFails == writing.at \in {"probe", "opened"} /\ FailsWrite("rejected")

\* The open binds a descriptor to whatever file the path names now.
OpenTarget ==
    /\ writing.at = "probe"
    /\ writing' = [writing EXCEPT !.at = "opened", !.file = Identity(file)]
    /\ UNCHANGED <<facts, flips, file, effects, flights>>

\* Mutant: the reuse token is not compared.
OccupantByInode(w, expected) == w.file.ino = w.inode /\ w.file.ino = expected.ino

\* confirm_write_occupant: the opened file is the inspected one and the
\* admitted one, its reuse token included.
Occupant(w, expected) == w.file.ino = w.inode /\ w.file = expected

ConfirmOccupant ==
    /\ writing.at = "opened"
    /\ IF Occupant(writing, effects[writing.of].expected)
       THEN /\ writing' = [writing EXCEPT !.at = "helper"]
            /\ UNCHANGED <<facts, flips, file, effects, flights>>
       ELSE FailsWrite("rejected")

\* confined_write of the helper: truncate, then write and sync.
Truncate ==
    /\ writing.at = "helper" /\ writing' = [writing EXCEPT !.at = "truncated"]
    /\ effects' = [effects EXCEPT ![writing.of] =
         [effects[writing.of] EXCEPT !.touched = effects[writing.of].touched \cup {writing.file}]]
    /\ file' = IF Identity(file) = writing.file THEN [file EXCEPT !.bytes = file.bytes + 1] ELSE file
    /\ UNCHANGED <<facts, flips, flights>>

\* Mutant: a write that fails is reported like a truncate that fails.
HelperExitIo(at) == IF at = "helper" THEN {"io", "killed"} ELSE {"ok", "io", "killed"}

\* The helper's exit: before the truncate it reports I/O, after it a mutation;
\* it may be killed, or lost with its launch, at any moment.
HelperExit(at) == IF at = "helper" THEN {"io", "killed"} ELSE {"ok", "mutated", "killed"}

\* helper_io_bytes, then commit_worker_error.
HelperEnds ==
    /\ writing.at \in {"helper", "truncated"}
    /\ \E exit \in HelperExit(writing.at) :
         FailsWrite(CASE exit = "ok" -> "confirmed"
                      [] exit = "io" -> "rejected"
                      [] exit \in {"mutated", "killed"} -> "unknown")

----------------------------------------------------------------------------
\* The rest of the world.

\* A right, the task, the budget or the checkpoint changes; a grant that is
\* revoked and a cancelled task stay so.
Flip(f) ==
    /\ flips < MaxFlips /\ flips' = flips + 1
    /\ f = "granted" => Fact("granted")
    /\ f = "cancelled" => ~ Fact("cancelled")
    /\ facts' = IF Fact(f) THEN facts \ {f} ELSE facts \cup {f}
    /\ UNCHANGED <<file, effects, flights, writing>>

\* Another process rewrites the file, or puts a new one in its place; a new
\* file may get the inode number of the old one, never its reuse token.
ReplaceFile ==
    /\ file.bytes < MaxChanges
    /\ \E ino \in {1, 2}, new \in BOOLEAN :
         /\ new \/ ino = file.ino
         /\ file' = [ino |-> ino, birth |-> file.birth + (IF new THEN 1 ELSE 0),
                     bytes |-> file.bytes + 1]
    /\ UNCHANGED <<facts, flips, effects, flights, writing>>

EffectsNext ==
    \/ \E e \in EffectId : \/ Admit(e) \/ Preview(e) \/ RefuseEffect(e) \/ ReadEffect(e) \/ ReadFails(e)
                         \/ RunEffect(e) \/ StartWrite(e)
    \/ WriteProbeFails \/ OpenTarget \/ ConfirmOccupant \/ Truncate \/ HelperEnds
    \/ \E f \in FactName : Flip(f)
    \/ ReplaceFile

EffectsSpec == EffectsInit /\ [][EffectsNext]_effectVars

----------------------------------------------------------------------------
\* A shared read is never older than its admission: the bytes that another
\* member read were read while this attempt was already waiting for them.
SharedIsFresh == \A e \in EffectId : effects[e].got # -1 => effects[e].got >= effects[e].since

\* The ledger never calls a write rejected whose bytes moved: after the helper
\* has truncated the file the attempt is running, confirmed or unknown.
RejectedMovedNothing ==
    \A e \in EffectId : effects[e].state = "rejected" => effects[e].touched = {}

\* A write only ever touches the file that was admitted, however often the
\* path was given another file, one with the same inode number included.
TouchesAdmitted ==
    \A e \in EffectId : effects[e].touched \subseteq {effects[e].expected}

\* No effect starts under rights that have gone since its admission: in the
\* step that starts it the grant is live, the task is not cancelled and the
\* mode it was admitted under still allows it.
StartsAllowed ==
    [][\A e \in EffectId :
         effects[e].state = "planned" /\ effects'[e].state \in {"running", "confirmed", "unknown"}
         => Fact("granted") /\ ~ Fact("cancelled") /\ Allowed(effects[e].class, effects[e].mode)
      ]_effectVars

\* Effects as a whole: a shared read is fresh, a rejected write moved nothing, a write
\* touches the file it was admitted for, and an effect starts under rights still live.
EffectsAreAdmitted == [](SharedIsFresh /\ RejectedMovedNothing /\ TouchesAdmitted) /\ StartsAllowed
=============================================================================
