------------------------------ MODULE Releases ------------------------------
(***************************************************************************)
(* The ledger of base documents of src/src/state/learning.rs: a release is *)
(* staged, activated and retired in SQLite transactions; what it does not  *)
(* carry is its blocker set, read page by page under the set's epoch; its  *)
(* identity rules move the learned bindings when it activates.  A caller   *)
(* holds the policy pinned by its staging in memory, so a restart loses it.*)
(***************************************************************************)
EXTENDS Integers, Sequences, FiniteSets

CONSTANTS
    MaxVersion,             \* base versions are 1..MaxVersion
    Install,                \* offered documents: [version, digest, purposes]
    Rule,                   \* identity rules: [kind, old, new]
    UserRecords,            \* purposes the user's configuration names, numbered in order
    RoleBinding,            \* learned instructions, bound to a purpose
    ActionBinding,          \* active learned predicates, bound to a capability
    FirstBound,             \* what each binding is bound to at first
    Effect,                 \* the effect of each action binding
    BASE_VERSION_RETENTION,
    MaxEpoch,               \* bound on the epochs allocated
    PageSize                \* a page of the blocker set

ASSUME BaseLedgerAssumption ==
    /\ BASE_VERSION_RETENTION \in Nat /\ PageSize \in Nat \ {0} /\ MaxVersion \in Nat \ {0}
    /\ \A i \in Install : i.version \in 1..MaxVersion
    /\ UserRecords \cup RoleBinding \subseteq Int
    /\ IsFiniteSet(UserRecords \cup RoleBinding)
    /\ FirstBound = [b \in RoleBinding \cup ActionBinding |-> FirstBound[b]]

VARIABLES
    ledger,     \* base_state, receipts, identity_migrations and the bindings
    pin,        \* staged_policy: held in memory
    pager       \* one reader of a blocker set, page after page
baseVars == <<ledger, pin, pager>>

NoBase == [state |-> "none", digest |-> "none", epoch |-> 0, blocks |-> {}]
NoPager == [base |-> 0, epoch |-> 0, offset |-> 0, first |-> {}, seen |-> {}, done |-> FALSE]

BaseInit ==
    /\ ledger = [rows |-> [v \in 1..MaxVersion |-> NoBase], epochs |-> 0,
                 rules |-> [v \in 1..MaxVersion |-> {}], bound |-> FirstBound]
    /\ pin = FALSE /\ pager = NoPager

In(l, state) == {v \in 1..MaxVersion : l.rows[v].state = state}
Serves(l, i) == i.version \in In(l, "active")
ServedVersion(l) == IF In(l, "active") = {} THEN 1 ELSE CHOOSE v \in In(l, "active") : TRUE

WithRow(l, v, row) == [l EXCEPT !.rows = [l.rows EXCEPT ![v] = row]]
WithRules(l, v, set) == [l EXCEPT !.rules = [l.rules EXCEPT ![v] = set]]

----------------------------------------------------------------------------
\* Staging.

\* blockless_addresses: the user's records and the learned conditions that name
\* a purpose the document does not carry; a rule places a record, not a condition.
BlocklessAddresses(l, i) ==
    {p \in UserRecords : /\ p \notin i.purposes
                         /\ \A r \in l.rules[i.version] : r.kind = "role" => p \notin {r.old, r.new}}
    \cup {b \in RoleBinding : l.bound[b] \notin i.purposes}

\* Mutant: a set that changes keeps its epoch.
SealInPlace(l, i) == [l EXCEPT !.rows[i.version].blocks = BlocklessAddresses(l, i)]

\* seal_blockers_on: a recorded set that changes gets an epoch never used before.
SealBlockers(l, i) ==
    LET set == BlocklessAddresses(l, i) IN
    IF l.rows[i.version].blocks = set THEN l
    ELSE WithRow([l EXCEPT !.epochs = l.epochs + 1], i.version,
                 [l.rows[i.version] EXCEPT !.epoch = l.epochs + 1, !.blocks = set])

\* Mutant: a document may skip versions.
CanStageSkips(l, i) ==
    /\ \A v \in In(l, "active") :
         i.version >= v /\ (i.version = v => l.rows[v].digest = i.digest)
    /\ ~ Serves(l, i) =>
         \A v \in In(l, "staged") : v = i.version /\ l.rows[v].digest = i.digest

\* stage_base_on, its refusals: an older or a skipping version, another document
\* of the serving version, another document already staged.
CanStage(l, i) ==
    /\ \A v \in In(l, "active") :
         i.version \in {v, v + 1} /\ (i.version = v => l.rows[v].digest = i.digest)
    /\ ~ Serves(l, i) =>
         \A v \in In(l, "staged") : v = i.version /\ l.rows[v].digest = i.digest

\* stage_base_on: a second staging of one document only seals its set again.
StageBaseOn(l, i) ==
    IF Serves(l, i) THEN l
    ELSE SealBlockers(
           WithRow([l EXCEPT !.epochs = l.epochs + 1], i.version,
                   IF l.rows[i.version].state # "none" THEN l.rows[i.version]
                   ELSE [state |-> "staged", digest |-> i.digest,
                         epoch |-> l.epochs + 1, blocks |-> {}]), i)

\* Mutant: abandoning a staged base leaves its identity rules.
AbandonRowOnly(l, v) == [l EXCEPT !.rows[v] = NoBase]

\* abandon_base_on: the staged row goes, with its receipt and its rules.
AbandonBaseOn(l, v) == WithRules(WithRow(l, v, NoBase), v, {})

\* stage_for_cutover_on: an older or an equal staging that stands in the way is
\* abandoned first.  The ledgers that can result, none when it is refused.
StageForCutoverOn(l, i) ==
    IF CanStage(l, i) THEN {StageBaseOn(l, i)}
    ELSE {StageBaseOn(AbandonBaseOn(l, v), i) :
            v \in {w \in In(l, "staged") : w <= i.version /\ CanStage(AbandonBaseOn(l, w), i)}}

----------------------------------------------------------------------------
\* Activation.

KindOf(b) == IF b \in RoleBinding THEN "role" ELSE "action"

\* IdentityRules::place: where the rules of version v put a binding.
Placed(l, v, b) ==
    LET applied == {r \in l.rules[v] : r.kind = KindOf(b) /\ r.old = l.bound[b]} IN
    IF applied = {} THEN l.bound[b] ELSE (CHOOSE r \in applied : TRUE).new

\* Mutant: a binding that moves is compared by where it was.
ConflictsBefore(l, v) ==
    \E a, b \in ActionBinding : Effect[a] # Effect[b] /\ l.bound[a] = l.bound[b]

\* rebind_learning_identities_on: a move would make two active predicates
\* disagree about one capability.
Conflicts(l, v) ==
    \E a, b \in ActionBinding :
        /\ Effect[a] # Effect[b] /\ Placed(l, v, a) = Placed(l, v, b)
        /\ (Placed(l, v, a) # l.bound[a] \/ Placed(l, v, b) # l.bound[b])

\* prune_base_versions: the newest retired documents stay, with their rules.
PruneBases(l) ==
    LET old == {v \in In(l, "retired") :
                  Cardinality({w \in In(l, "retired") : w > v}) >= BASE_VERSION_RETENTION}
    IN  [l EXCEPT !.rows = [v \in 1..MaxVersion |-> IF v \in old THEN NoBase ELSE l.rows[v]],
                  !.rules = [v \in 1..MaxVersion |-> IF v \in old THEN {} ELSE l.rules[v]]]

\* commit_base_on; {} when it is refused and the transaction is rolled back.
CommitBaseOn(l, v) ==
    LET rows == [w \in 1..MaxVersion |->
                   IF w = v THEN [l.rows[w] EXCEPT !.state = "active"]
                   ELSE IF l.rows[w].state = "active" THEN [l.rows[w] EXCEPT !.state = "retired"]
                   ELSE l.rows[w]]
        next == [l EXCEPT !.rows = rows,
                          !.bound = [b \in DOMAIN l.bound |-> Placed(l, v, b)]]
    IN  IF v \in In(l, "staged") /\ ~ Conflicts(l, v) THEN {PruneBases(next)} ELSE {}

\* publish_generation_body: one transaction stages and activates.
PublishGenerationOn(l, i) ==
    UNION {IF Serves(s, i) THEN {s} ELSE CommitBaseOn(s, i.version) :
             s \in StageForCutoverOn(l, i)}

----------------------------------------------------------------------------
\* The operations of the store.

Becomes(next) == ledger' \in next /\ ledger'.epochs <= MaxEpoch

StageBase(i) ==
    /\ CanStage(ledger, i) /\ Becomes({StageBaseOn(ledger, i)})
    /\ pin' = TRUE /\ UNCHANGED pager

\* cut_over_serving, its first transaction.
StageForCutover(i) ==
    /\ ~ Serves(ledger, i) /\ Becomes(StageForCutoverOn(ledger, i))
    /\ pin' = TRUE /\ UNCHANGED pager

\* record_migration_on: IdentityRules::new refuses a second target for a subject.
Recordable(l, r, v) ==
    /\ r.old # r.new
    /\ \A q \in l.rules[v] : q.kind = r.kind /\ q.old = r.old => q.new = r.new

\* record_release_rules: the rules, and the set sealed again under them.
RecordReleaseRules(i, r) ==
    /\ \E s \in {"active", "staged"} : i.version \in In(ledger, s)
    /\ ledger.rows[i.version].digest = i.digest
    /\ Recordable(ledger, r, i.version)
    /\ Becomes({SealBlockers(WithRules(ledger, i.version, ledger.rules[i.version] \cup {r}), i)})
    /\ UNCHANGED <<pin, pager>>

\* record_identity_migration: a rule of the serving base, nothing sealed.
RecordIdentityMigration(r) ==
    /\ Recordable(ledger, r, ServedVersion(ledger))
    /\ ledger' = WithRules(ledger, ServedVersion(ledger),
                           ledger.rules[ServedVersion(ledger)] \cup {r})
    /\ UNCHANGED <<pin, pager>>

\* commit_base: needs the pin.  A COMMIT that reports an error is read back and
\* is this step or none.
CommitBase(v) ==
    /\ pin /\ Becomes(CommitBaseOn(ledger, v))
    /\ pin' = FALSE /\ UNCHANGED pager

AbandonBase(v) ==
    /\ v \in In(ledger, "staged")
    /\ ledger' = AbandonBaseOn(ledger, v) /\ UNCHANGED <<pin, pager>>

PublishGeneration(i) ==
    /\ Becomes(PublishGenerationOn(ledger, i))
    /\ pin' = FALSE /\ UNCHANGED pager

\* The process dies: the pin is gone, the reader keeps its cursor.
BaseRestart == pin /\ pin' = FALSE /\ UNCHANGED <<ledger, pager>>

\* blocker_page_on: PageSize addresses in order, from the cursor's offset.
BlockerPage(set, offset) ==
    {a \in set : LET before == Cardinality({b \in set : b < a})
                 IN  before >= offset /\ before < offset + PageSize}

\* update_status_page without a cursor: the set's epoch is in the next cursor.
FirstPage(v) ==
    /\ ledger.rows[v].epoch # 0
    /\ LET set == ledger.rows[v].blocks page == BlockerPage(set, 0) IN
       pager' = [base |-> v, epoch |-> ledger.rows[v].epoch, offset |-> Cardinality(page),
                 first |-> set, seen |-> page, done |-> Cardinality(set) <= PageSize]
    /\ UNCHANGED <<ledger, pin>>

\* blocker_page_for, BlockerSetMoved and BlockerSetGone: the reader restarts.
PageConflict ==
    /\ pager.base # 0 /\ ~ pager.done /\ ledger.rows[pager.base].epoch # pager.epoch
    /\ pager' = NoPager /\ UNCHANGED <<ledger, pin>>

NextPage ==
    /\ pager.base # 0 /\ ~ pager.done /\ ledger.rows[pager.base].epoch = pager.epoch
    /\ LET set == ledger.rows[pager.base].blocks
           page == BlockerPage(set, pager.offset) IN
       pager' = [pager EXCEPT !.offset = pager.offset + Cardinality(page),
                   !.seen = pager.seen \cup page,
                   !.done = pager.offset + Cardinality(page) >= Cardinality(set)]
    /\ UNCHANGED <<ledger, pin>>

BaseNext ==
    \/ \E i \in Install : StageBase(i) \/ StageForCutover(i) \/ PublishGeneration(i)
    \/ \E i \in Install, r \in Rule : RecordReleaseRules(i, r)
    \/ \E r \in Rule : RecordIdentityMigration(r)
    \/ \E v \in 1..MaxVersion : CommitBase(v) \/ AbandonBase(v) \/ FirstPage(v)
    \/ BaseRestart \/ NextPage \/ PageConflict

BaseSpec == BaseInit /\ [][BaseNext]_baseVars

----------------------------------------------------------------------------
\* A reader that pages a blocker set to its end without a conflict has seen one
\* set: exactly the addresses the set had at its first page, although the set is
\* sealed again, abandoned or pruned between two pages.
PagesAreOneSet == pager.done => pager.seen = pager.first

\* No activation brings two active learned predicates of different effect
\* together on one capability; a store that already held such a pair keeps it.
NoConflictByMove ==
    \A a, b \in ActionBinding :
        Effect[a] # Effect[b] /\ FirstBound[a] # FirstBound[b]
            => ledger.bound[a] # ledger.bound[b]

\* The serving base only moves forward and one version at a time, and at most
\* one document serves and at most one is staged.
ServingAdvances ==
    [][/\ \A v \in In(ledger, "active"), w \in In(ledger', "active") : w \in {v, v + 1}
       /\ In(ledger, "active") # {} => Cardinality(In(ledger', "active")) = 1
       /\ Cardinality(In(ledger', "staged")) <= 1]_baseVars

\* A document's rules go with its row: a version that was abandoned or pruned
\* leaves no rule a later document of that version would inherit.
RulesHaveTheirBase ==
    \A v \in 1..MaxVersion \ {1} : ledger.rules[v] # {} => ledger.rows[v].state # "none"

-----------------------------------------------------------------------------
(***************************************************************************)
(* The startup that takes a staged base into service: publish_startup of   *)
(* src/src/commands.rs and activate of src/src/update.rs.  Each attempt    *)
(* keeps one durable record, rewritten before every effect, in a directory *)
(* ordered by the time of writing.  The process may die, or a write fail,  *)
(* between any two writes; the next startup begins another attempt.  The   *)
(* base ledger itself is modelled above; here it is the serving and staged  *)
(* version.                                                                *)
(***************************************************************************)

CONSTANTS
    MaxAttempts,            \* bound on the attempts
    MaxBase,                \* bound on the base versions
    EVIDENCE_MAX_RECORDS,
    PROJECTION_MAX_RECORDS

ASSUME UpdateAssumption == EVIDENCE_MAX_RECORDS \in Nat \ {0}

VARIABLES
    served, offered,    \* the serving version; the staged one, 0 for none
    evidence,           \* the records under EVIDENCE_DIR, oldest write first
    attempt,            \* the attempt in memory
    attempts,           \* how many attempts there were: their identities
    snapshots,          \* the attempts whose snapshot file exists
    settling,           \* settle_success: the record order it read
    boot                \* where the startup stands
updateVars == <<served, offered, evidence, attempt, attempts, snapshots, settling, boot>>

NoAttemptYet == [id |-> 0, base |-> 0, terminal |-> "InProgress", phase |-> "None",
                 failure |-> "None", snapped |-> FALSE, resolved |-> FALSE]

UpdateInit ==
    /\ served = 1 /\ offered = 0 /\ evidence = << >> /\ attempt = NoAttemptYet
    /\ attempts = 0 /\ snapshots = {} /\ settling = << >> /\ boot = "idle"

----------------------------------------------------------------------------
\* EvidenceStore.

RecordSettled(r) == r.resolved \/ r.terminal = "Success"
NewestOf(S) == IF S = {} THEN 0 ELSE CHOOSE p \in S : \A q \in S : q <= p
NewestSuccess(s) == NewestOf({p \in DOMAIN s : s[p].terminal = "Success"})
NewestCarriers(s) ==
    {NewestOf({p \in DOMAIN s : s[p].failure = f}) :
        f \in {s[p].failure : p \in DOMAIN s} \ {"None"}}

\* Mutant: the newest record of a cause is pruned like any other.
PrunableCause(s, kept, p) == p # NewestSuccess(s) /\ s[p].id \notin kept /\ RecordSettled(s[p])

\* Mutant: a record that is not resolved is pruned too.
PrunableOpen(s, kept, p) ==
    p # NewestSuccess(s) /\ s[p].id \notin kept /\ p \notin NewestCarriers(s)

\* prune_stored: what the walk may remove.
Prunable(s, kept, p) ==
    /\ p # NewestSuccess(s) /\ s[p].id \notin kept /\ p \notin NewestCarriers(s)
    /\ RecordSettled(s[p])

\* prune_stored: from the oldest, until `count` are left; the walk stops when it
\* has passed EVIDENCE_MAX_RECORDS records it must keep.
PruneStored(s, count, kept) ==
    LET open(p) == {q \in 1..(p - 1) : ~ RecordSettled(s[q])}
        gone == {p \in DOMAIN s :
                   /\ Prunable(s, kept, p) /\ Cardinality(open(p)) < EVIDENCE_MAX_RECORDS
                   /\ Cardinality({q \in 1..(p - 1) : Prunable(s, kept, q)}) < Len(s) - count}
    IN  {s[p].id : p \in gone}

Without(s, ids) == SelectSeq(s, LAMBDA r : r.id \notin ids)
Holds(s, id) == \E p \in DOMAIN s : s[p].id = id

\* continues_unresolved: the base of the newest record that is not settled.
ContinuesUnresolved(s, base) ==
    LET open == {p \in DOMAIN s : ~ RecordSettled(s[p])}
    IN  open # {} /\ s[NewestOf(open)].base = base

\* Mutant: a saturated store admits every attempt.
AdmitsAny(s, r) == TRUE

\* write, its saturation: a new attempt of another base is refused.
Admits(s, r) ==
    Holds(s, r.id) \/ Len(s) < EVIDENCE_MAX_RECORDS \/ ContinuesUnresolved(s, r.base)

PrunedEvidence(s, r) ==
    Without(s, PruneStored(s, IF Holds(s, r.id) THEN EVIDENCE_MAX_RECORDS
                              ELSE EVIDENCE_MAX_RECORDS - 1, {}))

\* write: prune, then replace the record durably; it is the newest then.
Write(r) ==
    /\ Admits(PrunedEvidence(evidence, r), r)
    /\ evidence' = Append(Without(PrunedEvidence(evidence, r), {r.id}), r)
    /\ attempt' = r

\* note_failure: the first cause is kept.
Noted(r, cause) == IF r.failure = "None" THEN [r EXCEPT !.failure = cause] ELSE r

\* projection: the phase of the newest record that is not resolved, unless a
\* success is newer.
ProjectedPhase(s) ==
    LET window == {p \in DOMAIN s : p > Len(s) - PROJECTION_MAX_RECORDS}
        last == NewestOf({p \in window : s[p].terminal = "Success" \/ ~ s[p].resolved})
    IN  IF last = 0 \/ s[last].terminal = "Success" THEN "None" ELSE s[last].phase

----------------------------------------------------------------------------
\* The startup.

Keep(vs) == UNCHANGED vs
LedgerKept == UNCHANGED <<served, offered>>

\* stage_base, before this startup.
StageNext ==
    /\ boot \in {"idle", "done"} /\ offered = 0 /\ served < MaxBase
    /\ offered' = served + 1
    /\ UNCHANGED <<served, evidence, attempt, attempts, snapshots, settling, boot>>

\* publish_generation for version b: the PublishGeneration of the bases.
Publishes(b) ==
    /\ b \in {served, served + 1}
    /\ served' = b /\ offered' = IF b = served THEN offered ELSE 0

\* publish_startup without a cutover pending.
PublishPlain(b) ==
    /\ boot \in {"idle", "done"} /\ offered = 0 /\ Publishes(b) /\ boot' = "done"
    /\ attempt' = NoAttemptYet
    /\ UNCHANGED <<evidence, attempts, snapshots, settling>>

\* publish_startup: a fresh attempt, its record reserved before the snapshot.
BeginAttempt(b) ==
    /\ boot \in {"idle", "done"} /\ offered # 0 /\ attempts < MaxAttempts
    /\ b \in {served, served + 1} /\ attempts' = attempts + 1
    /\ Write([NoAttemptYet EXCEPT !.id = attempts', !.base = b])
    /\ boot' = "snapshot" /\ LedgerKept /\ Keep(<<snapshots, settling>>)

\* snapshot refused: the attempt ends Rejected and startup fails.
SnapshotFails ==
    /\ boot = "snapshot"
    /\ Write([Noted(attempt, "checkpoint") EXCEPT !.terminal = "Rejected"])
    /\ boot' = "idle" /\ LedgerKept /\ Keep(<<attempts, snapshots, settling>>)

\* Mutant: the record names the snapshot before it is taken.
SnapshotRecordsFirst ==
    /\ boot = "snapshot" /\ UNCHANGED snapshots
    /\ Write([attempt EXCEPT !.snapped = TRUE])
    /\ boot' = "validate" /\ LedgerKept /\ Keep(<<attempts, settling>>)

\* snapshot, then activate's first records: BaseStage and Semantic pending.
Snapshot ==
    /\ boot = "snapshot" /\ snapshots' = snapshots \cup {attempt.id}
    /\ Write([attempt EXCEPT !.snapped = TRUE])
    /\ boot' = "validate" /\ LedgerKept /\ Keep(<<attempts, settling>>)

\* activate, validate refused: the staged base is abandoned, then recorded.
RollBack ==
    /\ boot = "validate" /\ offered' = 0
    /\ attempt' = [Noted(attempt, "semantic") EXCEPT !.terminal = "Rejected",
                                                     !.phase = "RolledBack"]
    /\ boot' = "rolledback"
    /\ UNCHANGED <<served, evidence, attempts, snapshots, settling>>

\* settle of a rollback, and the record that cleanup is pending.
SettleRollback ==
    /\ boot = "rolledback" /\ Write(attempt)
    /\ boot' = "cleanup" /\ LedgerKept /\ Keep(<<attempts, snapshots, settling>>)

\* activate, validate accepted: Checked is recorded before the publication.
Checked ==
    /\ boot = "validate" /\ Write([attempt EXCEPT !.phase = "Checked"])
    /\ boot' = "publish" /\ LedgerKept /\ Keep(<<attempts, snapshots, settling>>)

PublishFails ==
    /\ boot = "publish" /\ Write(Noted(attempt, "activate"))
    /\ boot' = "idle" /\ LedgerKept /\ Keep(<<attempts, snapshots, settling>>)

\* Mutant: the success is recorded before the publication.
PublishRecordsFirst ==
    /\ boot = "publish" /\ Write([attempt EXCEPT !.terminal = "Success", !.phase = "Activated"])
    /\ boot' = "recorded" /\ LedgerKept /\ Keep(<<attempts, snapshots, settling>>)

PublishOffered ==
    /\ boot = "publish" /\ Publishes(attempt.base) /\ boot' = "published"
    /\ UNCHANGED <<evidence, attempt, attempts, snapshots, settling>>

\* activate after the publication: the outcome, and a receipt that may not read.
RecordSuccess ==
    /\ boot = "published"
    /\ \E r \in {attempt, Noted(attempt, "receipt")} :
         Write([r EXCEPT !.terminal = "Success", !.phase = "Activated"])
    /\ boot' = "cleanup" /\ LedgerKept /\ Keep(<<attempts, snapshots, settling>>)

\* discard_checkpoint refused: the attempt ends CleanupFailure.
CleanupFails ==
    /\ boot = "cleanup" /\ attempt.snapped
    /\ Write([Noted(attempt, "cleanup") EXCEPT !.terminal = "CleanupFailure"])
    /\ boot' = "idle" /\ LedgerKept /\ Keep(<<attempts, snapshots, settling>>)

\* discard_checkpoint and the last record; a rollback ends the startup here.
Cleanup ==
    /\ boot = "cleanup" /\ snapshots' = snapshots \ {attempt.id} /\ Write(attempt)
    /\ IF attempt.terminal = "Success"
       THEN boot' = "settle" /\ settling' = evidence'
       ELSE boot' = "idle" /\ settling' = << >>
    /\ LedgerKept /\ Keep(<<attempts>>)

\* Mutant: an attempt that never ended is not resolved by a success.
UnresolvedEnded(s) ==
    {p \in 1..(NewestSuccess(s) - 1) : ~ s[p].resolved /\ s[p].terminal # "InProgress"}

\* settle_success: the records before the newest success still to resolve.
UnresolvedBefore(s) == {p \in 1..(NewestSuccess(s) - 1) : ~ s[p].resolved}
StillOpen(id) == \E p \in DOMAIN evidence : evidence[p].id = id /\ ~ evidence[p].resolved

\* settle_success, one durable_replace: the record is rewritten, so it is newest.
ResolveOne ==
    /\ boot = "settle"
    /\ \E p \in UnresolvedBefore(settling) :
         /\ StillOpen(settling[p].id)
         /\ \A q \in UnresolvedBefore(settling) : q < p => ~ StillOpen(settling[q].id)
         /\ evidence' = Append(Without(evidence, {settling[p].id}),
                               [settling[p] EXCEPT !.resolved = TRUE])
    /\ LedgerKept /\ Keep(<<attempt, attempts, snapshots, settling, boot>>)

\* settle_success, its prune: over the order it read, without what it resolved.
SettlePrune ==
    /\ boot = "settle" /\ \A p \in UnresolvedBefore(settling) : ~ StillOpen(settling[p].id)
    /\ evidence' = Without(evidence,
          PruneStored(settling, EVIDENCE_MAX_RECORDS, {settling[p].id : p \in UnresolvedBefore(settling)}))
    /\ boot' = "done" /\ settling' = << >>
    /\ LedgerKept /\ Keep(<<attempt, attempts, snapshots>>)

\* The process dies or a write fails: the record stands as it was last written.
Crash ==
    /\ boot \notin {"idle", "done"} /\ boot' = "idle" /\ settling' = << >>
    /\ attempt' = NoAttemptYet
    /\ UNCHANGED <<served, offered, evidence, attempts, snapshots>>

UpdateNext ==
    \/ StageNext \/ \E b \in 1..MaxBase : PublishPlain(b) \/ BeginAttempt(b)
    \/ SnapshotFails \/ Snapshot \/ RollBack \/ SettleRollback \/ Checked
    \/ PublishFails \/ PublishOffered \/ RecordSuccess \/ CleanupFails \/ Cleanup
    \/ ResolveOne \/ SettlePrune \/ Crash

----------------------------------------------------------------------------
\* A record that says Success names a base the store has really served: the
\* outcome is never recorded ahead of the publication, at any crash point.
SuccessWasServed ==
    \A p \in DOMAIN evidence : evidence[p].terminal = "Success" => evidence[p].base <= served

\* The snapshot of an attempt is there as long as the durable record does not say
\* how the attempt ended.
SnapshotOutlivesOutcome ==
    \A p \in DOMAIN evidence :
        evidence[p].snapped /\ evidence[p].terminal = "InProgress"
            => evidence[p].id \in snapshots

\* No write and no prune drops the record of an attempt that is not settled.
UnresolvedKept ==
    [][\A p \in DOMAIN evidence : ~ RecordSettled(evidence[p]) => Holds(evidence', evidence[p].id)]_updateVars

\* A cause that was ever recorded stays on record: pruning keeps a carrier of each.
CausesKept ==
    [][\A p \in DOMAIN evidence : evidence[p].failure # "None" =>
          \E q \in DOMAIN evidence' : evidence'[q].failure = evidence[p].failure]_updateVars

\* Past the count bound the directory grows only by an attempt that continues
\* the base of the newest unresolved record.
GrowthIsContinuation ==
    [][Len(evidence') > EVIDENCE_MAX_RECORDS /\ Len(evidence') > Len(evidence)
         => ContinuesUnresolved(evidence, evidence'[Len(evidence')].base)]_updateVars

\* When an activation has settled, no older attempt is open and the projected
\* phase is the ledger's own, although resolving has reordered the records.
SuccessSettles ==
    boot = "done" /\ attempt.terminal = "Success" /\ Holds(evidence, attempt.id) =>
        /\ \A p \in DOMAIN evidence : RecordSettled(evidence[p])
        /\ ProjectedPhase(evidence) = "None"

\* The ledger of bases as a whole: a pager reads one blocker set, a rule's move makes no
\* conflict, rules go with their document, and the serving version only advances.
BaseMovesWhole ==
    [](PagesAreOneSet /\ NoConflictByMove /\ RulesHaveTheirBase) /\ ServingAdvances

\* The startup records as a whole: success was served and settles what was open, the
\* snapshot lasts until the outcome is on record, no open record and no cause is ever
\* lost, and past its bound the directory grows by continuations only.
UpdateIsHonest ==
    /\ [](SuccessWasServed /\ SnapshotOutlivesOutcome /\ SuccessSettles)
    /\ UnresolvedKept /\ CausesKept /\ GrowthIsContinuation
=============================================================================
