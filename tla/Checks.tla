------------------------------- MODULE Checks -------------------------------
(***************************************************************************)
(* One confined check: execute_check of src/src/executor.rs, from its      *)
(* admission to the siteRows that close it, and reconcile_unrecovered_checks   *)
(* of src/src/commands.rs at the next start.  The check copies the live    *)
(* workspace file by file, stages the dependencies of its lockfile, runs   *)
(* cargo vendor and then the test on the sealed copy, and retains its      *)
(* siteRows one by one.  Meanwhile the workspace is edited, grants are         *)
(* revoked, the selection and the owner's configuration move, the task is  *)
(* cancelled, the deadline passes, a row can not be written, or the        *)
(* process dies.                                                           *)
(***************************************************************************)
EXTENDS Integers, Sequences, FiniteSets

CONSTANTS
    SourceFile,       \* the files of the workspace
    MaxEdits    \* bound: how often a file is edited

Site == {"pre.effect", "attempt.root", "seam", "close.selection", "close.inventory",
         "close.result", "cleanup.root", "close.unrecovered"}

VARIABLES
    live,       \* the workspace: the version of each file
    snapshot,   \* the copy: the version of each file, -1 when it is not there
    world,      \* what has happened: "cancel", "late", "revoked", "selection", "owner", "task"
    check,      \* [at, native, deps, todo]: where the check is
    siteRows,       \* the retained siteRows: "none", "ok" or "failed"
    ledger,     \* the attempt: "planned", "running", "rejected"
    root,       \* the attempt root: "none", "made" (not recorded), "held", "debris"
    tested      \* the tree the test ran on
checkVars == <<live, snapshot, world, check, siteRows, ledger, root, tested>>

Candidate == [f \in SourceFile |-> 0]
Nothing == [f \in SourceFile |-> -1]

ChecksInit ==
    /\ live = Candidate /\ snapshot = Nothing /\ world = {} /\ tested = Nothing
    /\ \E native, deps \in BOOLEAN :
         check = [at |-> "admitted", native |-> native, deps |-> deps, todo |-> SourceFile]
    /\ siteRows = [s \in Site |-> "none"] /\ ledger = "planned" /\ root = "none"

Go(at) == check' = [check EXCEPT !.at = at]

\* verify_check_admission: grants, modes, and for a Native check its selection.
Admitted == "revoked" \notin world /\ (check.native => "selection" \notin world)
\* Mutant: the grants are not asked again before a phase.
ReconsultedOwner == "owner" \notin world
\* reconsult_phase_grants: the admission, the owner context and the dependency pair.
Reconsulted == Admitted /\ "owner" \notin world
\* phase_deadline_check and the cancel flag.
Unstopped == world \cap {"cancel", "late"} = {}

\* retain_attempt: a row that exists must be the same row; the store may fail.
Retains(r, site, value) == r[site] \in {"none", value}

----------------------------------------------------------------------------
\* execute_check up to the claim: a refusal keeps the attempt planned.
RefusePreClaim ==
    /\ check.at = "admitted" /\ Go("refused")
    /\ UNCHANGED <<live, snapshot, world, siteRows, ledger, root, tested>>

Claim ==
    /\ check.at = "admitted" /\ Reconsulted /\ Unstopped
    /\ Go("claimed") /\ ledger' = "running"
    /\ UNCHANGED <<live, snapshot, world, siteRows, root, tested>>

\* create_recorded_attempt_root: the directory is created, then recorded.
MakeRoot ==
    /\ check.at = "claimed" /\ "task" \notin world /\ Admitted /\ "cancel" \notin world
    /\ Go("root") /\ root' = "made"
    /\ UNCHANGED <<live, snapshot, world, siteRows, ledger, tested>>
RecordRoot ==
    /\ check.at = "root" /\ Go("inventory") /\ root' = "held"
    /\ siteRows' = [siteRows EXCEPT !["attempt.root"] = "ok"]
    /\ UNCHANGED <<live, snapshot, world, ledger, tested>>

\* inventory_under: the live workspace is the recorded candidate, and nothing
\* of it is denied.
Inventory ==
    /\ check.at = "inventory" /\ live = Candidate /\ "revoked" \notin world /\ Go("copy")
    /\ UNCHANGED <<live, snapshot, world, siteRows, ledger, root, tested>>

\* copy_inventory: the bytes read are the bytes inventoried.
CopiedAsInventoried(f) == live[f] = Candidate[f]

CopyFile(f) ==
    /\ check.at = "copy" /\ f \in check.todo /\ CopiedAsInventoried(f)
    /\ snapshot' = [snapshot EXCEPT ![f] = live[f]]
    /\ check' = [check EXCEPT !.todo = @ \ {f}]
    /\ UNCHANGED <<live, world, siteRows, ledger, root, tested>>

\* The copy is complete and its inventory is the candidate's; with
\* dependencies the pair is verified; the row that precedes the first cache byte and the first spawn is retained.
PreEffect ==
    /\ check.at = "copy" /\ check.todo = {} /\ snapshot = Candidate
    /\ (check.deps => "revoked" \notin world)
    /\ siteRows' = [siteRows EXCEPT !["pre.effect"] = "ok"] /\ Go(IF check.deps THEN "stage" ELSE "controls")
    /\ UNCHANGED <<live, snapshot, world, ledger, root, tested>>

\* stage_dependencies: before each leaf the cancel flag, the pair, the lineage
\* of the registry and the denies.
Stage ==
    /\ check.at = "stage" /\ "cancel" \notin world /\ "revoked" \notin world /\ Go("controls")
    /\ UNCHANGED <<live, snapshot, world, siteRows, ledger, root, tested>>

\* run_check_controls, then the gates of the vendor phase.
Vendor ==
    /\ check.at = "controls" /\ Reconsulted /\ Unstopped /\ Go("vendor")
    /\ UNCHANGED <<live, snapshot, world, siteRows, ledger, root, tested>>

\* cargo vendor runs confined; what it does to the copy is seen afterwards.
VendorTouches(f) ==
    /\ check.at = "vendor" /\ snapshot[f] = 0 /\ snapshot' = [snapshot EXCEPT ![f] = 9]
    /\ UNCHANGED <<live, world, check, siteRows, ledger, root, tested>>

\* Mutant: only the lockfile is compared after the vendor phase.
SealedLock == TRUE
\* The inventory of the copy after the vendor phase is the one before it.
SealedUnchanged == snapshot = Candidate

\* The vendor phase succeeds, the copy is validated, the vendored tree is
\* promoted and everything is sealed; then the gates of the test phase.
Test ==
    /\ check.at = "vendor" /\ SealedUnchanged /\ Reconsulted /\ Unstopped
    /\ Go("test") /\ tested' = snapshot
    /\ UNCHANGED <<live, snapshot, world, siteRows, ledger, root>>

\* The test ends, whatever its exit status; the owner context again; close_check_rows.
CloseSelection ==
    /\ check.at = "test" /\ "owner" \notin world
    /\ IF check.native
       THEN "selection" \notin world /\ siteRows' = [siteRows EXCEPT !["close.selection"] = "ok"]
       ELSE UNCHANGED siteRows
    /\ Go("closing") /\ UNCHANGED <<live, snapshot, world, ledger, root, tested>>
CloseInventory ==
    /\ check.at = "closing" /\ siteRows' = [siteRows EXCEPT !["close.inventory"] = "ok"] /\ Go("result")
    /\ UNCHANGED <<live, snapshot, world, ledger, root, tested>>
\* The root is the closed check's own now; its debris is resolved at a start.
CloseResult ==
    /\ check.at = "result" /\ siteRows' = [siteRows EXCEPT !["close.result"] = "ok"] /\ Go("closed")
    /\ root' = "debris"
    /\ UNCHANGED <<live, snapshot, world, ledger, tested>>
ObservePhase ==
    /\ check.at = "closed" /\ Go("done")
    /\ UNCHANGED <<live, snapshot, world, siteRows, ledger, root, tested>>

\* The site of a failure: close.selection for a cancelled task and for an
\* owner or a selection that moved before the close.
FailureSite == IF check.at \in {"claimed", "test"} THEN {"seam", "close.selection"} ELSE {"seam"}

\* Any step after the claim may fail, for its guards or for an I/O error:
\* settle_check_failure retains the failing site's row, or can not.
Fail ==
    /\ check.at \in {"claimed", "root", "inventory", "copy", "stage", "controls", "vendor",
                     "test", "closing", "result", "closed"}
    /\ \/ \E site \in FailureSite :
            /\ Retains(siteRows, site, "failed")
            /\ siteRows' = [siteRows EXCEPT ![site] = "failed"] /\ Go("failing")
       \/ UNCHANGED siteRows /\ Go("done")
    /\ UNCHANGED <<live, snapshot, world, ledger, root, tested>>

\* remove_recorded_attempt_root: a recorded root is only ever found absent, or left
\* where it is.
RootRemoval == {"absent", "refused"}

\* Then the ledger; then the root.
Reject ==
    /\ check.at = "failing"
    /\ ledger' \in {"rejected", ledger} /\ Go("done")
    /\ \E removal \in RootRemoval :
         IF root = "held" /\ ledger' = "rejected" /\ removal = "absent"
         THEN root' = "none" /\ siteRows' = [siteRows EXCEPT !["cleanup.root"] = "ok"]
         ELSE root' = (IF root = "held" THEN "debris" ELSE root) /\ UNCHANGED siteRows
    /\ UNCHANGED <<live, snapshot, world, tested>>

----------------------------------------------------------------------------
\* The world.
Happens(event) ==
    /\ event \notin world /\ world' = world \cup {event}
    /\ UNCHANGED <<live, snapshot, check, siteRows, ledger, root, tested>>
Edit(f) ==
    /\ live[f] < MaxEdits /\ live' = [live EXCEPT ![f] = @ + 1]
    /\ UNCHANGED <<snapshot, world, check, siteRows, ledger, root, tested>>

CheckDies ==
    /\ check.at \notin {"down", "boot", "booted"} /\ Go("down")
    /\ UNCHANGED <<live, snapshot, world, siteRows, ledger, root, tested>>

\* Mutant: a failure that its own site recorded is not taken for a disposition.
FinalisedBySeam == siteRows["seam"] = "failed"
\* has_finalised_provider_failure: a terminal row that is not a successful close.
Finalised == \E s \in {"seam", "close.selection"} : siteRows[s] = "failed"
\* attempt_is_settled.
SettledCheck == siteRows["close.unrecovered"] = "ok" \/ Finalised

\* reconcile_unrecovered_checks: a claimed check without a disposition gets
\* the row that says so; the start fails when the row can not be written.
Reconcile ==
    /\ check.at = "down"
    /\ IF ledger = "planned" \/ SettledCheck THEN UNCHANGED siteRows
       ELSE siteRows' = [siteRows EXCEPT !["close.unrecovered"] = "ok"]
    /\ Go("boot") /\ UNCHANGED <<live, snapshot, world, ledger, root, tested>>

\* resume_attempt_root_cleanup: a recorded root that is gone is retired.
ResumeCleanup ==
    /\ check.at = "boot" /\ Go("booted")
    /\ \E removal \in RootRemoval :
         IF siteRows["attempt.root"] = "ok" /\ siteRows["cleanup.root"] = "none" /\ removal = "absent"
         THEN siteRows' = [siteRows EXCEPT !["cleanup.root"] = "ok"] /\ root' = "none"
         ELSE UNCHANGED <<siteRows, root>>
    /\ UNCHANGED <<live, snapshot, world, ledger, tested>>

ChecksNext ==
    \/ RefusePreClaim \/ Claim \/ MakeRoot \/ RecordRoot \/ Inventory
    \/ \E f \in SourceFile : CopyFile(f) \/ VendorTouches(f) \/ Edit(f)
    \/ PreEffect \/ Stage \/ Vendor \/ Test
    \/ CloseSelection \/ CloseInventory \/ CloseResult \/ ObservePhase \/ Fail \/ Reject
    \/ \E event \in {"cancel", "late", "revoked", "selection", "owner", "task"} : Happens(event)
    \/ CheckDies \/ Reconcile \/ ResumeCleanup

ChecksSpec == ChecksInit /\ [][ChecksNext]_checkVars

----------------------------------------------------------------------------
\* Whatever is edited while the files are copied and whatever the vendor phase
\* does to the copy, the test runs on the candidate and on nothing else.
TestedIsCandidate == tested \in {Nothing, Candidate}

\* No phase starts on rights that went while an earlier one ran: at the start
\* of the vendor and of the test phase the grants, the selection of a Native
\* check and the owner's configuration are the admitted ones.
PhasesReconsult ==
    [][check'.at \in {"vendor", "test"} /\ check.at # check'.at
       => "revoked" \notin world /\ "owner" \notin world
          /\ (check.native => "selection" \notin world)]_checkVars

\* A check has one disposition: the next start adds "unrecovered" only to a
\* claimed check that recorded no failure, and after it every claimed check
\* has a disposition.
OneDisposition ==
    /\ siteRows["close.unrecovered"] = "ok"
       => siteRows["seam"] # "failed" /\ siteRows["close.selection"] # "failed"
    /\ check.at \in {"boot", "booted"} /\ ledger # "planned" => SettledCheck

-----------------------------------------------------------------------------
(***************************************************************************)
(* Staging the registry dependencies of an isolated check: the lockfile is *)
(* parsed, the cargo home is anchored once by descriptors, and each leaf   *)
(* (the index descriptor, then per dependency its archive and its index    *)
(* entry) is rechecked, opened under the pinned parents, read through the  *)
(* opened descriptor and written to the private cargo home, while the host *)
(* goes on renaming directories, linking, growing and rewriting files, and *)
(* the owner may cancel.                                                   *)
(*                                                                         *)
(* A crate name with its version is a number, so the order of the sorted   *)
(* lock is theirs; a file's content is the digest of its bytes.  The grant *)
(* pair the recheck consults cannot change while the staging borrows the   *)
(* policy: Checks models it.                                               *)
(***************************************************************************)

CONSTANTS LockRow,        \* the [key, source, formed, checksum] rows a lockfile may hold
          MaxLockRows,        \* bound: rows of the lockfile
          Digest,         \* contents of a file
          Garbage,        \* those of them that do not look like an index entry
          LEAF_MAX,       \* bound on one leaf's bytes
          STAGED_MAX,     \* bound on the archives of one attempt
          FirstFiles,     \* what a leaf may be when the run starts
          MaxHostSteps       \* bound: steps the host takes meanwhile

CacheFile == [digest : Digest, size : Nat, links : Nat, denied : BOOLEAN]

ASSUME DependenciesAssumption ==
    /\ MaxLockRows \in Nat /\ LEAF_MAX \in Nat /\ STAGED_MAX \in Nat
    /\ FirstFiles \subseteq CacheFile /\ Digest # {}
    /\ \A row \in LockRow : row.key \in Int

VARIABLES lock,     \* the rows of the lockfile
          deps,     \* the dependencies still to stage, in order
          cacheFiles,     \* [leaf -> file]: what the pinned directories hold
          away,     \* lineage components whose name does not lead to the (pinned) directory
          cancelled,
          staging,  \* the staging thread
          copies,   \* what the private cargo home received
          hostSteps

dependencyVars == <<lock, deps, cacheFiles, away, cancelled, staging, copies, hostSteps>>

Keys == {row.key : row \in LockRow}

Leaf == {<<"config", 0>>} \cup ({"archive", "entry"} \X Keys)

\* The components below the filesystem root, in the order a recheck re-opens them.
Lineage == <<"cargo_home", "registry", "cache", "cache dir", "index", "index dir">>

\* The rows with a source; the others name packages of the workspace.
Registry(rows) == {i \in DOMAIN rows : rows[i].source # "path"}

\* A foreign source, a missing field or a name outside the crate charset refuses the lock.
LockRefused(rows) == \E i \in Registry(rows) : rows[i].source # "registry" \/ ~rows[i].formed

\* The sort is stable and dedup keeps the first row of a name and version.
FirstRow(rows, key) ==
    CHOOSE i \in Registry(rows) :
        rows[i].key = key /\ \A j \in Registry(rows) : rows[j].key = key => i <= j

lock_registry_dependencies(rows) ==
    LET keys == {rows[i].key : i \in Registry(rows)} IN
    [n \in 1..Cardinality(keys) |->
        rows[FirstRow(rows, CHOOSE k \in keys : Cardinality({l \in keys : l < k}) = n - 1)]]

\* before: lineage components away ever since the recheck of this leaf began;
\* stopped: a cancellation came before it.
Unstaged ==
    [at |-> "anchor", leaf |-> <<"config", 0>>, walked |-> 0, got |-> CHOOSE d \in Digest : TRUE,
     read |-> 0, before |-> {}, stopped |-> FALSE, total |-> 0]

DependenciesInit ==
    /\ lock \in UNION {[1..n -> LockRow] : n \in 0..MaxLockRows}
    /\ deps = <<>>
    /\ \E file \in FirstFiles, denied \in {{}} \cup {{leaf} : leaf \in Leaf} :
           cacheFiles = [leaf \in Leaf |-> [file EXCEPT !.denied = leaf \in denied]]
    /\ away \in {{}} \cup {{Lineage[i]} : i \in DOMAIN Lineage}
    /\ cancelled = FALSE /\ copies = {} /\ hostSteps = 0
    /\ staging = Unstaged

\* A single name opened under its parent without following a link, and the inode it names.
openat_directory(component) == component \notin away

At(step) == staging.at = step

RefuseLeaf == staging' = [staging EXCEPT !.at = "refused"]

\* The lock is read, the six directories are opened once and pinned; nothing is staged
\* for a lock without registry rows.
anchor_dependencies ==
    /\ At("anchor")
    /\ IF LockRefused(lock) \/ \E i \in DOMAIN Lineage : ~openat_directory(Lineage[i])
       THEN RefuseLeaf /\ UNCHANGED deps
       ELSE LET found == lock_registry_dependencies(lock) IN
            /\ deps' = found
            /\ staging' = [staging EXCEPT !.at = IF found = <<>> THEN "done" ELSE "leaf"]
    /\ UNCHANGED <<lock, cacheFiles, away, cancelled, copies, hostSteps>>

\* A leaf whose own recheck re-walks the lineage: every one of them.
RechecksArchives(leaf) == leaf[1] # "entry"
Rechecks(leaf) == TRUE

\* Before a leaf: the deny policy on its path, and the cancellation flag.
StartLeaf ==
    /\ At("leaf")
    /\ staging' = [staging EXCEPT
           !.at = IF cacheFiles[staging.leaf].denied THEN "refused"
                  ELSE IF ~Rechecks(staging.leaf) THEN "open"
                  ELSE IF cancelled THEN "refused" ELSE "walk",
           !.walked = 0, !.before = away, !.stopped = cancelled]
    /\ UNCHANGED <<lock, deps, cacheFiles, away, cancelled, copies, hostSteps>>

\* One component of verify_lineage: re-opened without following a link, compared by inode.
verify_lineage ==
    /\ At("walk")
    /\ LET component == Lineage[staging.walked + 1] IN
       IF ~openat_directory(component)
       THEN RefuseLeaf
       ELSE staging' = [staging EXCEPT !.walked = @ + 1,
                            !.at = IF staging.walked + 1 = Len(Lineage) THEN "open" ELSE "walk"]
    /\ UNCHANGED <<lock, deps, cacheFiles, away, cancelled, copies, hostSteps>>

\* A regular file with one link, within the bound, under the pinned parent.
openat_leaf ==
    /\ At("open")
    /\ LET file == cacheFiles[staging.leaf] IN
       staging' = [staging EXCEPT
           !.at = IF file.links = 1 /\ file.size <= LEAF_MAX THEN "check" ELSE "refused"]
    /\ UNCHANGED <<lock, deps, cacheFiles, away, cancelled, copies, hostSteps>>

\* The descriptor's identity and size once more, right before the first byte.
RecheckLeaf ==
    /\ At("check")
    /\ LET file == cacheFiles[staging.leaf] IN
       staging' = [staging EXCEPT
           !.at = IF file.links = 1 /\ file.size <= LEAF_MAX THEN "read" ELSE "refused"]
    /\ UNCHANGED <<lock, deps, cacheFiles, away, cancelled, copies, hostSteps>>

\* The bytes one read takes: one more than the bound at most.
TakenWhole(size) == size
Taken(size) == IF size > LEAF_MAX + 1 THEN LEAF_MAX + 1 ELSE size

read_leaf ==
    /\ At("read")
    /\ LET file == cacheFiles[staging.leaf] IN
       staging' = [staging EXCEPT !.read = Taken(file.size), !.got = file.digest,
                       !.at = IF Taken(file.size) > LEAF_MAX THEN "refused" ELSE "write"]
    /\ UNCHANGED <<lock, deps, cacheFiles, away, cancelled, copies, hostSteps>>

\* What is written is what was read and hashed.
WrittenDigestCopied == cacheFiles[staging.leaf].digest
WrittenDigest == staging.got

\* The leaf after this one: an archive's index entry, then the next dependency.
NextLeaf ==
    CASE staging.leaf[1] = "config"  -> <<"archive", Head(deps).key>>
      [] staging.leaf[1] = "archive" -> <<"entry", Head(deps).key>>
      [] OTHER -> IF Len(deps) > 1 THEN <<"archive", deps[2].key>> ELSE staging.leaf

\* The archive reproduces its lock checksum and the entry looks like one, or it refuses;
\* the attempt's byte bound is read after the archive's write.
StageLeaf ==
    /\ At("write")
    /\ LET archive == staging.leaf[1] = "archive"
           total   == staging.total + (IF archive THEN staging.read ELSE 0) IN
       IF \/ archive /\ staging.got # Head(deps).checksum
          \/ staging.leaf[1] = "entry" /\ staging.got \in Garbage
       THEN RefuseLeaf /\ UNCHANGED <<deps, copies>>
       ELSE /\ copies' = copies \cup
                 {[leaf |-> staging.leaf, digest |-> WrittenDigest, bytes |-> staging.read,
                   before |-> staging.before, stopped |-> staging.stopped]}
            /\ deps' = IF staging.leaf[1] = "entry" THEN Tail(deps) ELSE deps
            /\ staging' = [staging EXCEPT !.total = total, !.leaf = NextLeaf,
                   !.at = IF total > STAGED_MAX THEN "refused"
                          ELSE IF deps' = <<>> THEN "done" ELSE "leaf"]
    /\ UNCHANGED <<lock, cacheFiles, away, cancelled, hostSteps>>

\* A step of the host or the owner, taken where the next step of the staging can tell: one
\* taken earlier commutes with the staging's steps up to there.
Fault(steps) == hostSteps < MaxHostSteps /\ staging.at \in steps /\ hostSteps' = hostSteps + 1

\* The host renames a component away, or puts the pinned directory back.
Move(component) ==
    /\ Fault({"leaf", "walk"})
    /\ IF component \in away
       THEN /\ away' = away \ {component}
            /\ staging' = [staging EXCEPT !.before = @ \ {component}]
       ELSE away' = away \cup {component} /\ UNCHANGED staging
    /\ UNCHANGED <<lock, deps, cacheFiles, cancelled, copies>>

\* The host rewrites, grows, hardlinks or replaces the file at hand.
Touch(file) ==
    /\ Fault({"open", "check", "read", "write"})
    /\ cacheFiles[staging.leaf] # file
    /\ cacheFiles' = [cacheFiles EXCEPT ![staging.leaf] = file]
    /\ UNCHANGED <<lock, deps, away, cancelled, staging, copies>>

\* The owner cancels the check from another thread.
CancelCheck ==
    /\ Fault({"leaf"})
    /\ ~cancelled
    /\ cancelled' = TRUE
    /\ UNCHANGED <<lock, deps, cacheFiles, away, staging, copies>>

Touched(file) ==
    {[file EXCEPT !.size = LEAF_MAX + n] : n \in 0..2} \cup
    {[file EXCEPT !.links = n] : n \in {0, 2}} \cup {[file EXCEPT !.digest = d] : d \in Digest}

DependenciesNext ==
    \/ anchor_dependencies \/ StartLeaf \/ verify_lineage
    \/ openat_leaf \/ RecheckLeaf \/ read_leaf \/ StageLeaf
    \/ CancelCheck
    \/ \E i \in DOMAIN Lineage : Move(Lineage[i])
    \/ \E file \in Touched(cacheFiles[staging.leaf]) : Touch(file)

DependenciesSpec == DependenciesInit /\ [][DependenciesNext]_dependencyVars

-----------------------------------------------------------------------------

(* executor.rs stage_one_archive: an archive the private cargo home        *)
(* received reproduces the checksum of a lock row with its name and        *)
(* version, however the file is rewritten between open, hash and copy.     *)
StagedIsLocked ==
    \A copy \in copies : copy.leaf[1] = "archive" =>
        \E i \in Registry(lock) : lock[i].key = copy.leaf[2] /\ lock[i].checksum = copy.digest

(* executor.rs verify_lineage, recheck_index_read: no byte is staged from  *)
(* a tree that had left its place before that very leaf's recheck, nor     *)
(* after a cancellation that came before it.                               *)
StagedInPlace == \A copy \in copies : copy.before = {} /\ ~copy.stopped

(* executor.rs read_leaf: no read takes more than one byte past the bound  *)
(* and no copy is past it, although files grow after their size was        *)
(* checked; a finished staging holds every leaf of every dependency within *)
(* the attempt's bound.                                                    *)
ReadsBounded ==
    /\ staging.read <= LEAF_MAX + 1
    /\ \A copy \in copies : copy.bytes <= LEAF_MAX
    /\ At("done") =>
         /\ staging.total <= STAGED_MAX
         /\ \A i \in Registry(lock) : \A kind \in {"archive", "entry"} :
                \E copy \in copies : copy.leaf = <<kind, lock[i].key>>

\* A confined check as a whole: it tests its candidate with the dependencies its
\* lockfile names, ends in one disposition, and asks for its rights before each phase.
ChecksAreSound ==
    /\ [](TestedIsCandidate /\ OneDisposition /\ StagedIsLocked /\ StagedInPlace /\ ReadsBounded)
    /\ PhasesReconsult
=============================================================================
