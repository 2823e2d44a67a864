------------------------------- MODULE Helper -------------------------------
(***************************************************************************)
(* The start of the sandbox helper                                         *)
(* (src/crates/rivect-sandbox-helper/src/main.rs): the options of a        *)
(* launch, the limits of its profile, the sweep of inherited descriptors,  *)
(* and the mode it then runs: a launch of a program, the setup of a check's*)
(* writable root, or data moved behind a landlock.  Another process may    *)
(* exchange or fill the paths it names between any two calls.              *)
(***************************************************************************)
EXTENDS Integers, Sequences, FiniteSets, FiniteSetsExt, SequencesExt

CONSTANTS
    ArgTokens,      \* arguments of a launch before "--"
    MaxArgs,   \* length of a launch's arguments
    Resource,    \* what setrlimit bounds; "as" is one of them
    WORKER,      \* RLIMITS, per resource
    CHECK,       \* check_rlimits, per resource
    Ceilings,    \* hard limits a parent may pass down
    Budgets,     \* memory budgets within INDEX_WORKER_MEMORY_BUDGET
    MaxMoves     \* steps of the other process

ASSUME HelperAssumption ==
    /\ "as" \in Resource /\ MaxArgs \in Nat /\ MaxMoves \in Nat
    /\ WORKER \in [Resource -> Nat] /\ CHECK \in [Resource -> Nat]
    /\ Ceilings \subseteq Nat /\ Budgets \subseteq 1..WORKER["as"]

VARIABLES
    host,        \* what the kernel offers: sweep by range or by listing, namespace
    args,        \* the mode and the launch's tokens
    helper,      \* where the helper is and what it has set
    paths,       \* the directory the named path leads to, and which are not empty
    moves
helperVars == <<host, args, helper, paths, moves>>

HelperModes == {"launch", "check-setup", "confined"}
Link == 9                            \* the path is a symbolic link
NoDir == 0
Stdio == {0, 1, 2}
StrayFds == {3, 4}

HelperInit ==
    /\ host \in [range : BOOLEAN, listing : {"ok", "torn", "none"},
                 initialNs : BOOLEAN, landlock : BOOLEAN, capset : {"done", "fails", "silent"}]
    /\ \E mode \in HelperModes, n \in 0..MaxArgs :
         \E tokens \in [1..n -> ArgTokens] :
           /\ mode # "launch" => n = 0
           /\ mode # "check-setup" => ~ host.initialNs /\ host.capset = "done"
           /\ mode # "confined" => host.landlock
           /\ args = [mode |-> mode, tokens |-> tokens]
    /\ \E ceiling \in [Resource -> Ceilings] :
         helper = [pc |-> "options", index |-> 1, budget |-> 0, profile |-> "Worker",
                   hard |-> ceiling, inherited |-> ceiling, todo |-> Resource,
                   fds |-> Stdio \cup StrayFds, nnp |-> FALSE, caps |-> TRUE,
                   ruled |-> NoDir, fenced |-> FALSE, dir |-> NoDir, cwd |-> NoDir,
                   empty |-> {}, mounted |-> NoDir, exit |-> "none"]
    /\ paths = [at |-> 1, full |-> {}]
    /\ moves = 0

----------------------------------------------------------------------------
\* The options.

Goes(pc) == helper' = [helper EXCEPT !.pc = pc]
Exits(code) == helper' = [helper EXCEPT !.pc = "over", !.exit = code]
Still == UNCHANGED <<host, args, paths, moves>>

\* A slip: a budget beside the check profile is taken.
budget_flagBeside(token) == helper.budget = 0 /\ token.value \in Budgets

\* budget_flag and profile_flag: each at most once, never both.
budget_flag(token) ==
    helper.budget = 0 /\ helper.profile # "Check" /\ token.value \in Budgets
profile_flag == helper.profile # "Check" /\ helper.budget = 0

\* launch_options, one token; main runs it before the limits for the profile
\* and cmd_launch again for the budget, with the same tokens.
LaunchOption ==
    /\ helper.pc = "options" /\ args.mode = "launch" /\ helper.index <= Len(args.tokens)
    /\ LET token == args.tokens[helper.index]
       IN IF token.flag = "--" THEN Goes("limits")
          ELSE IF token.flag = "budget" /\ budget_flag(token)
          THEN helper' = [helper EXCEPT !.budget = token.value, !.index = @ + 1]
          ELSE IF token.flag = "profile" /\ profile_flag
          THEN helper' = [helper EXCEPT !.profile = "Check", !.index = @ + 1]
          ELSE Exits("protocol")
    /\ Still
LaunchOptionsEnd ==
    /\ helper.pc = "options" /\ args.mode = "launch" /\ helper.index > Len(args.tokens)
    /\ Exits("protocol") /\ Still
OtherMode ==
    /\ helper.pc = "options" /\ args.mode # "launch" /\ Goes("limits") /\ Still

----------------------------------------------------------------------------
\* Limits and descriptors.

Least(a, b) == IF a < b THEN a ELSE b
\* set_rlimit: over the hard limit the kernel refuses.
set_rlimit(h, r, value) ==
    IF value > h.hard[r] THEN [h EXCEPT !.pc = "over", !.exit = "sandbox"]
    ELSE [h EXCEPT !.hard = [h.hard EXCEPT ![r] = value], !.todo = @ \ {r}]

\* A slip: an inherited limit stands as it is for a check.
LimitValueInherited(r) ==
    IF helper.profile = "Worker" THEN WORKER[r] ELSE helper.hard[r]

\* apply_rlimits: the worker's values, or set_rlimit_capped's.
LimitValue(r) ==
    IF helper.profile = "Worker" THEN WORKER[r] ELSE Least(CHECK[r], helper.hard[r])
ApplyLimit ==
    /\ helper.pc = "limits"
    /\ \E r \in helper.todo : helper' = set_rlimit(helper, r, LimitValue(r))
    /\ Still
\* check_nproc_limit: a measurement of the processes that fails.
MeasureFails ==
    helper.pc = "limits" /\ helper.profile = "Check" /\ Exits("sandbox") /\ Still
LimitsApplied == helper.pc = "limits" /\ helper.todo = {} /\ Goes("sweep") /\ Still

\* A slip: a listing that ended in an error is taken for the whole.
walk_fd_dirTorn ==
    CASE host.listing = "ok" -> StrayFds [] host.listing = "torn" -> {3} [] OTHER -> {}

\* walk_fd_dir: what it closes; a listing that fails midway closes nothing.
walk_fd_dir == IF host.listing = "ok" THEN StrayFds ELSE {}

\* close_stray_fds: by range, by the listing, or refuse.
Sweep ==
    /\ helper.pc = "sweep"
    /\ IF host.range THEN helper' = [helper EXCEPT !.fds = Stdio, !.pc = args.mode]
       ELSE IF walk_fd_dir # {}
       THEN helper' = [helper EXCEPT !.fds = @ \ walk_fd_dir, !.pc = args.mode]
       ELSE Exits("sandbox")
    /\ Still

----------------------------------------------------------------------------
\* launch

\* cmd_launch: the budget last, then the program; a program that is not
\* there returns.
Budgeted == IF helper.budget = 0 THEN helper ELSE set_rlimit(helper, "as", helper.budget)
CmdLaunch ==
    /\ helper.pc = "launch"
    /\ \/ helper' = IF Budgeted.pc = "over" THEN Budgeted
                    ELSE [Budgeted EXCEPT !.pc = "program"]
       \/ helper' = IF Budgeted.pc = "over" THEN Budgeted
                    ELSE [Budgeted EXCEPT !.pc = "over", !.exit = "launch"]
    /\ Still

----------------------------------------------------------------------------
\* check-setup

\* refuse_initial_user_namespace.
RefuseInitial ==
    /\ helper.pc = "check-setup"
    /\ IF host.initialNs THEN Exits("sandbox") ELSE Goes("open_rw")
    /\ Still
\* open_empty_rw: the path, not through a link.
OpenRw ==
    /\ helper.pc = "open_rw"
    /\ IF paths.at = Link THEN Exits("sandbox")
       ELSE helper' = [helper EXCEPT !.dir = paths.at, !.fds = @ \cup {3}, !.pc = "list_rw"]
    /\ Still
\* dir_is_empty, through the descriptor.
Listed == helper.dir
ListRw ==
    /\ helper.pc = "list_rw"
    /\ IF Listed \in paths.full
       THEN helper' = [helper EXCEPT !.fds = @ \ {3}, !.pc = "over", !.exit = "sandbox"]
       ELSE helper' = [helper EXCEPT !.empty = @ \cup {Listed}, !.pc = "fchdir"]
    /\ Still
\* fchdir of the validated directory; a failure closes it.
Fchdir ==
    /\ helper.pc = "fchdir"
    /\ \/ helper' = [helper EXCEPT !.cwd = helper.dir, !.pc = "mount"]
       \/ helper' = [helper EXCEPT !.fds = @ \ {3}, !.pc = "over", !.exit = "sandbox"]
    /\ Still
\* A slip: the mount names the path again.
MountTargetPath == IF paths.at = Link THEN NoDir ELSE paths.at

\* The tmpfs goes on ".".
MountTarget == helper.cwd
\* The mount, then the checked close; either may fail.
Mount ==
    /\ helper.pc = "mount"
    /\ \E mounts, closes \in BOOLEAN :
         helper' = [helper EXCEPT
             !.mounted = IF mounts THEN MountTarget ELSE @,
             !.fds = IF closes THEN @ \ {3} ELSE @,
             !.pc = IF mounts /\ closes THEN "drop" ELSE "over",
             !.exit = IF mounts /\ closes THEN @ ELSE "sandbox"]
    /\ Still
\* drop_namespace_privileges: no_new_privs and capset.
DropPrivileges ==
    /\ helper.pc = "drop"
    /\ \/ Exits("sandbox")
       \/ /\ host.capset # "fails"
          /\ helper' = [helper EXCEPT !.nnp = TRUE, !.caps = (host.capset = "silent"),
                                      !.pc = "verify"]
    /\ Still
\* A slip: the drop is taken at its word.
verify_dropped_privilegesNever == TRUE

\* verify_dropped_privileges: what the kernel says of the process now.
verify_dropped_privileges == ~ helper.caps /\ helper.nnp
VerifyDropped ==
    /\ helper.pc = "verify"
    /\ IF verify_dropped_privileges THEN Exits("ok") ELSE Exits("sandbox")
    /\ Still

----------------------------------------------------------------------------
\* confined

\* apply_linux_landlock: no_new_privs, the ABI probe and the ruleset.
LandlockRuleset ==
    /\ helper.pc = "confined"
    /\ IF host.landlock THEN helper' = [helper EXCEPT !.nnp = TRUE, !.pc = "scope"]
       ELSE Exits("sandbox")
    /\ Still
\* The scope is opened as a directory, not through a link.
ScopeOpens == IF paths.at = Link THEN [helper EXCEPT !.pc = "over", !.exit = "sandbox"]
              ELSE [helper EXCEPT !.ruled = paths.at, !.pc = "restrict"]
LandlockScope ==
    /\ helper.pc = "scope"
    /\ \/ helper' = ScopeOpens                          \* a scope was named
       \/ Goes("restrict")                              \* an empty scope: no rule
    /\ Still
LandlockRestrict ==
    /\ helper.pc = "restrict"
    /\ \/ helper' = [helper EXCEPT !.fenced = TRUE, !.pc = "data"]
       \/ Exits("sandbox")
    /\ Still
\* confined_read and confined_write, behind it.
DataDone == helper.pc = "data" /\ Exits("ok") /\ Still

----------------------------------------------------------------------------
\* The other process.

\* The path is made to lead elsewhere, or a directory gets an entry.
PathMoves ==
    /\ moves < MaxMoves /\ args.mode # "launch"          \* a launch names no path
    /\ \/ \E to \in {1, 2, Link} \ {paths.at} : paths' = [paths EXCEPT !.at = to]
       \/ \E d \in {1, 2} \ paths.full : paths' = [paths EXCEPT !.full = @ \cup {d}]
    /\ moves' = moves + 1
    /\ UNCHANGED <<host, args, helper>>

HelperNext ==
    \/ LaunchOption \/ LaunchOptionsEnd \/ OtherMode
    \/ ApplyLimit \/ MeasureFails \/ LimitsApplied \/ Sweep
    \/ CmdLaunch
    \/ RefuseInitial \/ OpenRw \/ ListRw \/ Fchdir \/ Mount \/ DropPrivileges \/ VerifyDropped
    \/ LandlockRuleset \/ LandlockScope \/ LandlockRestrict \/ DataDone
    \/ PathMoves

HelperSpec == HelperInit /\ [][HelperNext]_helperVars

----------------------------------------------------------------------------
\* Properties.

\* A program starts, and data moves, with no descriptor of the parent open:
\* a sweep that could not list every descriptor refuses (close_stray_fds,
\* walk_fd_dir), and the setup's own directory is closed before it succeeds
\* (close_checked).
NothingInherited ==
    helper.pc \in {"program", "data"} \/ helper.exit = "ok" => helper.fds = Stdio

\* A program starts under the limits asked for it, none above what the
\* helper itself was given, and a budget is never lost beside another
\* profile (launch_options, apply_rlimits, set_rlimit_capped).
LimitsHold ==
    helper.pc = "program" =>
        /\ \A r \in Resource :
             /\ helper.hard[r] <= helper.inherited[r]
             /\ helper.hard[r] <= IF helper.profile = "Worker" THEN WORKER[r] ELSE CHECK[r]
        /\ \A i \in DOMAIN args.tokens :
             (\A j \in 1..i : args.tokens[j].flag # "--") =>
               /\ args.tokens[i].flag = "budget" =>
                    helper.hard["as"] <= args.tokens[i].value /\ helper.profile = "Worker"
               /\ args.tokens[i].flag = "profile" => helper.profile = "Check"

\* The writable root is mounted on the directory that was found empty,
\* whatever its path leads to by then (cmd_check_setup, open_empty_rw).
MountOnValidated == helper.mounted # NoDir => helper.mounted \in helper.empty

\* Success means the whole: a check's setup is mounted in a namespace of its
\* own and has dropped its privileges, and data moved behind the fence
\* (verify_dropped_privileges, apply_linux_landlock).
SuccessIsWhole ==
    helper.exit = "ok" =>
        \/ /\ args.mode = "check-setup" /\ ~ host.initialNs
           /\ helper.mounted # NoDir /\ ~ helper.caps /\ helper.nnp
        \/ args.mode = "confined" /\ helper.fenced /\ helper.nnp

-----------------------------------------------------------------------------
(***************************************************************************)
(* The system call fence of a confined program                             *)
(* (src/crates/rivect-sandbox-helper/src/lib.rs): the classic BPF program  *)
(* compile_seccomp assembles for each stage and architecture, run one      *)
(* instruction at a time, as the kernel runs it, on a call.  Jumps are the *)
(* code's literal offsets.                                                 *)
(***************************************************************************)

CONSTANTS
    Machine,     \* the architectures the helper is built for
    Flags,       \* first arguments of clone
    SocketArg    \* <<low, high>> words of an argument of socketpair

VARIABLES
    filter,      \* the stage and the machine it was compiled for, as a program
    call,        \* the call judged: arch, nr, band, args as <<low, high>>
    cpu,         \* pc and accumulator
    verdict      \* "none" until a RET
filterVars == <<filter, call, cpu, verdict>>

Stages == {"PreInjection", "Final"}
CompatBand == 1073741824    \* 0x4000_0000
SYS_CLONE3 == 435

----------------------------------------------------------------------------
\* The tables.

\* native_net_syscalls: denied at the end, denied early, socketpair, clone.
native_net_syscalls(m) ==
    IF m = "aarch64"
    THEN [final |-> <<198, 200, 201, 202, 203, 206, 211, 212, 242, 243, 269, 97, 117, 154, 157,
                      268, 270, 271, 280, 425, 426, 427, 434, 438, SYS_CLONE3>>,
          early |-> <<198, 211, 269, 117, 270, 271, 438, 425, 426, 427>>,
          socketpair |-> 199, clone |-> 220]
    ELSE [final |-> <<41, 42, 43, 44, 46, 47, 49, 50, 288, 299, 307, 101, 109, 112, 272, 308,
                      310, 311, 321, 425, 426, 427, 434, 438, SYS_CLONE3>>,
          early |-> <<41, 46, 307, 101, 310, 311, 438, 425, 426, 427>>,
          socketpair |-> 53, clone |-> 56]

\* CLONE_NEWTIME to CLONE_NEWNET, one bit each.
CLONE_NEW_NAMESPACE_FLAGS == {2^7, 2^17, 2^25, 2^26, 2^27, 2^28, 2^29, 2^30}

----------------------------------------------------------------------------
\* The instructions, with the code's jump offsets.

Load(field) == [op |-> "ld", jt |-> 0, jf |-> 0, k |-> field]
JumpEq(jt, jf, k) == [op |-> "jeq", jt |-> jt, jf |-> jf, k |-> k]
JumpSet(jt, jf, k) == [op |-> "jset", jt |-> jt, jf |-> jf, k |-> k]
Mask(k) == [op |-> "and", jt |-> 0, jf |-> 0, k |-> k]
Ret(what) == [op |-> "ret", jt |-> 0, jf |-> 0, k |-> what]

\* A slip: the high word of an argument is not compared.
ArgumentCheckLow(low, high, expected) ==
    <<Load(low), JumpEq(1, 0, expected), Ret("EPERM"), Load(low), JumpEq(1, 0, expected),
      Ret("EPERM")>>

\* Each argument of socketpair: both words are compared.
ArgumentCheck(low, high, expected) ==
    <<Load(low), JumpEq(1, 0, expected), Ret("EPERM"), Load(high), JumpEq(1, 0, 0), Ret("EPERM")>>

\* The guard on the architecture and what precedes the deny list.
Prefix(stage, m) ==
    IF stage = "Final"
    THEN <<Load("arch"), JumpEq(0, 3, m), Load("nr"), Mask("band")>>
    ELSE <<Load("arch"), JumpEq(1, 0, m), Ret("EPERM"), Load("nr")>>
         \o (IF m = "x86_64" THEN <<JumpSet(0, 1, CompatBand), Ret("EPERM")>> ELSE <<>>)
         \o <<JumpEq(0, 19, native_net_syscalls(m).socketpair)>>
         \o ArgumentCheck("args0", "args0h", 1)
         \o ArgumentCheck("args1", "args1h", 524293)
         \o ArgumentCheck("args2", "args2h", 0)
         \o <<Ret("ALLOW"), Load("nr")>>

\* The deny pairs, in the order of the table.
DenyPairs(denied) ==
    FlattenSeq([i \in DOMAIN denied |->
        <<JumpEq(0, 1, denied[i]),
          Ret(IF denied[i] = SYS_CLONE3 THEN "ENOSYS" ELSE "EPERM")>>])

\* A slip: the guard of the clone check jumps one instruction short.
CloneCheckShort(m) ==
    <<JumpEq(0, 3, native_net_syscalls(m).clone), Load("args0"), Mask("namespaces"),
      JumpEq(1, 0, 0), Ret("EPERM")>>

\* clone by its flags.
CloneCheck(m) ==
    <<JumpEq(0, 4, native_net_syscalls(m).clone), Load("args0"), Mask("namespaces"),
      JumpEq(1, 0, 0), Ret("EPERM")>>

\* A slip: the program ends with its last check.
compile_seccompOpen(stage, m) ==
    LET table == native_net_syscalls(m)
    IN Prefix(stage, m)
       \o DenyPairs(IF stage = "Final" THEN table.final ELSE table.early)
       \o (IF stage = "Final" THEN CloneCheck(m) ELSE <<>>)

\* compile_seccomp.
compile_seccomp(stage, m) ==
    LET table == native_net_syscalls(m)
    IN Prefix(stage, m)
       \o DenyPairs(IF stage = "Final" THEN table.final ELSE table.early)
       \o (IF stage = "Final" THEN CloneCheck(m) ELSE <<>>)
       \o <<Ret("ALLOW")>>

----------------------------------------------------------------------------
\* The kernel's evaluation.

\* Every number next to or in a table, and every argument the checks read.
Numbers(m) ==
    LET table == native_net_syscalls(m)
        named == ToSet(table.final) \cup {table.socketpair, table.clone}
    IN {n \in UNION {{k - 1, k, k + 1} : k \in named} : n >= 0}
Arguments(m, n) ==
    LET table == native_net_syscalls(m)
    IN CASE n = table.clone -> {<<<<f, 0>>, <<0, 0>>, <<0, 0>>>> : f \in Flags}
         [] n = table.socketpair -> [1..3 -> SocketArg]
         [] OTHER -> {[i \in 1..3 |-> <<0, 0>>]}

FilterInit ==
    /\ \E stage \in Stages, m \in Machine :
         /\ filter = [stage |-> stage, machine |-> m]
         /\ \E arch \in {m, "other"}, n \in Numbers(m), band \in {0, CompatBand} :
              \E values \in Arguments(m, n) :
                call = [arch |-> arch, n |-> n, nr |-> n + band, args |-> values]
    /\ cpu = [pc |-> 1, acc |-> 0]
    /\ verdict = "none"

\* The two programs of each build.
Programs == [stage \in Stages, m \in Machine |-> compile_seccomp(stage, m)]
Program == Programs[filter.stage, filter.machine]
Field(k) ==
    CASE k = "nr" -> call.nr
      [] k = "args0" -> call.args[1][1] [] k = "args0h" -> call.args[1][2]
      [] k = "args1" -> call.args[2][1] [] k = "args1h" -> call.args[2][2]
      [] k = "args2" -> call.args[3][1] [] k = "args2h" -> call.args[3][2]

\* A word AND a mask, the mask as its set of bits.
And(word, bits) == FoldSet(LAMBDA b, sum : sum + b * ((word \div b) % 2), 0, bits)

\* One instruction.  The architecture word is only ever compared, so its
\* comparison is on the name; the band mask clears one bit.
RunInstruction ==
    /\ verdict = "none"
    /\ cpu.pc \in DOMAIN Program
    /\ LET i == Program[cpu.pc]
           go(taken) == cpu.pc + 1 + (IF taken THEN i.jt ELSE i.jf)
       IN /\ verdict' = IF i.op = "ret" THEN i.k ELSE "none"
          /\ cpu' = CASE i.op = "ld" /\ i.k = "arch" -> [cpu EXCEPT !.pc = @ + 1]
                      [] i.op = "ld" /\ i.k # "arch" ->
                           [pc |-> cpu.pc + 1, acc |-> Field(i.k)]
                      [] i.op = "and" /\ i.k = "band" ->
                           [pc |-> cpu.pc + 1, acc |-> cpu.acc - And(cpu.acc, {CompatBand})]
                      [] i.op = "and" /\ i.k = "namespaces" ->
                           [pc |-> cpu.pc + 1, acc |-> And(cpu.acc, CLONE_NEW_NAMESPACE_FLAGS)]
                      [] i.op = "jset" -> [cpu EXCEPT !.pc = go(And(cpu.acc, {i.k}) # 0)]
                      [] i.op = "jeq" /\ cpu.pc = 2 ->
                           [cpu EXCEPT !.pc = go(call.arch = i.k)]
                      [] i.op = "jeq" /\ cpu.pc # 2 -> [cpu EXCEPT !.pc = go(cpu.acc = i.k)]
                      [] OTHER -> cpu
    /\ UNCHANGED <<filter, call>>

FilterNext == RunInstruction

----------------------------------------------------------------------------
\* What each stage means to judge.

Namespaced(values) == \E f \in CLONE_NEW_NAMESPACE_FLAGS : (values[1][1] \div f) % 2 = 1
Meant ==
    LET table == native_net_syscalls(filter.machine)
        banded == call.nr # call.n
        denied(list) == call.n \in ToSet(list)
        pair == call.args = <<<<1, 0>>, <<524293, 0>>, <<0, 0>>>>
    IN CASE call.arch # filter.machine -> "EPERM"
         [] call.arch = filter.machine /\ filter.stage = "Final" ->
              IF call.n = SYS_CLONE3 THEN "ENOSYS"
              ELSE IF denied(table.final) \/ (call.n = table.clone /\ Namespaced(call.args))
              THEN "EPERM" ELSE "ALLOW"
         [] OTHER ->
              IF banded THEN (IF filter.machine = "x86_64" THEN "EPERM" ELSE "ALLOW")
              ELSE IF call.n = table.socketpair THEN (IF pair THEN "ALLOW" ELSE "EPERM")
              ELSE IF denied(table.early) THEN "EPERM" ELSE "ALLOW"

\* The assembled program gives every call the verdict the stage means for
\* it: its literal jump offsets land where they should, a call of another
\* architecture fails closed, a compat number is judged as its native one
\* at the end and refused early on x86_64, clone is judged by its flags and
\* socketpair by both words of its three arguments (compile_seccomp).
VerdictIsMeant == verdict # "none" => verdict = Meant

\* A program never runs past its last instruction, whatever the call: every
\* jump stays inside (compile_seccomp; the kernel refuses other programs).
EndsInVerdict == cpu.pc \in DOMAIN Program

-----------------------------------------------------------------------------
(***************************************************************************)
(* The census the executor takes of its own threads before it launches     *)
(* anything: ensure_parent_observing of the sandbox helper's lib.rs.  The  *)
(* process first makes itself undumpable, so that no tracer can attach any *)
(* more; a tracer attached earlier still traces, and a traced thread's new *)
(* threads are traced too.  The census pins one status file per thread and *)
(* must not be fooled by threads that are born or die while it reads.      *)
(***************************************************************************)

CONSTANTS
    MaxThreads,     \* bound on the threads that are ever born; 1 is the leader
    MaxSweeps,      \* 64 in the code
    MaxPinned       \* 4096 in the code

ASSUME CensusAssumption == MaxSweeps \in Nat \ {0} /\ MaxPinned \in Nat \ {0}

VARIABLES
    living, traced, born,   \* the process: its threads
    dumpable,
    census                  \* the caller's progress
censusVars == <<living, traced, born, dumpable, census>>

CensusInit ==
    /\ living = {1, 2} /\ traced \in SUBSET {1, 2} /\ born = 2 /\ dumpable = TRUE
    /\ census = [at |-> "start", sweep |-> 0, seen |-> {}, pinned |-> {}, count |-> 0,
                 reread |-> {}, retired |-> FALSE, reading |-> 0]

ProcessVars == <<living, traced, born, dumpable>>

----------------------------------------------------------------------------
\* The process, meanwhile.

Birth(creator) ==
    /\ creator \in living /\ born < MaxThreads /\ born' = born + 1
    /\ living' = living \cup {born'}
    /\ traced' = IF creator \in traced THEN traced \cup {born'} ELSE traced
    /\ UNCHANGED <<dumpable, census>>

Death(tid) ==
    /\ tid \in living \ {1} /\ living' = living \ {tid} /\ traced' = traced \ {tid}
    /\ UNCHANGED <<born, dumpable, census>>

Attach(tid) ==
    /\ dumpable /\ tid \in living \ traced /\ traced' = traced \cup {tid}
    /\ UNCHANGED <<living, born, dumpable, census>>

----------------------------------------------------------------------------
\* The census.

Refuse == census' = [census EXCEPT !.at = "refused"]

\* Mutant: the process becomes undumpable when the census is over.
ProtectLate ==
    /\ census.at = "start" /\ dumpable' = dumpable
    /\ census' = [census EXCEPT !.at = "names", !.sweep = 1]
    /\ UNCHANGED <<living, traced, born>>

\* prctl and parent_dumpable, before anything is read.
Protect ==
    /\ census.at = "start" /\ dumpable' = FALSE
    /\ census' = [census EXCEPT !.at = "names", !.sweep = 1]
    /\ UNCHANGED <<living, traced, born>>

\* parent_budget: the deadline, the caller's cancel, or an I/O error.
Interrupted ==
    /\ census.at \notin {"start", "refused", "protected"} /\ Refuse /\ UNCHANGED ProcessVars

\* parent_task_names: one directory entry, of a thread that lives now.
TaskName(tid) ==
    /\ census.at = "names" /\ tid \in living \ census.seen
    /\ census' = [census EXCEPT !.at = "entry", !.seen = @ \cup {tid}, !.reading = tid]
    /\ UNCHANGED ProcessVars

\* parent_task_entry and parent_read_task: a thread that died meanwhile is
\* unpinned, a traced one refuses, another is pinned.
TaskEntry ==
    /\ census.at = "entry"
    /\ LET tid == census.reading IN
       IF tid \notin living
       THEN census' = [census EXCEPT !.at = "names", !.pinned = @ \ {tid}]
       ELSE IF tid \in traced \/ (tid \notin census.pinned /\ Cardinality(census.pinned) >= MaxPinned)
       THEN Refuse
       ELSE census' = [census EXCEPT !.at = "names", !.pinned = @ \cup {tid}]
    /\ UNCHANGED ProcessVars

\* The directory has no further entry, the leader's status gives the count.  The
\* listing may have missed any thread but the leader.
ReadCount ==
    /\ census.at \in {"names", "count"} /\ 1 \in census.pinned
    /\ IF 1 \in traced THEN Refuse
       ELSE census' = [census EXCEPT !.at = "cohort", !.count = Cardinality(living),
                                     !.reread = census.pinned, !.retired = FALSE]
    /\ UNCHANGED ProcessVars

\* Mutant: the pinned threads are not read again after the count.
CohortTrusted(tid) ==
    /\ census.at = "cohort" /\ tid \in census.reread
    /\ census' = [census EXCEPT !.reread = @ \ {tid}]
    /\ UNCHANGED ProcessVars

\* parent_read_cohort: every pinned thread is read again after the count.
CohortRead(tid) ==
    /\ census.at = "cohort" /\ tid \in census.reread
    /\ IF tid \in traced THEN Refuse
       ELSE census' = [census EXCEPT !.reread = @ \ {tid},
                         !.pinned = IF tid \in living THEN @ ELSE @ \ {tid},
                         !.retired = @ \/ tid \notin living]
    /\ UNCHANGED ProcessVars

\* A thread that had died restarts the count; as many pinned threads as counted
\* end the census; otherwise the next sweep, until there were too many.
Compare ==
    /\ census.at = "cohort" /\ census.reread = {}
    /\ IF census.retired THEN census' = [census EXCEPT !.at = "count"]
       ELSE IF census.count = Cardinality(census.pinned)
       THEN census' = [census EXCEPT !.at = "protected"]
       ELSE IF census.sweep = MaxSweeps THEN Refuse
       ELSE census' = [census EXCEPT !.at = "names", !.sweep = @ + 1, !.seen = {}]
    /\ UNCHANGED ProcessVars

CensusNext ==
    \/ \E tid \in 1..MaxThreads :
         Birth(tid) \/ Death(tid) \/ Attach(tid) \/ TaskName(tid) \/ CohortRead(tid)
    \/ Protect \/ Interrupted \/ TaskEntry \/ ReadCount \/ Compare

CensusSpec == CensusInit /\ [][CensusNext]_censusVars

----------------------------------------------------------------------------
\* A census that succeeds proves that no thread of the process is traced, now or
\* later: no thread that was born during it escapes the count.
ProtectedIsUntraced == census.at = "protected" => traced = {}

\* What the helper hands a confined program, as a whole: no descriptor, limit or mount
\* that was not meant, a filter that ends in the verdict its stage means, and a parent
\* nobody traces.
ConfinementHolds ==
    /\ NothingInherited /\ LimitsHold /\ MountOnValidated /\ SuccessIsWhole
    /\ VerdictIsMeant /\ EndsInVerdict
    /\ ProtectedIsUntraced
=============================================================================
