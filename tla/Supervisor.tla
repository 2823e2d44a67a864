----------------------------- MODULE Supervisor -----------------------------
(***************************************************************************)
(* The stall detectors (supervisor.rs).  Every settled step feeds one       *)
(* observation; a bounded window per task and operation class is judged     *)
(* after each, and a firing starts a cooldown counted in observations of    *)
(* the task.  The watches are bounded too: the task observed longest ago    *)
(* is forgotten, with its windows, cooldown and grace.                      *)
(*                                                                         *)
(* A signature is <<call, result>>: two are equal exactly, or fuzzily when  *)
(* only the call is the same.                                               *)
(***************************************************************************)
EXTENDS Naturals, Sequences, SequencesExt, FiniteSetsExt

CONSTANTS
    Class,              \* the operation classes
    Threshold,          \* [Class -> thresholds]: SupervisorPolicy
    Observations,       \* the observations that can be fed
    WATCH_LIMIT,
    MaxObservations     \* bound on the observations fed

(* ClassThresholds::validate; Supervisor::new refuses any other policy.     *)
Validate(t) ==
    /\ \A cap \in {t.exact_repeat, t.fuzzy_repeat, t.ping_pong, t.no_progress} : cap <= t.window
    /\ t.fuzzy_repeat >= t.exact_repeat
    /\ t.ping_pong >= 2
    /\ t.cooldown > 0

Signatures == {o.signature : o \in Observations}

ASSUME SupervisorAssumption ==
    /\ Threshold \in [Class -> [window : Nat, exact_repeat : Nat, fuzzy_repeat : Nat,
                                ping_pong : Nat, no_progress : Nat, cooldown : Nat]]
    /\ \A c \in Class : Validate(Threshold[c])
    /\ \A o \in Observations : o.class \in Class /\ o.progress \in BOOLEAN /\ o.waiting \in BOOLEAN
    /\ WATCH_LIMIT \in Nat \ {0} /\ MaxObservations \in Nat

VARIABLES
    watches,     \* the tasks' watches; a task without one is not in the domain
    order,       \* the watched tasks, the one observed longest ago first
    fed,         \* observations fed
    reaction,    \* the cause the last observation fired, or "none"
    judged,      \* per watched task and class: the stalled samples since the last useful one
    quiet,       \* per watched task: observations since its last reaction, and its cooldown
    parked,      \* per watched task: waiting observations of one class in a row, unreported
    latest,      \* the last observation
    cooling      \* it fell in a cooldown

supervisorVars == <<watches, order, fed, reaction, judged, quiet, parked, latest, cooling>>

NewWatch == [windows |-> [c \in Class |-> <<>>], cooldown |-> 0, grace |-> 0]

SupervisorInit ==
    /\ watches = <<>> /\ order = <<>> /\ fed = 0 /\ reaction = "none"
    /\ judged = <<>> /\ quiet = <<>> /\ parked = <<>> /\ cooling = FALSE
    /\ latest \in Observations

-----------------------------------------------------------------------------
(* detect: the causes in the order they are tried, over the run of samples  *)
(* after the last useful one, newest first.                                 *)

ExactMatch(a, b) == a = b
FuzzyMatch(a, b) == a[1] = b[1]

(* the length of the longest prefix of s all of whose places are in P       *)
PrefixLength(s, P) == Max({n \in 0..Len(s) : 1..n \subseteq P})

StalledRun(window) ==
    LET newest == Reverse(window)
    IN  [i \in 1..PrefixLength(newest, {i \in DOMAIN newest : ~newest[i].useful})
            |-> newest[i].signature]

(* odd places repeat the newest signature, even ones the one before it      *)
Alternate(i) == IF i % 2 = 1 THEN 1 ELSE 2
TrailingAlternations(run) ==
    IF Len(run) < 2 \/ run[1] = run[2] THEN 0
    ELSE PrefixLength(run, {i \in DOMAIN run : run[i] = run[Alternate(i)]})

Exact(run) == PrefixLength(run, {i \in DOMAIN run : ExactMatch(run[i], run[1])})
Fuzzy(run) == PrefixLength(run, {i \in DOMAIN run : FuzzyMatch(run[i], run[1])})

Detect(run, t) ==
    IF run = <<>> THEN "none"
    ELSE IF Exact(run) >= t.exact_repeat THEN "exact"
    ELSE IF Fuzzy(run) >= t.fuzzy_repeat THEN "fuzzy"
    ELSE IF TrailingAlternations(run) >= t.ping_pong THEN "ping_pong"
    ELSE IF Len(run) >= t.no_progress THEN "no_progress"
    ELSE "none"

-----------------------------------------------------------------------------
(* observe.                                                                 *)

(* the tasks that stay watched when t is observed, t last; a new watch may  *)
(* push out the front                                                       *)
KeptOrderEvictsNewest(t) ==
    IF t \in DOMAIN watches \/ Len(order) < WATCH_LIMIT THEN Append(order, t)
    ELSE Append(Front(order), t)
KeptOrder(t) ==
    IF t \in DOMAIN watches
    THEN Append(RemoveAt(order, CHOOSE i \in DOMAIN order : order[i] = t), t)
    ELSE LET surplus == IF Len(order) < WATCH_LIMIT THEN 0 ELSE Len(order) - WATCH_LIMIT + 1
         IN  Append(SubSeq(order, surplus + 1, Len(order)), t)

WatchOf(t) == IF t \in DOMAIN watches THEN watches[t] ELSE NewWatch

(* A waiting task's sample is useful until the grace is spent.              *)
UsefulGraceNever(o, w) == [useful |-> IF o.waiting THEN TRUE ELSE o.progress, grace |-> 0]
Useful(o, w) ==
    IF ~o.waiting THEN [useful |-> o.progress, grace |-> 0]
    ELSE IF w.grace >= Threshold[o.class].no_progress
         THEN [useful |-> FALSE, grace |-> w.grace]
         ELSE [useful |-> TRUE, grace |-> w.grace + 1]

PushShort(window, sample, size) ==
    LET all == Append(window, sample) IN IF Len(all) >= size THEN Tail(all) ELSE all
Push(window, sample, size) ==
    LET all == Append(window, sample) IN IF Len(all) > size THEN Tail(all) ELSE all

(* During the cooldown nothing is judged.                                   *)
FiresInCooldown(w, window, t) == Detect(StalledRun(window), t)
Fires(w, window, t) == IF w.cooldown > 0 THEN "none" ELSE Detect(StalledRun(window), t)

Observe(o) ==
    LET t == o.task
        th == Threshold[o.class]
        w == WatchOf(t)
        verdict == Useful(o, w)
        sample == [signature |-> o.signature, useful |-> verdict.useful]
        window == Push(w.windows[o.class], sample, th.window)
        cause == Fires(w, window, th)
        watch == [windows  |-> [w.windows EXCEPT ![o.class] = window],
                  cooldown |-> IF w.cooldown > 0 THEN w.cooldown - 1
                               ELSE IF cause # "none" THEN th.cooldown ELSE 0,
                  grace    |-> verdict.grace]
        kept == ToSet(KeptOrder(t))
        stalled == IF t \in DOMAIN judged THEN judged[t] ELSE [c \in Class |-> <<>>]
        since == IF t \in DOMAIN quiet THEN quiet[t] ELSE [n |-> 0, due |-> 0]
        same == t \in DOMAIN parked /\ parked[t].class = o.class
    IN  /\ fed < MaxObservations /\ fed' = fed + 1
        /\ order' = KeptOrder(t)
        /\ watches' = [u \in kept |-> IF u = t THEN watch ELSE watches[u]]
        /\ reaction' = cause
        /\ judged' = [u \in kept |->
                        IF u # t THEN judged[u]
                        ELSE [stalled EXCEPT ![o.class] =
                                IF verdict.useful THEN <<>>
                                ELSE <<o.signature>> \o stalled[o.class]]]
        /\ quiet' = [u \in kept |->
                       IF u # t THEN quiet[u]
                       ELSE IF cause # "none" THEN [n |-> 0, due |-> th.cooldown]
                       ELSE [n |-> since.n + 1, due |-> since.due]]
        /\ parked' = [u \in kept |->
                        IF u # t THEN parked[u]
                        ELSE [class |-> o.class,
                              n |-> IF ~o.waiting \/ cause # "none" THEN 0
                                    ELSE IF same THEN parked[t].n + 1 ELSE 1]]
        /\ latest' = o
        /\ cooling' = (w.cooldown > 0)

SupervisorDone == fed = MaxObservations /\ UNCHANGED supervisorVars

SupervisorNext == (\E o \in Observations : Observe(o)) \/ SupervisorDone

SupervisorSpec == SupervisorInit /\ [][SupervisorNext]_supervisorVars

-----------------------------------------------------------------------------
(* The bounded window loses no stall: outside a cooldown, the cause fired    *)
(* is the one that all the samples since the last useful one, however many,  *)
(* call for (ClassThresholds::validate keeps every cap within the window).   *)
WindowLosesNothing ==
    fed > 0 /\ ~cooling =>
        reaction = Detect(judged[latest.task][latest.class], Threshold[latest.class])

(* After a firing the task's next `cooldown` observations fire nothing, also *)
(* when they are of another class; the cooldown is that of the class fired.  *)
CooldownHolds ==
    [][reaction' # "none" /\ latest'.task \in DOMAIN quiet =>
         quiet[latest'.task].n >= quiet[latest'.task].due]_supervisorVars

(* The watches are bounded, the order names each watched task once, and the  *)
(* task just observed is the one furthest from eviction.                    *)
WatchesBounded ==
    /\ Len(order) <= WATCH_LIMIT /\ ToSet(order) = DOMAIN watches
    /\ Len(order) = Cardinality(DOMAIN watches)
    /\ fed > 0 => order[Len(order)] = latest.task

(* Waiting excuses a task only for so long: once the grace is spent, as many *)
(* stalled samples are in the window and the cooldown has passed, a task     *)
(* that is still observed waiting in that class is reported.                 *)
WaitingIsReported ==
    fed > 0 => LET n == parked[latest.task].n
               IN  \/ n < 2 * Threshold[latest.class].no_progress
                   \/ n <= quiet[latest.task].due

\* The supervisor as a whole: its window loses no progress, watches and a cooldown keep
\* their bounds, and a task that only waits is reported in time.
LoopsAreCaught ==
    [](WindowLosesNothing /\ WatchesBounded /\ WaitingIsReported) /\ CooldownHolds
=============================================================================
